-------------------------- MODULE AdjacencyProofs --------------------------
(***************************************************************************)
(* Invariance proofs for Adjacency, for every value of its constants: any  *)
(* set of LSAs, any bounds, any kinds and number of faults, both link      *)
(* types.                                                                  *)
(*                                                                         *)
(* The inductive invariant IInv says of each neighbour object, by itself,  *)
(* what the four safety properties say together; nothing is needed of the  *)
(* channels but their type, which is why the properties survive loss,      *)
(* duplication and reordering.  One lemma for each handler of the state    *)
(* machine says what it does to a Sound object; the lemma for a callback   *)
(* composes those of the handlers it nests.                                *)
(*                                                                         *)
(* NothingForgotten relates an object to its router's database.  Its       *)
(* invariant HoldInv and its proof are the second part of the module.      *)
(*                                                                         *)
(* SameExchange relates the two objects to each other and to every DD      *)
(* between them.  Its invariant ExchInv and its proof, under the condition *)
(* Distinct, are the third part.                                           *)
(***************************************************************************)
EXTENDS Adjacency, TLAPS, FiniteSetTheorems, FunctionTheorems,
        WellFoundedInduction

(* What holds of n's object between any two handlers. *)
Sound(n, e) ==
    /\ e \in Neighbor
    /\ RoleFollowsId(n, e)
    /\ LeavesNothing(e)
    /\ ArmedToRetry(e)

IInv ==
    /\ TypeOK
    /\ \A n \in Node : Sound(n, nbr[n]) /\ StateMatchesElection(nbr[n], wanted[n])

-----------------------------------------------------------------------------
(* Constants, types and single packets.                                    *)

LEMMA StateOrder ==
    /\ State = {0, 2, 3, 4, 5, 6, 7}
    /\ DOWN = 0 /\ INIT = 2 /\ TWOWAY = 3 /\ EXSTART = 4
    /\ EXCHANGE = 5 /\ LOADING = 6 /\ FULL = 7
  BY DEF State, DOWN, INIT, TWOWAY, EXSTART, EXCHANGE, LOADING, FULL

LEMMA StateType ==
    /\ DOWN \in State /\ INIT \in State /\ TWOWAY \in State /\ EXSTART \in State
    /\ EXCHANGE \in State /\ LOADING \in State /\ FULL \in State
  BY DEF State

(* Setting the state changes nothing else. *)
LEMMA SetState ==
    ASSUME NEW e \in Neighbor, NEW s \in State
    PROVE  LET f == [e EXCEPT !.state = s]
           IN /\ f \in Neighbor /\ f.state = s
              /\ f.master = e.master /\ f.seq = e.seq /\ f.lastTx = e.lastTx
              /\ f.summary = e.summary /\ f.request = e.request
              /\ f.lastRx = e.lastRx /\ f.ddTimer = e.ddTimer
              /\ f.rxmtTimer = e.rxmtTimer
  BY DEF Neighbor

LEMMA SeqNumType == SeqNum \subseteq Counter /\ SeqNum \subseteq Int
                    /\ Counter \subseteq Int /\ InitSeq \subseteq SeqNum
  BY ConstantsAssumption DEF SeqNum, Counter

LEMMA PeerType == \A n \in Node : Peer(n) \in Node
  BY DEF Node, Peer

LEMMA EmitType ==
    ASSUME NEW e \in Neighbor, NEW p \in Packet
    PROVE  Emit(e, p) \in Neighbor
<1>1. Append(e.out, p) \in Seq(Packet)
  BY DEF Neighbor
<1>q. QED
  BY <1>1 DEF Emit, Neighbor

LEMMA SendDDType ==
    ASSUME NEW e \in Neighbor, NEW p \in DDPacket
    PROVE  SendDD(e, p) \in Neighbor
<1>1. Append(e.out, p) \in Seq(Packet)
  BY DEF Packet, Neighbor
<1>q. QED
  BY <1>1 DEF SendDD, Neighbor

LEMMA DDType ==
    ASSUME NEW i \in BOOLEAN, NEW m \in BOOLEAN, NEW ms \in BOOLEAN,
           NEW s \in SeqNum, NEW hs \in SUBSET Header
    PROVE  DD(i, m, ms, s, hs) \in DDPacket
  BY DEF DD, DDPacket

LEMMA StampType ==
    ASSUME NEW dd \in DDPacket
    PROVE  Stamp(dd) \in Stamps
  BY DEF Stamp, Stamps, DDPacket

(* Three ways to be Sound: in ExStart, below it, or like a Sound object. *)
LEMMA ExStartSound ==
    ASSUME NEW n \in Node, NEW f \in Neighbor, f.state = EXSTART, f.ddTimer,
           f.master, f.lastTx = DD(TRUE, TRUE, TRUE, f.seq, {})
    PROVE  Sound(n, f)
<1>1. RoleFollowsId(n, f) /\ LeavesNothing(f)
  BY StateOrder DEF RoleFollowsId, LeavesNothing
<1>2. ArmedToRetry(f)
  BY StateOrder DEF ArmedToRetry
<1>q. QED
  BY <1>1, <1>2 DEF Sound

LEMMA LowSound ==
    ASSUME NEW n \in Node, NEW f \in Neighbor, f.state < EXSTART,
           f.summary = {}, f.request = {}, f.lastRx = None,
           ~f.ddTimer, ~f.rxmtTimer
    PROVE  Sound(n, f)
<1>0. f.state \in State
  BY DEF Neighbor
<1>1. RoleFollowsId(n, f) /\ LeavesNothing(f)
  BY <1>0, StateOrder DEF RoleFollowsId, LeavesNothing
<1>2. f.state # EXSTART /\ f.state # LOADING /\ f.state # FULL
  BY <1>0, StateOrder
<1>3. ArmedToRetry(f)
  BY <1>2 DEF ArmedToRetry
<1>q. QED
  BY <1>1, <1>3 DEF Sound

LEMMA AlikeSound ==
    ASSUME NEW n \in Node, NEW e, Sound(n, e), NEW f \in Neighbor,
           f.state = e.state, f.master = e.master, f.seq = e.seq,
           f.lastTx = e.lastTx, f.summary = e.summary, f.request = e.request,
           f.lastRx = e.lastRx, f.ddTimer = e.ddTimer, f.rxmtTimer = e.rxmtTimer
    PROVE  Sound(n, f)
<1>1. RoleFollowsId(n, f)
  BY DEF Sound, RoleFollowsId
<1>2. LeavesNothing(f)
  BY DEF Sound, LeavesNothing
<1>3. ArmedToRetry(f)
  BY DEF Sound, ArmedToRetry
<1>q. QED
  BY <1>1, <1>2, <1>3 DEF Sound

(* Emitting a packet changes nothing but the packets emitted. *)
LEMMA EmitSound ==
    ASSUME NEW n \in Node, NEW e, Sound(n, e), NEW p \in Packet
    PROVE  Sound(n, Emit(e, p)) /\ Emit(e, p).state = e.state
<1>1. Emit(e, p) \in Neighbor
  BY EmitType DEF Sound
<1>2. /\ Emit(e, p).state = e.state /\ Emit(e, p).master = e.master
      /\ Emit(e, p).seq = e.seq /\ Emit(e, p).lastTx = e.lastTx
      /\ Emit(e, p).summary = e.summary /\ Emit(e, p).request = e.request
      /\ Emit(e, p).lastRx = e.lastRx /\ Emit(e, p).ddTimer = e.ddTimer
      /\ Emit(e, p).rxmtTimer = e.rxmtTimer
  BY DEF Emit, Sound, Neighbor
<1>q. QED
  BY <1>1, <1>2 DEF Sound, RoleFollowsId, LeavesNothing, ArmedToRetry

-----------------------------------------------------------------------------
(* The handlers of the state machine.                                      *)

(* Starting an exchange makes any object sound, whatever it held before. *)
LEMMA StartSound ==
    ASSUME NEW n \in Node, NEW e \in Neighbor, NEW s \in SeqNum,
           e.state = EXSTART
    PROVE  Sound(n, StartDDExchange(e, s))
           /\ StartDDExchange(e, s).state = EXSTART
<1> DEFINE e1 == [e EXCEPT !.seq = s, !.master = TRUE, !.summary = {},
                           !.request = {}, !.ddTimer = TRUE, !.told = {},
                           !.struck = {}]
           p  == DD(TRUE, TRUE, TRUE, s, {})
           e2 == SendDD(e1, p)
<1>1. e1 \in Neighbor /\ p \in DDPacket
  BY SeqNumType, DDType DEF Neighbor
<1>2. e2 \in Neighbor
  BY <1>1, SendDDType
<1>3. /\ e2.state = EXSTART /\ e2.ddTimer /\ e2.master
      /\ e2.lastTx = p /\ e2.seq = s
  BY <1>1 DEF SendDD, Neighbor
<1>4. Sound(n, e2)
  <2> HIDE DEF e2
  <2>q. QED
    BY <1>2, <1>3, ExStartSound
<1>q. QED
  BY <1>3, <1>4 DEF StartDDExchange

LEMMA HelloReceivedSound ==
    ASSUME NEW n \in Node, NEW e, Sound(n, e)
    PROVE  /\ Sound(n, HelloReceived(e))
           /\ HelloReceived(e).state = IF e.state = DOWN THEN INIT ELSE e.state
<1> DEFINE f == HelloReceived(e)
<1>1. f \in Neighbor /\ f.state = IF e.state = DOWN THEN INIT ELSE e.state
  BY StateType DEF HelloReceived, Sound, Neighbor
<1>2. /\ f.master = e.master /\ f.seq = e.seq /\ f.lastTx = e.lastTx
      /\ f.summary = e.summary /\ f.request = e.request
      /\ f.lastRx = e.lastRx /\ f.ddTimer = e.ddTimer
      /\ f.rxmtTimer = e.rxmtTimer
  BY DEF HelloReceived, Sound, Neighbor
<1> HIDE DEF f
<1>3. CASE e.state = DOWN
  <2>1. f.state < EXSTART /\ e.state < EXSTART
    BY <1>1, <1>3, StateOrder
  <2>2. /\ f.summary = {} /\ f.request = {} /\ f.lastRx = None
        /\ ~f.ddTimer /\ ~f.rxmtTimer
    BY <1>2, <2>1 DEF Sound, LeavesNothing
  <2>q. QED
    BY <1>1, <2>1, <2>2, LowSound DEF f
<1>4. CASE e.state # DOWN
  BY <1>1, <1>2, <1>4, AlikeSound DEF f
<1>q. QED
  BY <1>3, <1>4

(* Every handler that leaves the exchange clears its lists and timers. *)
LEMMA ClearedSound ==
    ASSUME NEW n \in Node, NEW e \in Neighbor, e.state < EXSTART
    PROVE  /\ Sound(n, StopTimers(ClearLists(e)))
           /\ StopTimers(ClearLists(e)).state = e.state
<1> DEFINE f == StopTimers(ClearLists(e))
<1>1. /\ f \in Neighbor /\ f.state = e.state
      /\ f.summary = {} /\ f.request = {} /\ f.lastRx = None
      /\ ~f.ddTimer /\ ~f.rxmtTimer
  BY DEF StopTimers, ClearLists, Neighbor, Stamps
<1> HIDE DEF f
<1>2. Sound(n, f)
  BY <1>1, LowSound
<1>q. QED
  BY <1>1, <1>2 DEF f

LEMMA OneWaySound ==
    ASSUME NEW n \in Node, NEW e, Sound(n, e)
    PROVE  Sound(n, OneWay(e)) /\ OneWay(e).state = INIT
<1> DEFINE f == [e EXCEPT !.state = INIT]
<1>1. f \in Neighbor /\ f.state = INIT
  BY StateType, SetState DEF Sound
<1>2. OneWay(e) = StopTimers(ClearLists(f))
  BY DEF OneWay
<1> HIDE DEF f
<1>3. f.state < EXSTART
  BY <1>1, StateOrder
<1>q. QED
  BY <1>1, <1>2, <1>3, ClearedSound

LEMMA GoDownSound ==
    ASSUME NEW n \in Node, NEW e, Sound(n, e)
    PROVE  Sound(n, GoDown(e)) /\ GoDown(e).state = DOWN
<1> DEFINE f == [e EXCEPT !.state = DOWN, !.inactivity = FALSE]
<1>1. f \in Neighbor /\ f.state = DOWN
  BY StateType DEF Sound, Neighbor
<1>2. GoDown(e) = StopTimers(ClearLists(f))
  BY DEF GoDown
<1> HIDE DEF f
<1>3. f.state < EXSTART
  BY <1>1, StateOrder
<1>q. QED
  BY <1>1, <1>2, <1>3, ClearedSound

LEMMA TwoWayReceivedSound ==
    ASSUME NEW n \in Node, NEW e, Sound(n, e), e.state = INIT,
           NEW w \in BOOLEAN, NEW s \in SeqNum
    PROVE  /\ Sound(n, TwoWayReceived(e, w, s))
           /\ TwoWayReceived(e, w, s).state = IF w THEN EXSTART ELSE TWOWAY
<1>1. CASE w
  <2>1. [e EXCEPT !.state = EXSTART] \in Neighbor
        /\ [e EXCEPT !.state = EXSTART].state = EXSTART
    BY StateType, SetState DEF Sound
  <2>q. QED
    BY <1>1, <2>1, StartSound DEF TwoWayReceived
<1>2. CASE ~w
  <2> DEFINE f == [e EXCEPT !.state = TWOWAY]
  <2>1. f \in Neighbor /\ f.state = TWOWAY
    BY StateType, SetState DEF Sound
  <2>2. /\ f.summary = {} /\ f.request = {} /\ f.lastRx = None
        /\ ~f.ddTimer /\ ~f.rxmtTimer
    BY StateType, StateOrder, SetState DEF Sound, LeavesNothing
  <2>3. TwoWayReceived(e, w, s) = f
    BY <1>2 DEF TwoWayReceived
  <2> HIDE DEF f
  <2>4. Sound(n, f)
    BY <2>1, <2>2, StateOrder, LowSound
  <2>q. QED
    BY <1>2, <2>1, <2>3, <2>4
<1>q. QED
  BY <1>1, <1>2

(* After AdjOK? the state agrees with the election. *)
LEMMA AdjOKSound ==
    ASSUME NEW n \in Node, NEW e, Sound(n, e),
           NEW w \in BOOLEAN, NEW s \in SeqNum
    PROVE  /\ Sound(n, AdjOK(e, w, s))
           /\ StateMatchesElection(AdjOK(e, w, s), w)
           /\ e.state < TWOWAY => AdjOK(e, w, s) = e
<1>0. e.state \in State /\ e \in Neighbor
  BY DEF Sound, Neighbor
<1>1. CASE e.state = TWOWAY /\ w
  <2> DEFINE f == [e EXCEPT !.state = EXSTART]
             g == StartDDExchange(f, s)
  <2>1. f \in Neighbor /\ f.state = EXSTART
    BY <1>0, StateType, SetState
  <2>2. AdjOK(e, w, s) = g
    BY <1>1, StateOrder DEF AdjOK
  <2> HIDE DEF f
  <2>3. Sound(n, g) /\ g.state = EXSTART
    BY <2>1, StartSound
  <2> HIDE DEF g
  <2>4. StateMatchesElection(g, w) /\ ~(e.state < TWOWAY)
    BY <1>0, <1>1, <2>3, StateOrder DEF StateMatchesElection
  <2>q. QED
    BY <2>2, <2>3, <2>4
<1>2. CASE e.state >= EXSTART /\ ~w
  <2> DEFINE f == [e EXCEPT !.state = TWOWAY]
             g == StopTimers(ClearLists(f))
  <2>1. f \in Neighbor /\ f.state = TWOWAY
    BY <1>0, StateType, SetState
  <2>2. AdjOK(e, w, s) = g
    BY <1>2, StateOrder DEF AdjOK
  <2> HIDE DEF f
  <2>3. f.state < EXSTART
    BY <2>1, StateOrder
  <2>4. Sound(n, g) /\ g.state = TWOWAY
    BY <2>1, <2>3, ClearedSound
  <2> HIDE DEF g
  <2>5. StateMatchesElection(g, w) /\ ~(e.state < TWOWAY)
    BY <1>0, <1>2, <2>4, StateOrder DEF StateMatchesElection
  <2>q. QED
    BY <2>2, <2>4, <2>5
<1>3. CASE ~(e.state = TWOWAY /\ w) /\ ~(e.state >= EXSTART /\ ~w)
  <2>1. AdjOK(e, w, s) = e
    BY <1>3 DEF AdjOK
  <2>q. QED
    BY <1>0, <1>3, <2>1, StateOrder DEF StateMatchesElection
<1>q. QED
  BY <1>1, <1>2, <1>3

LEMMA SeqNumMismatchSound ==
    ASSUME NEW n \in Node, NEW e \in Neighbor, NEW s \in SeqNum
    PROVE  Sound(n, SeqNumMismatch(e, s)) /\ SeqNumMismatch(e, s).state = EXSTART
<1> DEFINE g == [e EXCEPT !.state = EXSTART]
           f == ClearLists(g)
<1>1. g \in Neighbor /\ g.state = EXSTART
  BY StateType, SetState
<1>2. SeqNumMismatch(e, s) = StartDDExchange(f, s)
  BY DEF SeqNumMismatch
<1> HIDE DEF g
<1>3. f \in Neighbor /\ f.state = EXSTART
  BY <1>1 DEF ClearLists, Neighbor, Stamps
<1> HIDE DEF f
<1>q. QED
  BY <1>2, <1>3, StartSound

-----------------------------------------------------------------------------
(* Database description.  In Exchange only the role is constrained.        *)

Describing(n, e) ==
    e \in Neighbor /\ e.state = EXCHANGE /\ e.master = (n > Peer(n))

LEMMA DescribingSound ==
    ASSUME NEW n \in Node, NEW e, Describing(n, e)
    PROVE  Sound(n, e)
<1>1. RoleFollowsId(n, e) /\ LeavesNothing(e)
  BY StateOrder DEF Describing, RoleFollowsId, LeavesNothing
<1>2. e.state # EXSTART /\ ~(e.state >= LOADING) /\ e.state # LOADING /\ e.state # FULL
  BY StateOrder DEF Describing
<1>3. ArmedToRetry(e)
  BY <1>2 DEF ArmedToRetry
<1>q. QED
  BY <1>1, <1>3 DEF Sound, Describing

LEMMA SoundDescribing ==
    ASSUME NEW n \in Node, NEW e, Sound(n, e), e.state = EXCHANGE
    PROVE  Describing(n, e)
  BY StateOrder DEF Sound, RoleFollowsId, Describing

LEMMA LSRType ==
    ASSUME NEW R \in SUBSET Header
    PROVE  LSR({h.key : h \in FirstOf(R, MaxItems)}) \in Packet
<1>1. \A h \in FirstOf(R, MaxItems) : h.key \in Key
  BY DEF FirstOf, Header
<1>2. {h.key : h \in FirstOf(R, MaxItems)} \in SUBSET Key
  BY <1>1
<1>q. QED
  BY <1>2 DEF LSR, Packet

(* A Loading neighbour asks again and stays as sound as it becomes. *)
LEMMA SendLSRequestSound ==
    ASSUME NEW n \in Node, NEW e \in Neighbor, e.state = LOADING,
           e.master = (n > Peer(n)), e.request # {}, e.summary = {}
    PROVE  /\ Sound(n, SendLSRequest(e))
           /\ SendLSRequest(e).state = LOADING
<1> DEFINE e1 == [e EXCEPT !.rxmtTimer = TRUE]
           p  == LSR({h.key : h \in FirstOf(e.request, MaxItems)})
<1>1. /\ e1 \in Neighbor /\ e1.state = LOADING /\ e1.master = e.master
      /\ e1.request # {} /\ e1.summary = {} /\ e1.rxmtTimer
  BY DEF Neighbor
<1>2. p \in Packet
  BY LSRType DEF Neighbor
<1>3. SendLSRequest(e) = Emit(e1, p)
  BY DEF SendLSRequest
<1> HIDE DEF e1, p
<1>4. RoleFollowsId(n, e1) /\ LeavesNothing(e1)
  BY <1>1, StateOrder DEF RoleFollowsId, LeavesNothing
<1>5. e1.state # EXSTART /\ e1.state # FULL
  BY <1>1, StateOrder
<1>6. ArmedToRetry(e1)
  BY <1>1, <1>5 DEF ArmedToRetry
<1>7. Sound(n, e1)
  BY <1>1, <1>4, <1>6 DEF Sound
<1>q. QED
  BY <1>1, <1>2, <1>3, <1>7, EmitSound

LEMMA ExchangeDoneSound ==
    ASSUME NEW n \in Node, NEW e, Describing(n, e), e.summary = {}
    PROVE  /\ Sound(n, ExchangeDone(e))
           /\ ExchangeDone(e).state >= EXSTART
<1>1. CASE e.request # {}
  <2> DEFINE f == [e EXCEPT !.state = LOADING]
  <2>1. /\ f \in Neighbor /\ f.state = LOADING /\ f.master = e.master
        /\ f.request = e.request /\ f.summary = {}
    BY StateType, SetState DEF Describing
  <2>2. ExchangeDone(e) = SendLSRequest(f)
    BY <1>1 DEF ExchangeDone
  <2> HIDE DEF f
  <2>3. Sound(n, SendLSRequest(f)) /\ SendLSRequest(f).state = LOADING
    BY <1>1, <2>1, SendLSRequestSound DEF Describing
  <2>q. QED
    BY <2>2, <2>3, StateOrder
<1>2. CASE e.request = {}
  <2> DEFINE f == [e EXCEPT !.state = FULL, !.rxmtTimer = FALSE]
  <2>1. /\ f \in Neighbor /\ f.state = FULL /\ f.master = e.master
        /\ f.request = {} /\ f.summary = {}
    BY <1>2, StateType DEF Describing, Neighbor
  <2>2. ExchangeDone(e) = f
    BY <1>2 DEF ExchangeDone
  <2> HIDE DEF f
  <2>3. RoleFollowsId(n, f) /\ LeavesNothing(f)
    BY <2>1, StateOrder DEF RoleFollowsId, LeavesNothing, Describing
  <2>4. f.state # EXSTART /\ f.state # LOADING
    BY <2>1, StateOrder
  <2>5. ArmedToRetry(f)
    BY <2>1, <2>4 DEF ArmedToRetry
  <2>q. QED
    BY <2>1, <2>2, <2>3, <2>5, StateOrder DEF Sound
<1>q. QED
  BY <1>1, <1>2

LEMMA RememberSound ==
    ASSUME NEW n \in Node, NEW e, Sound(n, e), e.state >= EXSTART,
           NEW dd \in DDPacket
    PROVE  Sound(n, Remember(e, dd)) /\ Remember(e, dd).state = e.state
<1> DEFINE f == Remember(e, dd)
<1>1. /\ f \in Neighbor /\ f.state = e.state /\ f.master = e.master
      /\ f.seq = e.seq /\ f.lastTx = e.lastTx /\ f.summary = e.summary
      /\ f.request = e.request /\ f.ddTimer = e.ddTimer
      /\ f.rxmtTimer = e.rxmtTimer
  BY StampType DEF Remember, Sound, Neighbor
<1>0. e.state \in State
  BY DEF Sound, Neighbor
<1> HIDE DEF f
<1>2. LeavesNothing(f)
  <2>1. ~(f.state < EXSTART)
    BY <1>0, <1>1, StateOrder
  <2>q. QED
    BY <2>1 DEF LeavesNothing
<1>3. RoleFollowsId(n, f)
  BY <1>1 DEF RoleFollowsId, Sound
<1>4. ArmedToRetry(f)
  BY <1>1 DEF ArmedToRetry, Sound
<1>5. Sound(n, f)
  BY <1>1, <1>2, <1>3, <1>4 DEF Sound
<1>q. QED
  BY <1>1, <1>5 DEF f

LEMMA ProcessHeadersType ==
    ASSUME NEW n \in Node, NEW e \in Neighbor, NEW hs \in SUBSET Header
    PROVE  LET f == ProcessHeaders(e, n, hs)
           IN /\ f \in Neighbor /\ f.state = e.state /\ f.master = e.master
              /\ f.seq = e.seq /\ f.summary = e.summary
<1> DEFINE newer == {h \in hs : h.inst > db[n][h.key]}
           kept  == {g \in e.request : \A h \in newer : h.key # g.key}
           older == {h \in newer : \E g \in e.request : h.key = g.key /\ h.inst < g.inst}
           lost  == {h.key : h \in older}
<1>1. /\ kept \cup newer \in SUBSET Header /\ e.told \cup hs \in SUBSET Header
      /\ e.struck \cup lost \in SUBSET Key
  BY DEF Neighbor, Header
<1>2. ProcessHeaders(e, n, hs)
        = [e EXCEPT !.request = kept \cup newer, !.told = @ \cup hs,
                    !.struck = @ \cup lost]
  BY DEF ProcessHeaders
<1> HIDE DEF kept, newer, older, lost
<1>q. QED
  BY <1>1, <1>2 DEF Neighbor

(* The next batch: no sequence number that does not fit is ever sent. *)
LEMMA SendBatchDescribing ==
    ASSUME NEW n \in Node, NEW e, Describing(n, e), NEW ms \in BOOLEAN
    PROVE  Describing(n, SendBatch(e, ms))
<1> DEFINE batch == FirstOf(e.summary, MaxHeaders)
           rest  == e.summary \ batch
           f     == [e EXCEPT !.summary = rest]
           p     == DD(FALSE, rest # {}, ms, e.seq, batch)
<1>1. batch \in SUBSET Header /\ rest \in SUBSET Header
  BY DEF FirstOf, Describing, Neighbor
<1>2. SendBatch(e, ms) = IF e.seq > MaxDDSeq THEN f ELSE SendDD(f, p)
  BY DEF SendBatch
<1>3. /\ f \in Neighbor /\ f.state = e.state /\ f.master = e.master
  <2> HIDE DEF batch, rest
  <2>q. QED
    BY <1>1 DEF Describing, Neighbor
<1>4. e.seq \in Counter
  BY DEF Describing, Neighbor
<1>5. ~(e.seq > MaxDDSeq) => e.seq \in SeqNum
  BY <1>4, ConstantsAssumption DEF Counter, SeqNum
<1>6. ~(e.seq > MaxDDSeq) => p \in DDPacket
  <2> HIDE DEF batch, rest
  <2>q. QED
    BY <1>1, <1>5, DDType
<1> HIDE DEF f, p
<1>7. CASE e.seq > MaxDDSeq
  BY <1>2, <1>3, <1>7 DEF Describing
<1>8. CASE ~(e.seq > MaxDDSeq)
  <2>1. SendDD(f, p) \in Neighbor
    BY <1>3, <1>6, <1>8, SendDDType
  <2>2. SendDD(f, p).state = f.state /\ SendDD(f, p).master = f.master
    BY <1>3 DEF SendDD, Neighbor
  <2>q. QED
    BY <1>2, <1>3, <1>8, <2>1, <2>2 DEF Describing
<1>q. QED
  BY <1>7, <1>8

LEMMA NegotiationDoneDescribing ==
    ASSUME NEW n \in Node, NEW e \in Neighbor, e.master = (n > Peer(n)),
           TypeOK
    PROVE  /\ Describing(n, NegotiationDone(e, n))
           /\ NegotiationDone(e, n).seq = e.seq
<1>1. Headers(db[n]) \in SUBSET Header
  BY DEF Headers, Header, TypeOK
<1>q. QED
  BY <1>1, StateType DEF NegotiationDone, Neighbor, Describing

(* The callbacks of process_dd: the object stays sound and, once in        *)
(* ExStart, does not fall below it.                                        *)
Kept(n, f) == Sound(n, f) /\ f.state >= EXSTART

LEMMA DescribingKept ==
    ASSUME NEW n \in Node, NEW e, Describing(n, e)
    PROVE  Kept(n, e)
  BY DescribingSound, StateOrder DEF Kept, Describing

LEMMA MismatchKept ==
    ASSUME NEW n \in Node, NEW e \in Neighbor, NEW s \in SeqNum
    PROVE  Kept(n, SeqNumMismatch(e, s))
  BY SeqNumMismatchSound, StateOrder DEF Kept

LEMMA RememberKept ==
    ASSUME NEW n \in Node, NEW e, Kept(n, e), NEW dd \in DDPacket
    PROVE  Kept(n, Remember(e, dd))
  BY RememberSound DEF Kept

LEMMA RememberDescribing ==
    ASSUME NEW n \in Node, NEW e, Describing(n, e), NEW dd \in DDPacket
    PROVE  /\ Describing(n, Remember(e, dd))
           /\ Remember(e, dd).seq = e.seq
  BY StampType DEF Describing, Remember, Neighbor

(* Both roles move the sequence number and nothing else first. *)
LEMMA SetSeqDescribing ==
    ASSUME NEW n \in Node, NEW e, Describing(n, e), NEW q \in Counter
    PROVE  Describing(n, [e EXCEPT !.seq = q])
  BY DEF Describing, Neighbor

LEMMA ProcessHeadersDescribing ==
    ASSUME NEW n \in Node, NEW e, Describing(n, e), NEW hs \in SUBSET Header
    PROVE  /\ Describing(n, ProcessHeaders(e, n, hs))
           /\ ProcessHeaders(e, n, hs).seq = e.seq
  BY ProcessHeadersType DEF Describing

LEMMA DDFields ==
    ASSUME NEW dd \in DDPacket
    PROVE  /\ dd.seq \in SeqNum /\ dd.seq \in Counter /\ dd.seq + 1 \in Counter
           /\ dd.hdrs \in SUBSET Header
<1>1. dd.seq \in SeqNum /\ dd.hdrs \in SUBSET Header
  BY DEF DDPacket
<1>q. QED
  BY <1>1, ConstantsAssumption DEF SeqNum, Counter

LEMMA RetransmitSound ==
    ASSUME NEW n \in Node, NEW e, Sound(n, e)
    PROVE  Sound(n, Retransmit(e)) /\ Retransmit(e).state = e.state
<1>1. e.lastTx # None => e.lastTx \in Packet
  BY DEF Sound, Neighbor, Packet
<1>q. QED
  BY <1>1, EmitSound DEF Retransmit

LEMMA ExStartDDKept ==
    ASSUME NEW n \in Node, NEW e, Sound(n, e), e.state = EXSTART,
           NEW dd \in DDPacket, TypeOK
    PROVE  Kept(n, ExStartDD(e, n, dd))
<1>0. e \in Neighbor
  BY DEF Sound
<1>1. CASE IsInitDD(dd) /\ Peer(n) > n
  <2> DEFINE f == [e EXCEPT !.master = FALSE, !.seq = dd.seq, !.ddTimer = FALSE]
  <2>1. f \in Neighbor /\ f.master = FALSE
    BY <1>0, DDFields DEF Neighbor
  <2>2. BecomeSlave(e, n, dd) = SendBatch(NegotiationDone(f, n), FALSE)
    BY DEF BecomeSlave
  <2>3. (n > Peer(n)) = FALSE /\ ~(Peer(n) < n)
    BY <1>1, PeerType DEF Node
  <2>4. ExStartDD(e, n, dd) = BecomeSlave(e, n, dd)
    BY <1>1, <2>3 DEF ExStartDD
  <2> HIDE DEF f
  <2>5. Describing(n, SendBatch(NegotiationDone(f, n), FALSE))
    BY <2>1, <2>3, NegotiationDoneDescribing, SendBatchDescribing
  <2>q. QED
    BY <2>2, <2>4, <2>5, DescribingKept
<1>2. CASE /\ ~(IsInitDD(dd) /\ Peer(n) > n)
           /\ ~dd.I /\ ~dd.MS /\ Peer(n) < n /\ dd.seq = e.seq
  <2> DEFINE f  == [e EXCEPT !.master = TRUE, !.ddTimer = FALSE]
             e1 == NegotiationDone(f, n)
             h1 == ProcessHeaders(e1, n, dd.hdrs)
             e2 == Remember(h1, dd)
             e3 == [e2 EXCEPT !.seq = @ + 1]
  <2>1. f \in Neighbor /\ f.master = TRUE /\ f.seq = dd.seq
    BY <1>0, <1>2 DEF Neighbor
  <2>2. BecomeMaster(e, n, dd) = SendBatch(e3, TRUE)
    BY DEF BecomeMaster
  <2>3. ExStartDD(e, n, dd) = BecomeMaster(e, n, dd)
    BY <1>2 DEF ExStartDD
  <2>4. (n > Peer(n)) = TRUE
    BY <1>2, PeerType DEF Node
  <2> HIDE DEF f
  <2>5. Describing(n, e1) /\ e1.seq = dd.seq
    BY <2>1, <2>4, NegotiationDoneDescribing
  <2> HIDE DEF e1
  <2>6. Describing(n, h1) /\ h1.seq = dd.seq
    BY <2>5, DDFields, ProcessHeadersDescribing
  <2> HIDE DEF h1
  <2>7. Describing(n, e2) /\ e2.seq = dd.seq
    BY <2>6, RememberDescribing
  <2> HIDE DEF e2
  <2>8. Describing(n, e3)
    BY <2>7, DDFields, SetSeqDescribing
  <2> HIDE DEF e3
  <2>q. QED
    BY <2>2, <2>3, <2>8, SendBatchDescribing, DescribingKept
<1>3. CASE /\ ~(IsInitDD(dd) /\ Peer(n) > n)
           /\ ~(~dd.I /\ ~dd.MS /\ Peer(n) < n /\ dd.seq = e.seq)
  BY <1>3, StateOrder DEF ExStartDD, Kept
<1>q. QED
  BY <1>1, <1>2, <1>3

LEMMA MasterExchangeDDKept ==
    ASSUME NEW n \in Node, NEW e, Describing(n, e), NEW dd \in DDPacket,
           NEW s \in SeqNum
    PROVE  Kept(n, MasterExchangeDD(e, n, dd, s))
<1> DEFINE e1 == ProcessHeaders(e, n, dd.hdrs)
           e2 == [e1 EXCEPT !.seq = @ + 1]
           bad  == dd.seq # e.seq \/ dd.I \/ dd.MS
           last == ~dd.M /\ e2.summary = {}
<1>1. MasterExchangeDD(e, n, dd, s) =
        IF bad THEN SeqNumMismatch(e, s)
        ELSE IF last THEN Remember(ExchangeDone(e2), dd)
        ELSE IF e2.seq > MaxDDSeq THEN SendBatch(e2, TRUE)
        ELSE Remember(SendBatch(e2, TRUE), dd)
  BY DEF MasterExchangeDD
<1>2. e \in Neighbor /\ Describing(n, e1) /\ e1.seq = e.seq
  BY DDFields, ProcessHeadersDescribing DEF Describing
<1>3. ~bad => Describing(n, e2)
  <2> HIDE DEF e1
  <2>q. QED
    BY <1>2, DDFields, SetSeqDescribing
<1> HIDE DEF e1, e2
<1>4. Kept(n, SeqNumMismatch(e, s))
  BY <1>2, MismatchKept
<1>5. ~bad /\ last => Kept(n, Remember(ExchangeDone(e2), dd))
  BY <1>3, ExchangeDoneSound, RememberKept DEF Kept
<1>6. ~bad => /\ Kept(n, SendBatch(e2, TRUE))
              /\ Kept(n, Remember(SendBatch(e2, TRUE), dd))
  BY <1>3, SendBatchDescribing, DescribingKept, RememberKept
<1> HIDE DEF bad, last
<1>q. QED
  BY <1>1, <1>4, <1>5, <1>6

LEMMA SlaveExchangeDDKept ==
    ASSUME NEW n \in Node, NEW e, Describing(n, e), NEW dd \in DDPacket,
           NEW s \in SeqNum
    PROVE  Kept(n, SlaveExchangeDD(e, n, dd, s))
<1> DEFINE e0 == [e EXCEPT !.seq = dd.seq]
           e1 == ProcessHeaders(e0, n, dd.hdrs)
           e2 == SendBatch(e1, FALSE)
           e3 == IF ~dd.M /\ e2.summary = {} THEN ExchangeDone(e2) ELSE e2
           bad == dd.seq # e.seq + 1 \/ dd.I
<1>1. SlaveExchangeDD(e, n, dd, s) =
        IF bad THEN SeqNumMismatch(e, s) ELSE Remember(e3, dd)
  BY DEF SlaveExchangeDD
<1>2. e \in Neighbor /\ Describing(n, e0)
  BY DDFields, SetSeqDescribing DEF Describing
<1> HIDE DEF e0, bad
<1>3. Describing(n, e1)
  BY <1>2, DDFields, ProcessHeadersDescribing
<1> HIDE DEF e1
<1>4. Describing(n, e2)
  BY <1>3, SendBatchDescribing
<1> HIDE DEF e2
<1>5. Kept(n, e3)
  BY <1>4, DescribingKept, ExchangeDoneSound DEF Kept
<1> HIDE DEF e3
<1>q. QED
  BY <1>1, <1>2, <1>5, MismatchKept, RememberKept

(* What a duplicate provokes: an answer at most. *)
LEMMA AgainSound ==
    ASSUME NEW n \in Node, NEW e, Sound(n, e)
    PROVE  LET f == IF e.master THEN e ELSE Retransmit(e)
           IN Sound(n, f) /\ f.state = e.state
  BY RetransmitSound

LEMMA ProcessDDSound ==
    ASSUME NEW n \in Node, NEW e, Sound(n, e), NEW dd \in DDPacket,
           NEW s \in SeqNum, TypeOK
    PROVE  IF e.state >= EXSTART THEN Kept(n, ProcessDD(e, n, dd, s))
                                 ELSE ProcessDD(e, n, dd, s) = e
<1> DEFINE again == IF e.master THEN e ELSE Retransmit(e)
<1>0. e.state \in State /\ e \in Neighbor
  BY DEF Sound, Neighbor
<1>1. CASE e.state < EXSTART
  <2>1. e.state # EXSTART /\ e.state # EXCHANGE /\ e.state # LOADING
        /\ e.state # FULL /\ ~(e.state >= EXSTART)
    BY <1>0, <1>1, StateOrder
  <2>q. QED
    BY <2>1 DEF ProcessDD
<1>2. CASE e.state = EXSTART
  <2>1. e.state >= EXSTART /\ e.state # EXCHANGE /\ e.state # LOADING
        /\ e.state # FULL
    BY <1>2, StateOrder
  <2>2. ProcessDD(e, n, dd, s) = ExStartDD(e, n, dd)
    BY <1>2, <2>1 DEF ProcessDD
  <2>q. QED
    BY <1>2, <2>1, <2>2, ExStartDDKept
<1>3. CASE e.state = EXCHANGE
  <2>1. e.state >= EXSTART /\ e.state # EXSTART /\ e.state # LOADING
        /\ e.state # FULL
    BY <1>3, StateOrder
  <2>2. ProcessDD(e, n, dd, s) = ExchangeDD(e, n, dd, s)
    BY <1>3, <2>1 DEF ProcessDD
  <2>3. Describing(n, e)
    BY <1>3, SoundDescribing
  <2>4. Kept(n, again)
    BY <2>1, AgainSound DEF Kept
  <2>5. Kept(n, MasterExchangeDD(e, n, dd, s)) /\ Kept(n, SlaveExchangeDD(e, n, dd, s))
    BY <2>3, MasterExchangeDDKept, SlaveExchangeDDKept
  <2>6. ExchangeDD(e, n, dd, s) \in
          {again, MasterExchangeDD(e, n, dd, s), SlaveExchangeDD(e, n, dd, s)}
    BY DEF ExchangeDD
  <2>q. QED
    BY <2>1, <2>2, <2>4, <2>5, <2>6
<1>4. CASE e.state \in {LOADING, FULL}
  <2>1. e.state >= EXSTART /\ e.state # EXSTART /\ e.state # EXCHANGE
    BY <1>4, StateOrder
  <2>2. ProcessDD(e, n, dd, s) = LateDD(e, dd, s)
    BY <1>4, <2>1 DEF ProcessDD
  <2>3. Kept(n, again)
    BY <2>1, AgainSound DEF Kept
  <2>4. LateDD(e, dd, s) \in {again, SeqNumMismatch(e, s)}
    BY DEF LateDD
  <2>q. QED
    BY <1>0, <2>1, <2>2, <2>3, <2>4, MismatchKept
<1>q. QED
  BY <1>0, <1>1, <1>2, <1>3, <1>4, StateOrder

-----------------------------------------------------------------------------
(* Requests and updates.                                                   *)

LEMMA LSUType ==
    ASSUME NEW n \in Node, TypeOK, NEW ks \in SUBSET Key
    PROVE  LSU({[key |-> k, inst |-> db[n][k]] : k \in ks}) \in Packet
<1>1. \A k \in ks : [key |-> k, inst |-> db[n][k]] \in Header
  BY DEF TypeOK, Header
<1>2. {[key |-> k, inst |-> db[n][k]] : k \in ks} \in SUBSET Header
  BY <1>1
<1>q. QED
  BY <1>2 DEF LSU, Packet

LEMMA ProcessLSRequestSound ==
    ASSUME NEW n \in Node, NEW e, Sound(n, e), NEW ks \in SUBSET Key,
           NEW s \in SeqNum, TypeOK
    PROVE  IF e.state >= EXSTART THEN Kept(n, ProcessLSRequest(e, n, ks, s))
                                 ELSE ProcessLSRequest(e, n, ks, s) = e
<1> DEFINE lsu == LSU({[key |-> k, inst |-> db[n][k]] : k \in ks})
<1>0. e \in Neighbor /\ e.state \in State
  BY DEF Sound, Neighbor
<1>1. Sound(n, Emit(e, lsu)) /\ Emit(e, lsu).state = e.state
  BY LSUType, EmitSound
<1>2. Kept(n, SeqNumMismatch(e, s))
  BY <1>0, MismatchKept
<1>3. ProcessLSRequest(e, n, ks, s) =
        IF e.state < EXCHANGE THEN e
        ELSE IF \E k \in ks : db[n][k] = 0 THEN SeqNumMismatch(e, s)
        ELSE IF ks = {} THEN e ELSE Emit(e, lsu)
  BY <1>0, StateOrder DEF ProcessLSRequest
<1>4. e.state < EXSTART => e.state < EXCHANGE
  BY <1>0, StateOrder
<1>5. e.state >= EXSTART <=> ~(e.state < EXSTART)
  BY <1>0, StateOrder
<1> HIDE DEF lsu
<1>q. QED
  BY <1>1, <1>2, <1>3, <1>4, <1>5 DEF Kept

LEMMA ProcessLSUpdateSound ==
    ASSUME NEW n \in Node, NEW e, Sound(n, e), NEW ks \in SUBSET Key, NEW d
    PROVE  LET f == ProcessLSUpdate(e, ks, d)
           IN /\ Sound(n, f)
              /\ f.state = e.state \/ (e.state = LOADING /\ f.state = FULL)
<1> DEFINE f == [e EXCEPT !.request = {h \in @ : h.key \notin ks},
                           !.struck = @ \cup {k \in ks : \E h \in e.request :
                                                h.key = k /\ d[k] < h.inst}]
           g == [f EXCEPT !.state = FULL]
<1>0. e \in Neighbor /\ e.state \in State
  BY DEF Sound, Neighbor
<1>1. /\ f \in Neighbor /\ f.state = e.state /\ f.master = e.master
      /\ f.seq = e.seq /\ f.lastTx = e.lastTx /\ f.summary = e.summary
      /\ f.lastRx = e.lastRx /\ f.ddTimer = e.ddTimer
      /\ f.rxmtTimer = e.rxmtTimer /\ f.request \subseteq e.request
  BY <1>0 DEF Neighbor
<1>2. ProcessLSUpdate(e, ks, d) =
        IF f.state = LOADING /\ f.request = {} THEN g ELSE f
  BY DEF ProcessLSUpdate, LoadingDone
<1> HIDE DEF f
<1>3. RoleFollowsId(n, f) /\ LeavesNothing(f)
  BY <1>1 DEF RoleFollowsId, LeavesNothing, Sound
<1>4. CASE f.state = LOADING /\ f.request = {}
  <2>1. /\ g \in Neighbor /\ g.state = FULL /\ g.master = f.master
        /\ g.request = {} /\ g.summary = f.summary
    BY <1>1, <1>4, StateType, SetState
  <2> HIDE DEF g
  <2>2. RoleFollowsId(n, g) /\ LeavesNothing(g)
    BY <1>3, <1>4, <2>1, StateOrder DEF RoleFollowsId, LeavesNothing
  <2>3. g.state # EXSTART /\ g.state # LOADING
    BY <2>1, StateOrder
  <2>4. f.summary = {}
    BY <1>1, <1>4, StateOrder DEF ArmedToRetry, Sound
  <2>5. ArmedToRetry(g)
    BY <2>1, <2>3, <2>4 DEF ArmedToRetry
  <2>q. QED
    BY <1>1, <1>2, <1>4, <2>1, <2>2, <2>5 DEF Sound
<1>5. CASE ~(f.state = LOADING /\ f.request = {})
  <2>1. ArmedToRetry(f)
    BY <1>1, <1>5 DEF ArmedToRetry, Sound
  <2>q. QED
    BY <1>1, <1>2, <1>3, <1>5, <2>1 DEF Sound
<1>q. QED
  BY <1>4, <1>5

-----------------------------------------------------------------------------
(* The frame of a callback: what it emitted goes on the wire.              *)

LEMMA DoneSound ==
    ASSUME NEW n \in Node, NEW e, Sound(n, e)
    PROVE  Sound(n, Done(e)) /\ Done(e).state = e.state
<1> DEFINE f == Done(e)
<1>1. /\ f \in Neighbor /\ f.state = e.state /\ f.master = e.master
      /\ f.seq = e.seq /\ f.lastTx = e.lastTx /\ f.summary = e.summary
      /\ f.request = e.request /\ f.lastRx = e.lastRx
      /\ f.ddTimer = e.ddTimer /\ f.rxmtTimer = e.rxmtTimer
  <2>1. <<>> \in Seq(Packet)
    OBVIOUS
  <2>2. f \in Neighbor
    BY <2>1 DEF Done, Sound, Neighbor
  <2>q. QED
    BY <2>2 DEF Done, Sound, Neighbor
<1> HIDE DEF f
<1>2. Sound(n, f)
  BY <1>1, AlikeSound
<1>q. QED
  BY <1>1, <1>2 DEF f

LEMMA NewNeighborSound ==
    ASSUME NEW n \in Node
    PROVE  Sound(n, NewNeighbor) /\ NewNeighbor.state = DOWN
<1> DEFINE f == NewNeighbor
<1>1. 0 \in Counter /\ None \in Stamps /\ <<>> \in Seq(Packet)
  BY ConstantsAssumption DEF Counter, Stamps
<1>2a. f \in Neighbor
  BY <1>1, StateType DEF NewNeighbor, Neighbor
<1>2. /\ f \in Neighbor /\ f.state = DOWN /\ f.summary = {}
      /\ f.request = {} /\ f.lastRx = None /\ ~f.ddTimer /\ ~f.rxmtTimer
  BY <1>2a DEF NewNeighbor
<1> HIDE DEF f
<1>3. f.state < EXSTART
  BY <1>2, StateOrder
<1>4. Sound(n, f)
  BY <1>2, <1>3, LowSound
<1>q. QED
  BY <1>2, <1>4 DEF f

LEMMA SeqChoiceType ==
  ASSUME NEW drawn PROVE SeqChoice(drawn) \subseteq SeqNum
<1>1. Fresh(drawn) \subseteq InitSeq
  BY DEF Fresh
<1>2. Fresh(drawn) # {} => (CHOOSE s \in Fresh(drawn) : TRUE) \in Fresh(drawn)
  OBVIOUS
<1>q. QED
  BY <1>1, <1>2, SeqNumType DEF SeqChoice

LEMMA OutcomeType == Outcome \subseteq BOOLEAN
  BY DEF Outcome

LEMMA ArrivedType ==
    ASSUME TypeOK, NEW n \in Node
    PROVE  /\ Arrived(n, "Hello") => Head(chan[n]).sees \in BOOLEAN
           /\ Arrived(n, "DD") => Head(chan[n]) \in DDPacket
           /\ Arrived(n, "LSR") => Head(chan[n]).keys \in SUBSET Key
           /\ Arrived(n, "LSU") => Head(chan[n]).lsas \in SUBSET Header
<1>1. chan[n] # <<>> => Head(chan[n]) \in Packet
  BY DEF TypeOK
<1>q. QED
  BY <1>1 DEF Arrived, Packet, DDPacket

LEMMA DeliverType ==
    ASSUME TypeOK, NEW n \in Node, NEW out \in Seq(Packet),
           chan[n] # <<>>, Deliver(n, out)
    PROVE  chan' \in [Node -> Seq(Packet)]
<1>1. Tail(chan[n]) \in Seq(Packet) /\ chan[Peer(n)] \in Seq(Packet)
  BY PeerType DEF TypeOK
<1>2. chan[Peer(n)] \o out \in Seq(Packet)
  BY <1>1
<1>3. Peer(n) \in Node /\ Peer(n) # n
  BY DEF Peer, Node
<1>q. QED
  BY <1>1, <1>2, <1>3 DEF Deliver, TypeOK

LEMMA TransmitType ==
    ASSUME TypeOK, NEW n \in Node, NEW out \in Seq(Packet), Transmit(n, out)
    PROVE  chan' \in [Node -> Seq(Packet)]
<1>1. chan[Peer(n)] \in Seq(Packet) /\ Peer(n) \in Node
  BY PeerType DEF TypeOK
<1>2. chan[Peer(n)] \o out \in Seq(Packet)
  BY <1>1
<1>q. QED
  BY <1>1, <1>2 DEF Transmit, TypeOK

LEMMA SwingsType ==
    ASSUME TypeOK, NEW k \in Nat, Swings(k)
    PROVE  faults' \in Nat
  BY DEF TypeOK, Swings

LEMMA SwingType ==
    \A v, w : Swing(v, w) \in Nat
  BY DEF Swing

(* One callback at n leaves every neighbour object as IInv wants it. *)
LEMMA Frame ==
    ASSUME IInv, NEW n \in Node, NEW e, Sound(n, e),
           NEW w \in BOOLEAN, StateMatchesElection(e, w),
           nbr' = [nbr EXCEPT ![n] = e], wanted' = [wanted EXCEPT ![n] = w],
           db' \in [Node -> [Key -> Nat]], chan' \in [Node -> Seq(Packet)],
           faults' \in Nat, twice' \in BOOLEAN
    PROVE  IInv'
<1>1. nbr \in [Node -> Neighbor] /\ wanted \in [Node -> BOOLEAN]
  BY DEF IInv, TypeOK
<1>2. e \in Neighbor
  BY DEF Sound
<1>3. TypeOK'
  BY <1>1, <1>2 DEF TypeOK
<1>4. ASSUME NEW m \in Node
      PROVE  Sound(m, nbr'[m]) /\ StateMatchesElection(nbr'[m], wanted'[m])
  <2>1. CASE m = n
    BY <1>1, <2>1
  <2>2. CASE m # n
    <3>1. nbr'[m] = nbr[m] /\ wanted'[m] = wanted[m]
      BY <1>1, <2>2
    <3>q. QED
      BY <3>1 DEF IInv
  <2>q. QED
    BY <2>1, <2>2
<1>5. ASSUME NEW m \in Node
      PROVE  Sound(m, nbr[m])' /\ StateMatchesElection(nbr[m], wanted[m])'
  BY <1>4 DEF Sound, StateMatchesElection, RoleFollowsId, LeavesNothing, ArmedToRetry,
       Neighbor
<1>q. QED
  BY <1>3, <1>5 DEF IInv

(* The same for a callback that emits packets and returns. *)
LEMMA DoneFrame ==
    ASSUME IInv, NEW n \in Node, NEW e, Sound(n, e),
           NEW w \in BOOLEAN, StateMatchesElection(e, w),
           nbr' = [nbr EXCEPT ![n] = Done(e)], wanted' = [wanted EXCEPT ![n] = w],
           db' \in [Node -> [Key -> Nat]], chan' \in [Node -> Seq(Packet)],
           faults' \in Nat, twice' \in BOOLEAN
    PROVE  IInv'
<1>1. Sound(n, Done(e)) /\ StateMatchesElection(Done(e), w)
  BY DoneSound DEF StateMatchesElection
<1>q. QED
  BY <1>1, Frame

(* A handler that keeps a neighbour past ExStart there agrees with the     *)
(* election that let it in.                                                *)
LEMMA KeptMatches ==
    ASSUME NEW n \in Node, NEW e, Sound(n, e), NEW f, NEW w \in BOOLEAN,
           StateMatchesElection(e, w),
           IF e.state >= EXSTART THEN Kept(n, f) ELSE f = e
    PROVE  Sound(n, f) /\ StateMatchesElection(f, w)
<1>1. CASE e.state >= EXSTART
  <2>1. Sound(n, f) /\ f.state >= EXSTART /\ w
    BY <1>1 DEF Kept, StateMatchesElection
  <2>2. f.state \in State
    BY <2>1 DEF Sound, Neighbor
  <2>3. f.state # TWOWAY
    BY <2>1, <2>2, StateOrder
  <2>q. QED
    BY <2>1, <2>3 DEF StateMatchesElection
<1>2. CASE ~(e.state >= EXSTART)
  BY <1>2
<1>q. QED
  BY <1>1, <1>2

LEMMA Here ==
    ASSUME IInv, NEW n \in Node
    PROVE  /\ TypeOK /\ Sound(n, nbr[n]) /\ wanted[n] \in BOOLEAN
           /\ StateMatchesElection(nbr[n], wanted[n])
           /\ db \in [Node -> [Key -> Nat]] /\ faults \in Nat
           /\ chan \in [Node -> Seq(Packet)]
           /\ wanted = [wanted EXCEPT ![n] = wanted[n]]
           /\ nbr = [nbr EXCEPT ![n] = nbr[n]]
  BY DEF IInv, TypeOK

LEMMA OutType ==
    ASSUME NEW n \in Node, NEW e, Sound(n, e)
    PROVE  e.out \in Seq(Packet)
  BY DEF Sound, Neighbor

-----------------------------------------------------------------------------
(* One lemma for each action.                                              *)

LEMMA ReceiveHelloStep ==
    ASSUME IInv, twice' \in BOOLEAN, NEW n \in Node, ReceiveHello(n)
    PROVE  IInv'
<1>0. Arrived(n, "Hello") /\ db' = db
  BY DEF ReceiveHello
<1> DEFINE sees == Head(chan[n]).sees
           e0 == nbr[n]
           e1 == HelloReceived(e0)
           e2(s1) == CASE sees /\ e1.state = INIT -> TwoWayReceived(e1, wanted[n], s1)
                       [] ~sees /\ e1.state >= TWOWAY -> OneWay(e1)
                       [] OTHER -> e1
           e3(w1, s1) == IF Crossed(e0, e2(s1)) THEN AdjOK(e2(s1), w1, s1) ELSE e2(s1)
           e4(w1, w2, s1, s2) == AdjOK(e3(w1, s1), w2, s2)
<1>a. PICK w1 \in Outcome, w2 \in Outcome, s1 \in SeqChoice({}) :
        \E s2 \in SeqChoice({s1}) :
          /\ nbr' = [nbr EXCEPT ![n] = Done(e4(w1, w2, s1, s2))]
          /\ wanted' = [wanted EXCEPT ![n] = w2]
          /\ Swings(Swing(wanted[n], w1) + Swing(w1, w2))
          /\ Deliver(n, e4(w1, w2, s1, s2).out)
  BY ZenonT(40) DEF ReceiveHello
<1>1. PICK s2 \in SeqChoice({s1}) :
        /\ nbr' = [nbr EXCEPT ![n] = Done(e4(w1, w2, s1, s2))]
        /\ wanted' = [wanted EXCEPT ![n] = w2]
        /\ Swings(Swing(wanted[n], w1) + Swing(w1, w2))
        /\ Deliver(n, e4(w1, w2, s1, s2).out)
  BY <1>a, Zenon
<1>2. /\ w1 \in BOOLEAN /\ w2 \in BOOLEAN /\ s1 \in SeqNum /\ s2 \in SeqNum
      /\ wanted[n] \in BOOLEAN /\ Sound(n, e0) /\ TypeOK
  BY OutcomeType, SeqChoiceType, Here
<1>3. Sound(n, e1)
  BY <1>2, HelloReceivedSound
<1> HIDE DEF e1
<1>4. Sound(n, e2(s1))
  BY <1>2, <1>3, TwoWayReceivedSound, OneWaySound
<1> HIDE DEF e2
<1>5. Sound(n, e3(w1, s1))
  BY <1>2, <1>4, AdjOKSound
<1> HIDE DEF e3
<1>6. Sound(n, e4(w1, w2, s1, s2)) /\ StateMatchesElection(e4(w1, w2, s1, s2), w2)
  BY <1>2, <1>5, AdjOKSound
<1> HIDE DEF e4
<1>7. chan' \in [Node -> Seq(Packet)]
  BY <1>0, <1>1, <1>2, <1>6, OutType, DeliverType DEF Arrived
<1>8. faults' \in Nat
  <2>1. Swing(wanted[n], w1) + Swing(w1, w2) \in Nat
    BY SwingType
  <2>q. QED
    BY <1>1, <1>2, <2>1, SwingsType
<1>9. db' \in [Node -> [Key -> Nat]]
  BY <1>0, Here
<1>q. QED
  BY <1>1, <1>2, <1>6, <1>7, <1>8, <1>9, DoneFrame

LEMMA ReceiveDDStep ==
    ASSUME IInv, twice' \in BOOLEAN, NEW n \in Node, ReceiveDD(n)
    PROVE  IInv'
<1>0. Arrived(n, "DD") /\ db' = db
  BY DEF ReceiveDD
<1> DEFINE dd == Head(chan[n])
           e0 == nbr[n]
           e1(w, s1) == IF e0.state = INIT
                          THEN AdjOK(TwoWayReceived(e0, wanted[n], s1), w, s1)
                          ELSE e0
           e2(w, s1, s2) == ProcessDD(e1(w, s1), n, dd, s2)
<1>1. PICK w \in Outcome, s1 \in SeqChoice({}), s2 \in SeqChoice({}) :
        /\ Crossed(e0, e1(w, s1)) \/ w = wanted[n]
        /\ nbr' = [nbr EXCEPT ![n] = Done(e2(w, s1, s2))]
        /\ wanted' = [wanted EXCEPT ![n] = w]
        /\ Swings(Swing(wanted[n], w))
        /\ Deliver(n, e2(w, s1, s2).out)
  BY DEF ReceiveDD
<1>2. /\ w \in BOOLEAN /\ s1 \in SeqNum /\ s2 \in SeqNum /\ TypeOK
      /\ wanted[n] \in BOOLEAN /\ Sound(n, e0) /\ dd \in DDPacket
      /\ StateMatchesElection(e0, wanted[n])
  BY <1>0, OutcomeType, SeqChoiceType, Here, ArrivedType
<1>3. Sound(n, e1(w, s1)) /\ StateMatchesElection(e1(w, s1), w)
  <2>1. CASE e0.state = INIT
    <3>1. Sound(n, TwoWayReceived(e0, wanted[n], s1))
      BY <1>2, <2>1, TwoWayReceivedSound
    <3>q. QED
      BY <1>2, <2>1, <3>1, AdjOKSound
  <2>2. CASE e0.state # INIT
    <3>1. e1(w, s1) = e0 /\ w = wanted[n]
      BY <1>1, <2>2 DEF Crossed
    <3>q. QED
      BY <1>2, <3>1
  <2>q. QED
    BY <2>1, <2>2
<1> HIDE DEF e1, dd
<1>4. Sound(n, e2(w, s1, s2)) /\ StateMatchesElection(e2(w, s1, s2), w)
  BY <1>2, <1>3, ProcessDDSound, KeptMatches
<1> HIDE DEF e2
<1>5. chan' \in [Node -> Seq(Packet)]
  BY <1>0, <1>1, <1>2, <1>4, OutType, DeliverType DEF Arrived
<1>6. faults' \in Nat
  BY <1>1, <1>2, SwingType, SwingsType
<1>7. db' \in [Node -> [Key -> Nat]]
  BY <1>0, Here
<1>q. QED
  BY <1>1, <1>2, <1>4, <1>5, <1>6, <1>7, DoneFrame

LEMMA ReceiveLSRStep ==
    ASSUME IInv, twice' \in BOOLEAN, NEW n \in Node, ReceiveLSR(n)
    PROVE  IInv'
<1>0. /\ Arrived(n, "LSR")
      /\ wanted' = [wanted EXCEPT ![n] = wanted[n]] /\ db' = db /\ faults' = faults
  BY Here DEF ReceiveLSR
<1> DEFINE f(s) == ProcessLSRequest(nbr[n], n, Head(chan[n]).keys, s)
<1>1. PICK s \in SeqChoice({}) :
        nbr' = [nbr EXCEPT ![n] = Done(f(s))] /\ Deliver(n, f(s).out)
  BY DEF ReceiveLSR
<1>2. /\ s \in SeqNum /\ TypeOK /\ wanted[n] \in BOOLEAN /\ Sound(n, nbr[n])
      /\ StateMatchesElection(nbr[n], wanted[n])
      /\ Head(chan[n]).keys \in SUBSET Key
  BY <1>0, SeqChoiceType, Here, ArrivedType
<1>3. Sound(n, f(s)) /\ StateMatchesElection(f(s), wanted[n])
  BY <1>2, ProcessLSRequestSound, KeptMatches
<1> HIDE DEF f
<1>4. chan' \in [Node -> Seq(Packet)]
  BY <1>0, <1>1, <1>2, <1>3, OutType, DeliverType DEF Arrived
<1>5. db' \in [Node -> [Key -> Nat]] /\ faults' \in Nat
  BY <1>0, Here
<1>q. QED
  BY <1>0, <1>1, <1>2, <1>3, <1>4, <1>5, DoneFrame

LEMMA ReceiveLSUStep ==
    ASSUME IInv, twice' \in BOOLEAN, NEW n \in Node, ReceiveLSU(n)
    PROVE  IInv'
<1>0. /\ Arrived(n, "LSU")
      /\ wanted' = [wanted EXCEPT ![n] = wanted[n]] /\ faults' = faults
  BY Here DEF ReceiveLSU
<1> DEFINE lsas == Head(chan[n]).lsas
           newer(refused) == Installable(n, lsas, refused)
           older  == {h \in lsas : h.inst < db[n][h.key]}
           answer == {[key |-> h.key, inst |-> db[n][h.key]] : h \in older}
           e0 == nbr[n]
           e1 == IF answer = {} THEN e0 ELSE Emit(e0, LSU(answer))
           took(refused, k) == nbr[n].known /\ \E h \in newer(refused) : h.key = k
           row(refused) == [k \in Key |-> IF took(refused, k)
                             THEN (CHOOSE h \in newer(refused) : h.key = k).inst
                             ELSE db[n][k]]
           e2(refused) == ProcessLSUpdate(e1, {h.key : h \in lsas}, row(refused))
           e3(refused) == IF e0.known THEN e2(refused) ELSE e0
<1>1. PICK refused \in IF Burst THEN SUBSET Key ELSE {{}} :
        /\ nbr' = [nbr EXCEPT ![n] = Done(e3(refused))] /\ Deliver(n, e3(refused).out)
        /\ db' = [db EXCEPT ![n] = row(refused)]
  BY Here DEF ReceiveLSU
<1>2. /\ TypeOK /\ wanted[n] \in BOOLEAN /\ Sound(n, e0)
      /\ StateMatchesElection(e0, wanted[n]) /\ lsas \in SUBSET Header
      /\ db \in [Node -> [Key -> Nat]] /\ faults \in Nat
  BY <1>0, Here, ArrivedType
<1>3. row(refused) \in [Key -> Nat]
  <2>1. ASSUME NEW k \in Key PROVE row(refused)[k] \in Nat
    <3>1. CASE took(refused, k)
      <4> DEFINE c == CHOOSE h \in newer(refused) : h.key = k
      <4>1. c \in newer(refused)
        BY <3>1
      <4>2. c.inst \in Nat
        BY <1>2, <4>1 DEF Header, Installable
      <4>q. QED
        BY <3>1, <4>2
    <3>2. CASE ~took(refused, k)
      BY <1>2, <3>2
    <3>q. QED
      BY <3>1, <3>2
  <2>q. QED
    BY <2>1
<1> HIDE DEF row
<1>4. db' \in [Node -> [Key -> Nat]] /\ faults' \in Nat
  BY <1>0, <1>1, <1>2, <1>3
<1>5. LSU(answer) \in Packet
  <2>1. \A h \in older : [key |-> h.key, inst |-> db[n][h.key]] \in Header
    BY <1>2 DEF Header
  <2>2. answer \in SUBSET Header
    BY <2>1
  <2> HIDE DEF answer
  <2>q. QED
    BY <2>2 DEF LSU, Packet
<1>6. Sound(n, e1) /\ e1.state = e0.state
  <2> HIDE DEF answer
  <2>q. QED
    BY <1>2, <1>5, EmitSound
<1>7. {h.key : h \in lsas} \in SUBSET Key
  BY <1>2 DEF Header
<1> HIDE DEF e1
<1>8. /\ Sound(n, e2(refused))
      /\ \/ e2(refused).state = e1.state
         \/ e1.state = LOADING /\ e2(refused).state = FULL
  BY <1>6, <1>7, ProcessLSUpdateSound
<1> HIDE DEF e2
<1>9. Sound(n, e3(refused)) /\ StateMatchesElection(e3(refused), wanted[n])
  BY <1>2, <1>6, <1>8, StateOrder DEF StateMatchesElection
<1> HIDE DEF e3
<1>10. chan' \in [Node -> Seq(Packet)]
  BY <1>0, <1>1, <1>2, <1>9, OutType, DeliverType DEF Arrived
<1>11. nbr' = [nbr EXCEPT ![n] = Done(e3(refused))] /\ wanted[n] \in BOOLEAN
       /\ wanted' = [wanted EXCEPT ![n] = wanted[n]]
  BY <1>0, <1>1, <1>2
<1>q. QED
  BY <1>4, <1>9, <1>10, <1>11, DoneFrame

(* Steps that leave the neighbour objects alone. *)
LEMMA NetFrame ==
    ASSUME IInv, nbr' = nbr, wanted' = wanted, db' \in [Node -> [Key -> Nat]],
           chan' \in [Node -> Seq(Packet)], faults' \in Nat, twice' \in BOOLEAN
    PROVE  IInv'
<1>1. TypeOK'
  BY DEF IInv, TypeOK
<1>2. \A n \in Node : Sound(n, nbr[n]) /\ StateMatchesElection(nbr[n], wanted[n])
  BY DEF IInv
<1>3. \A n \in Node : Sound(n, nbr[n])' /\ StateMatchesElection(nbr[n], wanted[n])'
  BY <1>2
<1>q. QED
  BY <1>1, <1>3 DEF IInv

LEMMA RetransmitSteps ==
    ASSUME IInv, twice' \in BOOLEAN, NEW n \in Node, DDRetransmit(n) \/ LSRRetransmit(n)
    PROVE  IInv'
<1>1. /\ wanted' = wanted /\ db' = db /\ faults' \in Nat /\ db \in [Node -> [Key -> Nat]]
      /\ TypeOK /\ Sound(n, nbr[n]) /\ StateMatchesElection(nbr[n], wanted[n])
      /\ wanted' = [wanted EXCEPT ![n] = wanted[n]] /\ wanted[n] \in BOOLEAN
  BY Here DEF DDRetransmit, LSRRetransmit, OnTime, Strike
<1>2. CASE DDRetransmit(n)
  <2>1. nbr' = nbr /\ Transmit(n, Retransmit(nbr[n]).out)
    BY <1>2 DEF DDRetransmit
  <2>2. Retransmit(nbr[n]).out \in Seq(Packet)
    BY <1>1, RetransmitSound, OutType
  <2>3. chan' \in [Node -> Seq(Packet)]
    BY <1>1, <2>1, <2>2, TransmitType
  <2>q. QED
    BY <1>1, <2>1, <2>3, NetFrame
<1>3. CASE LSRRetransmit(n)
  <2> DEFINE e == nbr[n]
             f == SendLSRequest(e)
  <2>1. /\ nbr' = [nbr EXCEPT ![n] = Done(f)] /\ Transmit(n, f.out)
        /\ e.state = LOADING /\ e.request # {}
    BY <1>3 DEF LSRRetransmit
  <2>2. e \in Neighbor /\ e.summary = {} /\ e.master = (n > Peer(n))
    BY <1>1, <2>1, StateOrder DEF Sound, ArmedToRetry, RoleFollowsId
  <2> HIDE DEF e
  <2>3. Sound(n, f) /\ f.state = LOADING
    BY <2>1, <2>2, SendLSRequestSound
  <2>4. StateMatchesElection(f, wanted[n])
    BY <1>1, <2>1, <2>3, StateOrder DEF StateMatchesElection, e
  <2> HIDE DEF f
  <2>5. chan' \in [Node -> Seq(Packet)]
    BY <1>1, <2>1, <2>3, OutType, TransmitType
  <2>q. QED
    BY <1>1, <2>1, <2>3, <2>4, <2>5, DoneFrame
<1>q. QED
  BY <1>2, <1>3

LEMMA EnvironmentStep ==
    ASSUME IInv, twice' \in BOOLEAN, NEW n \in Node, Environment(n)
    PROVE  IInv'
<1>0. /\ TypeOK /\ Sound(n, nbr[n]) /\ StateMatchesElection(nbr[n], wanted[n])
      /\ wanted[n] \in BOOLEAN /\ db \in [Node -> [Key -> Nat]] /\ faults \in Nat
      /\ chan \in [Node -> Seq(Packet)]
  BY Here
<1>1. ASSUME LearnElsewhere(n) PROVE IInv'
  <2>1. PICK k \in Feed[n], i \in 1..MaxInst :
          /\ db' = [db EXCEPT ![n][k] = i]
          /\ Transmit(n, IF nbr[n].state >= EXCHANGE
                           THEN <<LSU({[key |-> k, inst |-> i]})>> ELSE <<>>)
    BY <1>1 DEF LearnElsewhere
  <2>2. k \in Key /\ i \in Nat
    BY <2>1, ConstantsAssumption
  <2>3. db' \in [Node -> [Key -> Nat]]
    BY <1>0, <2>1, <2>2
  <2>4. LSU({[key |-> k, inst |-> i]}) \in Packet
    <3>1. {[key |-> k, inst |-> i]} \in SUBSET Header
      BY <2>2 DEF Header
    <3>q. QED
      BY <3>1 DEF LSU, Packet
  <2>5. chan' \in [Node -> Seq(Packet)]
    <3>1. (IF nbr[n].state >= EXCHANGE
             THEN <<LSU({[key |-> k, inst |-> i]})>> ELSE <<>>) \in Seq(Packet)
      BY <2>4
    <3>q. QED
      BY <1>0, <2>1, <3>1, TransmitType
  <2>q. QED
    BY <1>0, <1>1, <2>3, <2>5, NetFrame DEF LearnElsewhere
<1>2. ASSUME Election(n) PROVE IInv'
  <2> DEFINE w == ~wanted[n]
             f(s) == AdjOK(nbr[n], w, s)
  <2>1. PICK s \in SeqChoice({}) :
          /\ nbr' = [nbr EXCEPT ![n] = Done(f(s))]
          /\ wanted' = [wanted EXCEPT ![n] = w]
          /\ Transmit(n, f(s).out)
    BY <1>2 DEF Election
  <2>2. s \in SeqNum /\ w \in BOOLEAN
    BY SeqChoiceType
  <2> HIDE DEF w
  <2>3. Sound(n, f(s)) /\ StateMatchesElection(f(s), w)
    BY <1>0, <2>2, AdjOKSound
  <2> HIDE DEF f
  <2>4. chan' \in [Node -> Seq(Packet)]
    BY <1>0, <2>1, <2>3, OutType, TransmitType
  <2>5. db' \in [Node -> [Key -> Nat]] /\ faults' \in Nat
    BY <1>0, <1>2 DEF Election, Strike
  <2>q. QED
    BY <2>1, <2>2, <2>3, <2>4, <2>5, DoneFrame
<1>3. ASSUME InactivityTimeout(n) PROVE IInv'
  <2> DEFINE f == GoDown(nbr[n])
  <2>1. PICK w \in Outcome :
          /\ wanted' = [wanted EXCEPT ![n] = w]
          /\ Swings(1 + Swing(wanted[n], w))
    BY <1>3 DEF InactivityTimeout
  <2>2. w \in BOOLEAN /\ faults' \in Nat
    BY <1>0, <2>1, OutcomeType, SwingType, SwingsType
  <2>3. Sound(n, f) /\ f.state = DOWN
    BY <1>0, GoDownSound
  <2>4. /\ nbr' = [nbr EXCEPT ![n] = f] /\ chan' \in [Node -> Seq(Packet)]
        /\ db' \in [Node -> [Key -> Nat]]
    BY <1>0, <1>3 DEF InactivityTimeout
  <2> HIDE DEF f
  <2>5. StateMatchesElection(f, w)
    BY <2>3, StateOrder DEF StateMatchesElection
  <2>q. QED
    BY <2>1, <2>2, <2>3, <2>4, <2>5, Frame
<1>4. ASSUME Restart(n) PROVE IInv'
  <2>1. /\ nbr' = [nbr EXCEPT ![n] = NewNeighbor]
        /\ wanted' = [wanted EXCEPT ![n] = PointToPoint]
        /\ PointToPoint \in BOOLEAN
        /\ chan' \in [Node -> Seq(Packet)] /\ faults' \in Nat
    BY <1>0, <1>4, ConstantsAssumption DEF Restart, Strike
  <2>2. db' \in [Node -> [Key -> Nat]]
    BY <1>0, <1>4 DEF Restart
  <2>3. Sound(n, NewNeighbor) /\ StateMatchesElection(NewNeighbor, PointToPoint)
    BY NewNeighborSound, StateOrder DEF StateMatchesElection
  <2>q. QED
    BY <2>1, <2>2, <2>3, Frame
<1>5. ASSUME Lose(n) \/ Duplicate(n) \/ Reorder(n) PROVE IInv'
  <2>1. chan[n] # <<>> /\ chan[n] \in Seq(Packet)
    BY <1>0, <1>5 DEF Lose, Duplicate, Reorder
  <2>2. Tail(chan[n]) \in Seq(Packet) /\ Head(chan[n]) \in Packet
    BY <2>1
  <2>3. /\ Append(chan[n], Head(chan[n])) \in Seq(Packet)
        /\ Append(Tail(chan[n]), Head(chan[n])) \in Seq(Packet)
    BY <2>1, <2>2
  <2>4. chan' \in [Node -> Seq(Packet)]
    BY <1>0, <1>5, <2>2, <2>3 DEF Lose, Duplicate, Reorder
  <2>5. nbr' = nbr /\ wanted' = wanted /\ db' = db /\ faults' \in Nat
    BY <1>0, <1>5 DEF Lose, Duplicate, Reorder, Strike
  <2>q. QED
    BY <1>0, <2>4, <2>5, NetFrame
<1>q. QED
  BY <1>1, <1>2, <1>3, <1>4, <1>5 DEF Environment

LEMMA SendHelloStep ==
    ASSUME IInv, twice' \in BOOLEAN, NEW n \in Node, SendHello(n)
    PROVE  IInv'
<1>1. <<Hello(nbr[n].state >= INIT)>> \in Seq(Packet)
  <2>1. (nbr[n].state >= INIT) \in BOOLEAN
    OBVIOUS
  <2>q. QED
    BY <2>1 DEF Hello, Packet
<1>2. chan' \in [Node -> Seq(Packet)]
  BY <1>1, Here, TransmitType DEF SendHello
<1>q. QED
  BY <1>2, Here, NetFrame DEF SendHello

LEMMA InitIInv == Init => IInv
<1> SUFFICES ASSUME Init PROVE IInv
  OBVIOUS
<1>0. nbr \in [Node -> Neighbor]
  BY NewNeighborSound DEF Init, Sound
<1>1a. /\ wanted \in [Node -> BOOLEAN] /\ db \in [Node -> [Key -> Nat]]
       /\ chan \in [Node -> Seq(Packet)] /\ faults \in Nat
  BY ConstantsAssumption DEF Init
<1>1b. twice \in BOOLEAN
  BY DEF Init
<1>1. TypeOK
  BY <1>0, <1>1a, <1>1b DEF TypeOK
<1>2. ASSUME NEW n \in Node
      PROVE  Sound(n, nbr[n]) /\ StateMatchesElection(nbr[n], wanted[n])
  <2>1. nbr[n] = NewNeighbor
    BY DEF Init
  <2>q. QED
    BY <2>1, NewNeighborSound, StateOrder DEF StateMatchesElection
<1>q. QED
  BY <1>1, <1>2 DEF IInv

LEMMA TwiceType == TypeOK /\ [Next]_vars => twice' \in BOOLEAN
<1> SUFFICES ASSUME TypeOK, [Next]_vars PROVE twice' \in BOOLEAN
  OBVIOUS
<1>1. twice \in BOOLEAN
  BY DEF TypeOK
<1>2. CASE Next
  <2>1. PICK n \in Node : Receive(n) \/ SendHello(n) \/ DDRetransmit(n)
                           \/ LSRRetransmit(n) \/ Environment(n)
    BY <1>2 DEF Next
  <2>2. twice' = twice \/ DDRetransmit(n) \/ Duplicate(n)
    BY <2>1 DEF Receive, ReceiveHello, ReceiveDD, ReceiveLSR, ReceiveLSU, SendHello,
         LSRRetransmit, Environment, LearnElsewhere, Election, InactivityTimeout,
         Restart, Lose, Reorder
  <2>q. QED
    BY <1>1, <2>2 DEF DDRetransmit, Duplicate
<1>3. CASE UNCHANGED vars
  BY <1>1, <1>3 DEF vars
<1>q. QED
  BY <1>2, <1>3

LEMMA NextIInv == IInv /\ [Next]_vars => IInv'
<1> SUFFICES ASSUME IInv, [Next]_vars PROVE IInv'
  OBVIOUS
<1>0. twice' \in BOOLEAN
  BY TwiceType DEF IInv
<1>1. CASE Next
  <2>1. PICK n \in Node : Receive(n) \/ SendHello(n) \/ DDRetransmit(n)
                           \/ LSRRetransmit(n) \/ Environment(n)
    BY <1>1 DEF Next
  <2>q. QED
    BY <1>0, <2>1, ReceiveHelloStep, ReceiveDDStep, ReceiveLSRStep, ReceiveLSUStep,
       SendHelloStep, RetransmitSteps, EnvironmentStep DEF Receive
<1>2. CASE UNCHANGED vars
  <2>1. nbr' = nbr /\ wanted' = wanted /\ db' = db /\ chan' = chan /\ faults' = faults
    BY <1>2 DEF vars
  <2>2. 1 \in Node
    BY DEF Node
  <2>q. QED
    BY <1>0, <2>1, <2>2, Here, NetFrame
<1>q. QED
  BY <1>1, <1>2

(* What every reachable state satisfies, by induction over the steps.      *)
LEMMA Invariance == Spec => []IInv
  BY InitIInv, NextIInv, PTL DEF Spec

-----------------------------------------------------------------------------
(* The theorems.                                                           *)

(* Every reachable state is well typed; in particular no DD packet ever    *)
(* carries a sequence number that its signed field cannot hold.            *)
THEOREM TypeCorrect == Spec => []TypeOK
<1>1. IInv => TypeOK
  BY DEF IInv
<1>q. QED
  BY <1>1, Invariance, PTL

(* Whatever is lost, repeated, reordered, timed out or restarted, and      *)
(* whatever the elections decide, the master of two routers that exchange  *)
(* descriptions is the one with the larger router ID                       *)
(* (_process_dd_exstart).                                                  *)
THEOREM OneMasterAlways == Spec => []OneMaster
<1>1. IInv => OneMaster
  BY DEF IInv, Sound, OneMaster
<1>q. QED
  BY <1>1, Invariance, PTL

(* No list, remembered packet or running timer of an exchange survives in  *)
(* a neighbour that has fallen below ExStart (_clear_lists).               *)
THEOREM NothingLeftBehindAlways == Spec => []NothingLeftBehind
<1>1. IInv => NothingLeftBehind
  BY DEF IInv, Sound, NothingLeftBehind
<1>q. QED
  BY <1>1, Invariance, PTL

(* A router in ExStart or Loading always has its retransmission armed      *)
(* (_start_dd_exchange, _send_ls_request).                                 *)
THEOREM NobodyWaitsUnarmedAlways == Spec => []NobodyWaitsUnarmed
<1>1. IInv => NobodyWaitsUnarmed
  BY DEF IInv, Sound, NobodyWaitsUnarmed
<1>q. QED
  BY <1>1, Invariance, PTL

(* Although elections run in the middle of the handlers, the adjacency is  *)
(* up exactly when the last of them wants it (_elect_dr, AdjOK?).          *)
THEOREM AdjacencyMatchesElectionAlways == Spec => []AdjacencyMatchesElection
<1>1. IInv => AdjacencyMatchesElection
  BY DEF IInv, AdjacencyMatchesElection
<1>q. QED
  BY <1>1, Invariance, PTL

(* Except by a restart, no step replaces an LSA by an older instance       *)
(* (receive_lsu, LSDB.install).                                            *)
LEMMA DbStep ==
    ASSUME TypeOK, [Next]_vars, NEW n \in Node, NEW k \in Key
    PROVE  Restart(n) \/ db'[n][k] >= db[n][k]
<1>1. db[n][k] \in Nat /\ db \in [Node -> [Key -> Nat]]
  BY DEF TypeOK
<1>2. CASE db' = db
  BY <1>1, <1>2
<1>3. ASSUME NEW m \in Node, ReceiveLSU(m) PROVE db'[n][k] >= db[n][k]
  <2> DEFINE lsas == Head(chan[m]).lsas
             newer(refused) == Installable(m, lsas, refused)
             took(refused, j) == nbr[m].known /\ \E h \in newer(refused) : h.key = j
             pick(refused, j) == CHOOSE h \in newer(refused) : h.key = j
  <2>1. PICK refused \in IF Burst THEN SUBSET Key ELSE {{}} :
          db' = [db EXCEPT ![m] = [j \in Key |-> IF took(refused, j)
                                     THEN pick(refused, j).inst ELSE db[m][j]]]
    BY <1>3, <1>1 DEF ReceiveLSU
  <2>2. CASE n = m /\ took(refused, k)
    <3>1. pick(refused, k) \in newer(refused) /\ pick(refused, k).key = k
      BY <2>2
    <3>2. pick(refused, k).inst > db[n][k]
      BY <2>2, <3>1 DEF Installable
    <3>3. pick(refused, k).inst \in Nat
      BY <1>3, <3>1, ArrivedType DEF ReceiveLSU, Header, Installable
    <3> HIDE DEF pick
    <3>4. db'[n][k] = pick(refused, k).inst
      BY <1>1, <2>1, <2>2
    <3>q. QED
      BY <1>1, <3>2, <3>3, <3>4
  <2>3. CASE ~(n = m /\ took(refused, k))
    <3>1. db'[n][k] = db[n][k]
      BY <1>1, <2>1, <2>3
    <3>q. QED
      BY <1>1, <3>1
  <2>q. QED
    BY <2>2, <2>3
<1>4. ASSUME NEW m \in Node, LearnElsewhere(m) PROVE db'[n][k] >= db[n][k]
  <2>1. PICK j \in Feed[m], i \in 1..MaxInst :
          i > db[m][j] /\ db' = [db EXCEPT ![m][j] = i]
    BY <1>4 DEF LearnElsewhere
  <2>2. j \in Key /\ i \in Nat
    BY <2>1, ConstantsAssumption
  <2>q. QED
    BY <1>1, <2>1, <2>2
<1>5. ASSUME NEW m \in Node, Restart(m) PROVE Restart(n) \/ db'[n][k] >= db[n][k]
  <2>1. CASE n = m
    BY <1>5, <2>1
  <2>2. CASE n # m
    <3>1. db'[n] = db[n]
      BY <1>1, <1>5, <2>2 DEF Restart
    <3>q. QED
      BY <1>1, <3>1
  <2>q. QED
    BY <2>1, <2>2
<1>6. CASE UNCHANGED vars
  BY <1>2, <1>6 DEF vars
<1>7. CASE Next
  <2>1. PICK m \in Node : Receive(m) \/ SendHello(m) \/ DDRetransmit(m)
                           \/ LSRRetransmit(m) \/ Environment(m)
    BY <1>7 DEF Next
  <2>2. db' = db \/ ReceiveLSU(m) \/ LearnElsewhere(m) \/ Restart(m)
    BY <2>1 DEF Receive, ReceiveHello, ReceiveDD, ReceiveLSR, SendHello,
         DDRetransmit, LSRRetransmit, Environment, Election, InactivityTimeout,
         Lose, Duplicate, Reorder
  <2>q. QED
    BY <1>2, <1>3, <1>4, <1>5, <2>2
<1>q. QED
  BY <1>6, <1>7

(* No LS Update, old, doubled or out of order, puts an older instance in   *)
(* the place of a newer one (install); only a restart forgets.             *)
THEOREM NeverOlderAlways == Spec => NeverOlder
<1>1. TypeOK /\ [Next]_vars =>
        [\A n \in Node : Restart(n) \/ \A k \in Key : db'[n][k] >= db[n][k]]_vars
  BY DbStep
<1>q. QED
  BY <1>1, TypeCorrect, PTL DEF Spec, NeverOlder

-----------------------------------------------------------------------------
(* Second part: nothing that was described is forgotten on the way to      *)
(* Full.                                                                   *)
(*                                                                         *)
(* What a router was told and does not have is on its request list, or was *)
(* struck from it (Holding); the list of a Full neighbour is empty (IInv). *)
(* One lemma for each handler says that it keeps an object so.             *)

Held(h, d) == d[h.key] >= h.inst
Asked(e, h) ==
    \/ h.key \in e.struck
    \/ \E g \in e.request : g.key = h.key /\ g.inst >= h.inst

(* An object between two handlers, at a router with the database d. *)
Holding(e, d) ==
    e \in Neighbor /\ \A h \in e.told : Held(h, d) \/ Asked(e, h)
HoldInv == \A n \in Node : Holding(nbr[n], db[n])

Database == [Key -> Nat]

(* A handler that leaves the three lists alone, and one that empties them. *)
LEMMA AlikeHolding ==
    ASSUME NEW d, NEW e, Holding(e, d), NEW f \in Neighbor,
           f.told = e.told, f.request = e.request, f.struck = e.struck
    PROVE  Holding(f, d)
  BY DEF Holding, Asked

LEMMA ClearedHolding ==
    ASSUME NEW d, NEW f \in Neighbor, f.told = {}
    PROVE  Holding(f, d)
  BY DEF Holding

(* A database only gains. *)
LEMMA LaterHolding ==
    ASSUME NEW d \in Database, NEW g \in Database, \A k \in Key : g[k] >= d[k],
           NEW e, Holding(e, d)
    PROVE  Holding(e, g)
<1>1. ASSUME NEW h \in e.told, Held(h, d) PROVE Held(h, g)
  <2>1. h.key \in Key /\ h.inst \in Nat
    BY DEF Holding, Neighbor, Header
  <2>2. d[h.key] \in Nat /\ g[h.key] \in Nat /\ g[h.key] >= d[h.key]
    BY <2>1 DEF Database
  <2>q. QED
    BY <1>1, <2>1, <2>2 DEF Held
<1>q. QED
  BY <1>1 DEF Holding

LEMMA EmitHolding ==
    ASSUME NEW d, NEW e, Holding(e, d), NEW p \in Packet
    PROVE  Holding(Emit(e, p), d)
<1> DEFINE f == Emit(e, p)
<1>1. f \in Neighbor
  BY EmitType DEF Holding
<1>2. f.told = e.told /\ f.request = e.request /\ f.struck = e.struck
  BY DEF Holding, Emit, Neighbor
<1> HIDE DEF f
<1>3. Holding(f, d)
  BY <1>1, <1>2, AlikeHolding
<1>q. QED
  BY <1>3 DEF f

LEMMA SendDDHolding ==
    ASSUME NEW d, NEW e, Holding(e, d), NEW p \in DDPacket
    PROVE  Holding(SendDD(e, p), d)
<1> DEFINE f == SendDD(e, p)
<1>1. f \in Neighbor
  BY SendDDType DEF Holding
<1>2. f.told = e.told /\ f.request = e.request /\ f.struck = e.struck
  BY DEF Holding, SendDD, Neighbor
<1> HIDE DEF f
<1>3. Holding(f, d)
  BY <1>1, <1>2, AlikeHolding
<1>q. QED
  BY <1>3 DEF f

(* An exchange that starts was told nothing. *)
LEMMA StartHolding ==
    ASSUME NEW d, NEW e, Holding(e, d), NEW s \in SeqNum
    PROVE  Holding(StartDDExchange(e, s), d)
<1> DEFINE e1 == [e EXCEPT !.seq = s, !.master = TRUE, !.summary = {},
                           !.request = {}, !.ddTimer = TRUE, !.told = {},
                           !.struck = {}]
           p  == DD(TRUE, TRUE, TRUE, s, {})
<1>1. e1 \in Neighbor /\ e1.told = {}
  BY SeqNumType DEF Holding, Neighbor
<1>2. p \in DDPacket
  BY DDType DEF DD
<1>3. StartDDExchange(e, s) = SendDD(e1, p)
  BY DEF StartDDExchange
<1> HIDE DEF e1, p
<1>4. Holding(e1, d)
  BY <1>1, ClearedHolding
<1>q. QED
  BY <1>2, <1>3, <1>4, SendDDHolding

LEMMA SetStateHolding ==
    ASSUME NEW d, NEW e, Holding(e, d), NEW s \in State
    PROVE  Holding([e EXCEPT !.state = s], d)
<1> DEFINE f == [e EXCEPT !.state = s]
<1>1. f \in Neighbor /\ f.told = e.told /\ f.request = e.request /\ f.struck = e.struck
  BY DEF Holding, Neighbor
<1> HIDE DEF f
<1>2. Holding(f, d)
  BY <1>1, AlikeHolding
<1>q. QED
  BY <1>2 DEF f

LEMMA LeftHolding ==
    ASSUME NEW d, NEW e, Holding(e, d)
    PROVE  Holding(ClearLists(e), d) /\ Holding(StopTimers(ClearLists(e)), d)
<1> DEFINE f == ClearLists(e)
           g == StopTimers(f)
<1>1. f \in Neighbor /\ f.told = {} /\ g \in Neighbor /\ g.told = {}
  BY DEF Holding, ClearLists, StopTimers, Neighbor, Stamps
<1> HIDE DEF f, g
<1>2. Holding(f, d) /\ Holding(g, d)
  BY <1>1, ClearedHolding
<1>q. QED
  BY <1>2 DEF f, g

LEMMA HelloReceivedHolding ==
    ASSUME NEW d, NEW e, Holding(e, d)
    PROVE  Holding(HelloReceived(e), d)
<1> DEFINE f == HelloReceived(e)
<1>1. f \in Neighbor /\ f.told = e.told /\ f.request = e.request /\ f.struck = e.struck
  BY StateType DEF Holding, HelloReceived, Neighbor
<1> HIDE DEF f
<1>2. Holding(f, d)
  BY <1>1, AlikeHolding
<1>q. QED
  BY <1>2 DEF f

LEMMA TwoWayReceivedHolding ==
    ASSUME NEW d, NEW e, Holding(e, d), NEW w \in BOOLEAN, NEW s \in SeqNum
    PROVE  Holding(TwoWayReceived(e, w, s), d)
  BY StateType, SetStateHolding, StartHolding DEF TwoWayReceived

LEMMA OneWayHolding ==
    ASSUME NEW d, NEW e, Holding(e, d)
    PROVE  Holding(OneWay(e), d)
  BY StateType, SetStateHolding, LeftHolding DEF OneWay

LEMMA GoDownHolding ==
    ASSUME NEW d, NEW e, Holding(e, d)
    PROVE  Holding(GoDown(e), d)
<1> DEFINE f == [e EXCEPT !.state = DOWN, !.inactivity = FALSE]
<1>1. f \in Neighbor /\ f.told = e.told /\ f.request = e.request /\ f.struck = e.struck
  BY StateType DEF Holding, Neighbor
<1>2. GoDown(e) = StopTimers(ClearLists(f))
  BY DEF GoDown
<1> HIDE DEF f
<1>3. Holding(f, d)
  BY <1>1, AlikeHolding
<1>q. QED
  BY <1>2, <1>3, LeftHolding

LEMMA AdjOKHolding ==
    ASSUME NEW d, NEW e, Holding(e, d), NEW w \in BOOLEAN, NEW s \in SeqNum
    PROVE  Holding(AdjOK(e, w, s), d)
<1> DEFINE up == StartDDExchange([e EXCEPT !.state = EXSTART], s)
           down == StopTimers(ClearLists([e EXCEPT !.state = TWOWAY]))
<1>1. Holding(up, d) /\ Holding(down, d)
  BY StateType, SetStateHolding, StartHolding, LeftHolding
<1>2. e.state \in State
  BY DEF Holding, Neighbor
<1>3. AdjOK(e, w, s) = IF e.state = TWOWAY /\ w THEN up
                       ELSE IF e.state >= EXSTART /\ ~w THEN down ELSE e
  BY <1>2, StateOrder DEF AdjOK
<1> HIDE DEF up, down
<1>q. QED
  BY <1>1, <1>3

LEMMA SeqNumMismatchHolding ==
    ASSUME NEW d, NEW e, Holding(e, d), NEW s \in SeqNum
    PROVE  Holding(SeqNumMismatch(e, s), d)
<1>1. Holding([e EXCEPT !.state = EXSTART], d)
  BY StateType, SetStateHolding
<1>2. Holding(ClearLists([e EXCEPT !.state = EXSTART]), d)
  BY <1>1, LeftHolding
<1>q. QED
  BY <1>2, StartHolding DEF SeqNumMismatch

LEMMA NegotiationDoneHolding ==
    ASSUME TypeOK, NEW n \in Node, NEW d, NEW e, Holding(e, d)
    PROVE  Holding(NegotiationDone(e, n), d) /\ NegotiationDone(e, n).seq = e.seq
<1> DEFINE f == NegotiationDone(e, n)
<1>1. Headers(db[n]) \in SUBSET Header
  BY DEF Headers, Header, TypeOK
<1>2. /\ f \in Neighbor /\ f.told = e.told /\ f.request = e.request
      /\ f.struck = e.struck /\ f.seq = e.seq
  BY <1>1, StateType DEF Holding, NegotiationDone, Neighbor
<1> HIDE DEF f
<1>3. Holding(f, d) /\ f.seq = e.seq
  BY <1>2, AlikeHolding
<1>q. QED
  BY <1>3 DEF f

LEMMA SendLSRequestHolding ==
    ASSUME NEW d, NEW e, Holding(e, d)
    PROVE  Holding(SendLSRequest(e), d)
<1> DEFINE f == [e EXCEPT !.rxmtTimer = TRUE]
           p == LSR({h.key : h \in FirstOf(e.request, MaxItems)})
<1>1. f \in Neighbor /\ f.told = e.told /\ f.request = e.request /\ f.struck = e.struck
  BY DEF Holding, Neighbor
<1>2. p \in Packet
  BY LSRType DEF Holding, Neighbor
<1>3. SendLSRequest(e) = IF e.request = {} THEN e ELSE Emit(f, p)
  BY DEF SendLSRequest
<1> HIDE DEF f, p
<1>4. Holding(f, d)
  BY <1>1, AlikeHolding
<1>q. QED
  BY <1>2, <1>3, <1>4, EmitHolding

LEMMA ExchangeDoneHolding ==
    ASSUME NEW d, NEW e, Holding(e, d)
    PROVE  Holding(ExchangeDone(e), d)
<1> DEFINE f == [e EXCEPT !.state = LOADING]
           g == [e EXCEPT !.state = FULL, !.rxmtTimer = FALSE]
<1>1. g \in Neighbor /\ g.told = e.told /\ g.request = e.request /\ g.struck = e.struck
  BY StateType DEF Holding, Neighbor
<1>2. ExchangeDone(e) = IF e.request # {} THEN SendLSRequest(f) ELSE g
  BY DEF ExchangeDone
<1>3. Holding(f, d)
  BY StateType, SetStateHolding
<1> HIDE DEF f, g
<1>4. Holding(SendLSRequest(f), d) /\ Holding(g, d)
  BY <1>1, <1>3, SendLSRequestHolding, AlikeHolding
<1>q. QED
  BY <1>2, <1>4

LEMMA RememberHolding ==
    ASSUME NEW d, NEW e, Holding(e, d), NEW dd \in DDPacket
    PROVE  Holding(Remember(e, dd), d) /\ Remember(e, dd).seq = e.seq
<1> DEFINE f == Remember(e, dd)
<1>1. /\ f \in Neighbor /\ f.told = e.told /\ f.request = e.request
      /\ f.struck = e.struck /\ f.seq = e.seq
  BY StampType DEF Holding, Remember, Neighbor
<1> HIDE DEF f
<1>2. Holding(f, d)
  BY <1>1, AlikeHolding
<1>q. QED
  BY <1>1, <1>2 DEF f

LEMMA SetSeqHolding ==
    ASSUME NEW d, NEW e, Holding(e, d), NEW q \in Counter
    PROVE  Holding([e EXCEPT !.seq = q], d) /\ [e EXCEPT !.seq = q].seq = q
<1> DEFINE f == [e EXCEPT !.seq = q]
<1>1. /\ f \in Neighbor /\ f.told = e.told /\ f.request = e.request
      /\ f.struck = e.struck /\ f.seq = q
  BY DEF Holding, Neighbor
<1> HIDE DEF f
<1>2. Holding(f, d)
  BY <1>1, AlikeHolding
<1>q. QED
  BY <1>1, <1>2 DEF f

(* What is described is held or asked for; a request that gives way to     *)
(* another for the same LSA gives way to one at least as new, or is struck. *)
LEMMA ProcessHeadersHolding ==
    ASSUME TypeOK, NEW n \in Node, NEW e, Holding(e, db[n]), NEW hs \in SUBSET Header
    PROVE  /\ Holding(ProcessHeaders(e, n, hs), db[n])
           /\ ProcessHeaders(e, n, hs).seq = e.seq
<1> DEFINE newer == {h \in hs : h.inst > db[n][h.key]}
           kept  == {g \in e.request : \A h \in newer : h.key # g.key}
           older == {h \in newer : \E g \in e.request : h.key = g.key /\ h.inst < g.inst}
           lost  == {h.key : h \in older}
           f     == ProcessHeaders(e, n, hs)
<1>0. /\ e.told \in SUBSET Header /\ e.request \in SUBSET Header
      /\ \A k \in Key : db[n][k] \in Nat
      /\ \A h \in Header : h.key \in Key /\ h.inst \in Nat
  BY DEF Holding, Neighbor, Header, TypeOK
<1>1. f \in Neighbor /\ f.seq = e.seq
  BY ProcessHeadersType DEF Holding
<1>2. /\ f.told = e.told \cup hs /\ f.request = kept \cup newer
      /\ f.struck = e.struck \cup lost
  BY DEF ProcessHeaders, Holding, Neighbor
<1>3. ASSUME NEW h \in hs PROVE Held(h, db[n]) \/ Asked(f, h)
  <2>1. h \in newer \/ Held(h, db[n])
    BY <1>0 DEF Held
  <2>2. ASSUME h \in newer PROVE Asked(f, h)
    <3>1. h \in f.request /\ h.inst >= h.inst
      BY <1>0, <1>2, <2>2
    <3>q. QED
      BY <3>1 DEF Asked
  <2>q. QED
    BY <2>1, <2>2
<1>4. ASSUME NEW h \in e.told, NEW g \in e.request, g.key = h.key, g.inst >= h.inst
      PROVE  Asked(f, h)
  <2>1. CASE g \in kept
    BY <1>2, <1>4, <2>1 DEF Asked
  <2>2. CASE g \notin kept
    <3>1. PICK k \in newer : k.key = g.key
      BY <2>2
    <3>2. CASE k.inst < g.inst
      <4>1. k \in older
        BY <3>1, <3>2
      <4>2. h.key \in lost
        BY <1>4, <3>1, <4>1
      <4>q. QED
        BY <1>2, <4>2 DEF Asked
    <3>3. CASE ~(k.inst < g.inst)
      <4>1. k.inst \in Nat /\ g.inst \in Nat /\ h.inst \in Nat
        BY <1>0
      <4>2. k.inst >= h.inst
        BY <1>4, <3>3, <4>1
      <4>q. QED
        BY <1>2, <1>4, <3>1, <4>2 DEF Asked
    <3>q. QED
      BY <3>2, <3>3
  <2>q. QED
    BY <2>1, <2>2
<1>5. ASSUME NEW h \in e.told PROVE Held(h, db[n]) \/ Asked(f, h)
  <2>1. h.key \in e.struck => Asked(f, h)
    BY <1>2 DEF Asked
  <2>q. QED
    BY <1>4, <2>1 DEF Holding, Asked
<1> HIDE DEF f, kept, newer, older, lost
<1>q. QED
  BY <1>1, <1>2, <1>3, <1>5 DEF Holding, f

LEMMA SendBatchHolding ==
    ASSUME NEW d, NEW e, Holding(e, d), NEW ms \in BOOLEAN
    PROVE  Holding(SendBatch(e, ms), d)
<1> DEFINE batch == FirstOf(e.summary, MaxHeaders)
           rest  == e.summary \ batch
           f     == [e EXCEPT !.summary = rest]
           p     == DD(FALSE, rest # {}, ms, e.seq, batch)
<1>1. batch \in SUBSET e.summary /\ rest \in SUBSET e.summary /\ e.summary \in SUBSET Header
  BY DEF FirstOf, Holding, Neighbor
<1>2. SendBatch(e, ms) = IF e.seq > MaxDDSeq THEN f ELSE SendDD(f, p)
  BY DEF SendBatch
<1> HIDE DEF batch, rest
<1>3. f \in Neighbor /\ f.told = e.told /\ f.request = e.request /\ f.struck = e.struck
  BY <1>1 DEF Holding, Neighbor
<1>4. ~(e.seq > MaxDDSeq) => e.seq \in SeqNum
  BY ConstantsAssumption DEF Holding, Neighbor, Counter, SeqNum
<1>5. (rest # {}) \in BOOLEAN /\ batch \in SUBSET Header
  BY <1>1
<1>6. ~(e.seq > MaxDDSeq) => p \in DDPacket
  BY <1>4, <1>5, DDType
<1> HIDE DEF f, p
<1>7. Holding(f, d)
  BY <1>3, AlikeHolding
<1>q. QED
  BY <1>2, <1>6, <1>7, SendDDHolding

LEMMA RetransmitHolding ==
    ASSUME NEW d, NEW e, Holding(e, d)
    PROVE  Holding(Retransmit(e), d)
<1>1. e.lastTx # None => e.lastTx \in Packet
  BY DEF Holding, Neighbor, Packet
<1>q. QED
  BY <1>1, EmitHolding DEF Retransmit

LEMMA ExStartDDHolding ==
    ASSUME TypeOK, NEW n \in Node, NEW e, Holding(e, db[n]), NEW dd \in DDPacket
    PROVE  Holding(ExStartDD(e, n, dd), db[n])
<1>0. e \in Neighbor
  BY DEF Holding
<1>1. Holding(BecomeSlave(e, n, dd), db[n])
  <2> DEFINE f == [e EXCEPT !.master = FALSE, !.seq = dd.seq, !.ddTimer = FALSE]
  <2>1. f \in Neighbor /\ f.told = e.told /\ f.request = e.request /\ f.struck = e.struck
    BY <1>0, DDFields DEF Neighbor
  <2>2. BecomeSlave(e, n, dd) = SendBatch(NegotiationDone(f, n), FALSE)
    BY DEF BecomeSlave
  <2> HIDE DEF f
  <2>3. Holding(NegotiationDone(f, n), db[n])
    BY <2>1, AlikeHolding, NegotiationDoneHolding
  <2>q. QED
    BY <2>2, <2>3, SendBatchHolding
<1>2. dd.seq = e.seq => Holding(BecomeMaster(e, n, dd), db[n])
  <2> DEFINE f  == [e EXCEPT !.master = TRUE, !.ddTimer = FALSE]
             e1 == NegotiationDone(f, n)
             h1 == ProcessHeaders(e1, n, dd.hdrs)
             e2 == Remember(h1, dd)
             e3 == [e2 EXCEPT !.seq = @ + 1]
  <2>0. SUFFICES ASSUME dd.seq = e.seq PROVE Holding(BecomeMaster(e, n, dd), db[n])
    OBVIOUS
  <2>1. /\ f \in Neighbor /\ f.told = e.told /\ f.request = e.request
        /\ f.struck = e.struck /\ f.seq = dd.seq
    BY <1>0, <2>0 DEF Neighbor
  <2>2. BecomeMaster(e, n, dd) = SendBatch(e3, TRUE)
    BY DEF BecomeMaster
  <2> HIDE DEF f
  <2>3. Holding(e1, db[n]) /\ e1.seq = dd.seq
    BY <2>1, AlikeHolding, NegotiationDoneHolding
  <2> HIDE DEF e1
  <2>4. Holding(h1, db[n]) /\ h1.seq = dd.seq
    BY <2>3, DDFields, ProcessHeadersHolding
  <2> HIDE DEF h1
  <2>5. Holding(e2, db[n]) /\ e2.seq = dd.seq
    BY <2>4, RememberHolding
  <2> HIDE DEF e2
  <2>6. Holding(e3, db[n])
    BY <2>5, DDFields, SetSeqHolding
  <2> HIDE DEF e3
  <2>q. QED
    BY <2>2, <2>6, SendBatchHolding
<1>3. \/ ExStartDD(e, n, dd) = e
      \/ ExStartDD(e, n, dd) = BecomeSlave(e, n, dd)
      \/ dd.seq = e.seq /\ ExStartDD(e, n, dd) = BecomeMaster(e, n, dd)
  <2>1. CASE IsInitDD(dd) /\ Peer(n) > n
    BY <2>1 DEF ExStartDD, IsInitDD
  <2>2. CASE ~(IsInitDD(dd) /\ Peer(n) > n)
    BY <2>2 DEF ExStartDD
  <2>q. QED
    BY <2>1, <2>2
<1>q. QED
  BY <1>1, <1>2, <1>3

LEMMA MasterExchangeDDHolding ==
    ASSUME TypeOK, NEW n \in Node, NEW e, Holding(e, db[n]), NEW dd \in DDPacket,
           NEW s \in SeqNum
    PROVE  Holding(MasterExchangeDD(e, n, dd, s), db[n])
<1> DEFINE e1 == ProcessHeaders(e, n, dd.hdrs)
           e2 == [e1 EXCEPT !.seq = @ + 1]
           bad  == dd.seq # e.seq \/ dd.I \/ dd.MS
           last == ~dd.M /\ e2.summary = {}
<1>1. MasterExchangeDD(e, n, dd, s) =
        IF bad THEN SeqNumMismatch(e, s)
        ELSE IF last THEN Remember(ExchangeDone(e2), dd)
        ELSE IF e2.seq > MaxDDSeq THEN SendBatch(e2, TRUE)
        ELSE Remember(SendBatch(e2, TRUE), dd)
  BY DEF MasterExchangeDD
<1>2. Holding(e1, db[n]) /\ e1.seq = e.seq
  BY DDFields, ProcessHeadersHolding
<1>3. ~bad => Holding(e2, db[n])
  <2> HIDE DEF e1
  <2>q. QED
    BY <1>2, DDFields, SetSeqHolding
<1> HIDE DEF e1, e2
<1>4. Holding(SeqNumMismatch(e, s), db[n])
  BY SeqNumMismatchHolding
<1>5. ~bad => Holding(Remember(ExchangeDone(e2), dd), db[n])
  BY <1>3, ExchangeDoneHolding, RememberHolding
<1>6. ~bad => /\ Holding(SendBatch(e2, TRUE), db[n])
              /\ Holding(Remember(SendBatch(e2, TRUE), dd), db[n])
  BY <1>3, SendBatchHolding, RememberHolding
<1> HIDE DEF bad, last
<1>q. QED
  BY <1>1, <1>4, <1>5, <1>6

LEMMA SlaveExchangeDDHolding ==
    ASSUME TypeOK, NEW n \in Node, NEW e, Holding(e, db[n]), NEW dd \in DDPacket,
           NEW s \in SeqNum
    PROVE  Holding(SlaveExchangeDD(e, n, dd, s), db[n])
<1> DEFINE e0 == [e EXCEPT !.seq = dd.seq]
           e1 == ProcessHeaders(e0, n, dd.hdrs)
           e2 == SendBatch(e1, FALSE)
           e3 == IF ~dd.M /\ e2.summary = {} THEN ExchangeDone(e2) ELSE e2
           bad == dd.seq # e.seq + 1 \/ dd.I
<1>1. SlaveExchangeDD(e, n, dd, s) =
        IF bad THEN SeqNumMismatch(e, s) ELSE Remember(e3, dd)
  BY DEF SlaveExchangeDD
<1>2. Holding(e0, db[n])
  BY DDFields, SetSeqHolding
<1> HIDE DEF e0, bad
<1>3. Holding(e1, db[n])
  BY <1>2, DDFields, ProcessHeadersHolding
<1> HIDE DEF e1
<1>4. Holding(e2, db[n])
  BY <1>3, SendBatchHolding
<1> HIDE DEF e2
<1>5. Holding(e3, db[n])
  BY <1>4, ExchangeDoneHolding
<1> HIDE DEF e3
<1>q. QED
  BY <1>1, <1>5, SeqNumMismatchHolding, RememberHolding

LEMMA ProcessDDHolding ==
    ASSUME TypeOK, NEW n \in Node, NEW e, Holding(e, db[n]), NEW dd \in DDPacket,
           NEW s \in SeqNum
    PROVE  Holding(ProcessDD(e, n, dd, s), db[n])
<1> DEFINE again == IF e.master THEN e ELSE Retransmit(e)
           master == MasterExchangeDD(e, n, dd, s)
           slave  == SlaveExchangeDD(e, n, dd, s)
           first  == ExStartDD(e, n, dd)
           mismatch == SeqNumMismatch(e, s)
<1>1. /\ Holding(again, db[n]) /\ Holding(mismatch, db[n])
      /\ Holding(master, db[n]) /\ Holding(slave, db[n]) /\ Holding(first, db[n])
  BY RetransmitHolding, SeqNumMismatchHolding, MasterExchangeDDHolding,
     SlaveExchangeDDHolding, ExStartDDHolding
<1>2. ExchangeDD(e, n, dd, s) \in {again, master, slave}
  BY DEF ExchangeDD
<1>3. LateDD(e, dd, s) \in {again, mismatch}
  BY DEF LateDD
<1> HIDE DEF again, master, slave, first, mismatch
<1>4. ProcessDD(e, n, dd, s) \in {e, again, master, slave, first, mismatch}
  <2>1. CASE e.state = EXSTART
    BY <2>1, StateOrder DEF ProcessDD, first
  <2>2. CASE e.state = EXCHANGE
    BY <1>2, <2>2, StateOrder DEF ProcessDD
  <2>3. CASE e.state \in {LOADING, FULL}
    BY <1>3, <2>3, StateOrder DEF ProcessDD
  <2>4. CASE e.state # EXSTART /\ e.state # EXCHANGE /\ e.state \notin {LOADING, FULL}
    BY <2>4 DEF ProcessDD
  <2>q. QED
    BY <2>1, <2>2, <2>3, <2>4
<1>q. QED
  BY <1>1, <1>4

LEMMA ProcessLSRequestHolding ==
    ASSUME TypeOK, NEW n \in Node, NEW d, NEW e, Holding(e, d),
           NEW ks \in SUBSET Key, NEW s \in SeqNum
    PROVE  Holding(ProcessLSRequest(e, n, ks, s), d)
<1> DEFINE lsu == LSU({[key |-> k, inst |-> db[n][k]] : k \in ks})
<1>0. lsu \in Packet
  BY LSUType
<1>1. Holding(Emit(e, lsu), d) /\ Holding(SeqNumMismatch(e, s), d)
  <2> HIDE DEF lsu
  <2>q. QED
    BY <1>0, EmitHolding, SeqNumMismatchHolding
<1>2. ProcessLSRequest(e, n, ks, s) \in {e, SeqNumMismatch(e, s), Emit(e, lsu)}
  <2>0. e.state \in State
    BY DEF Holding, Neighbor
  <2>1. ProcessLSRequest(e, n, ks, s) =
        IF e.state < EXCHANGE THEN e
        ELSE IF \E k \in ks : db[n][k] = 0 THEN SeqNumMismatch(e, s)
        ELSE IF ks = {} THEN e ELSE Emit(e, lsu)
    BY <2>0, StateOrder DEF ProcessLSRequest
  <2> HIDE DEF lsu
  <2>q. QED
    BY <2>1
<1>q. QED
  BY <1>1, <1>2

(* An update takes its keys off the request list; what it leaves short of  *)
(* the request is struck.                                                  *)
LEMMA ProcessLSUpdateHolding ==
    ASSUME NEW d \in Database, NEW e, Holding(e, d), NEW ks \in SUBSET Key
    PROVE  Holding(ProcessLSUpdate(e, ks, d), d)
<1> DEFINE lost == {k \in ks : \E h \in e.request : h.key = k /\ d[k] < h.inst}
           f == [e EXCEPT !.request = {h \in @ : h.key \notin ks},
                          !.struck = @ \cup lost]
           g == [f EXCEPT !.state = FULL]
<1>0. /\ e \in Neighbor /\ e.told \in SUBSET Header /\ e.request \in SUBSET Header
      /\ \A h \in Header : h.key \in Key /\ h.inst \in Nat /\ d[h.key] \in Nat
  BY DEF Holding, Neighbor, Header, Database
<1>1. /\ f \in Neighbor /\ f.told = e.told /\ f.struck = e.struck \cup lost
      /\ f.request = {h \in e.request : h.key \notin ks}
  BY <1>0 DEF Neighbor
<1>2. ProcessLSUpdate(e, ks, d) =
        IF f.state = LOADING /\ f.request = {} THEN g ELSE f
  BY DEF ProcessLSUpdate, LoadingDone
<1>3. ASSUME NEW h \in e.told, NEW k \in e.request, k.key = h.key, k.inst >= h.inst
      PROVE  Held(h, d) \/ Asked(f, h)
  <2>1. CASE k.key \notin ks
    <3>1. k \in f.request
      BY <1>1, <2>1
    <3>q. QED
      BY <1>3, <3>1 DEF Asked
  <2>2. CASE k.key \in ks /\ d[k.key] < k.inst
    <3>1. h.key \in lost
      BY <1>3, <2>2
    <3>q. QED
      BY <1>1, <3>1 DEF Asked
  <2>3. CASE ~(d[k.key] < k.inst)
    <3>1. k.inst \in Nat /\ h.inst \in Nat /\ d[h.key] \in Nat
      BY <1>0
    <3>q. QED
      BY <1>3, <2>3, <3>1 DEF Held
  <2>q. QED
    BY <2>1, <2>2, <2>3
<1>4. ASSUME NEW h \in e.told PROVE Held(h, d) \/ Asked(f, h)
  <2>1. h.key \in e.struck => Asked(f, h)
    BY <1>1 DEF Asked
  <2>q. QED
    BY <1>3, <2>1 DEF Holding, Asked
<1> HIDE DEF f, lost
<1>5. Holding(f, d)
  BY <1>1, <1>4 DEF Holding
<1>q. QED
  BY <1>2, <1>5, StateType, SetStateHolding

-----------------------------------------------------------------------------
(* One lemma for each kind of step.                                        *)

LEMMA HoldHere ==
    ASSUME IInv, HoldInv, NEW n \in Node
    PROVE  /\ TypeOK /\ Holding(nbr[n], db[n]) /\ wanted[n] \in BOOLEAN
           /\ db \in [Node -> Database] /\ nbr \in [Node -> Neighbor]
  BY DEF IInv, HoldInv, TypeOK, Database

(* What a callback emits it does not keep. *)
LEMMA DoneHolding ==
    ASSUME NEW d, NEW e, Holding(e, d)
    PROVE  Holding(Done(e), d)
<1> DEFINE f == Done(e)
<1>0. <<>> \in Seq(Packet)
  OBVIOUS
<1>1. f \in Neighbor /\ f.told = e.told /\ f.request = e.request /\ f.struck = e.struck
  BY <1>0 DEF Holding, Done, Neighbor
<1> HIDE DEF f
<1>2. Holding(f, d)
  BY <1>1, AlikeHolding
<1>q. QED
  BY <1>2 DEF f

(* A callback at n that leaves n a holding object and a database that lost *)
(* nothing, and the peer as it is. *)
LEMMA HoldFrame ==
    ASSUME IInv, HoldInv, NEW n \in Node, NEW e, NEW d, Holding(e, d),
           nbr' = [nbr EXCEPT ![n] = e], db' = [db EXCEPT ![n] = d]
    PROVE  HoldInv'
<1>1. ASSUME NEW m \in Node PROVE Holding(nbr'[m], db'[m])
  <2>1. CASE m = n
    <3>1. nbr'[m] = e /\ db'[m] = d
      BY <2>1, HoldHere
    <3>q. QED
      BY <3>1
  <2>2. CASE m # n
    <3>1. nbr'[m] = nbr[m] /\ db'[m] = db[m]
      BY <2>2, HoldHere
    <3>q. QED
      BY <3>1 DEF HoldInv
  <2>q. QED
    BY <2>1, <2>2
<1>q. QED
  BY <1>1 DEF HoldInv, Holding, Held, Asked, Neighbor

LEMMA HoldDone ==
    ASSUME IInv, HoldInv, NEW n \in Node, NEW e, Holding(e, db[n]),
           nbr' = [nbr EXCEPT ![n] = Done(e)], db' = db
    PROVE  HoldInv'
<1>1. Holding(Done(e), db[n])
  BY DoneHolding
<1>2. db' = [db EXCEPT ![n] = db[n]]
  BY HoldHere
<1>q. QED
  BY <1>1, <1>2, HoldFrame

LEMMA ReceiveHelloHolds ==
    ASSUME IInv, HoldInv, NEW n \in Node, ReceiveHello(n)
    PROVE  HoldInv'
<1> DEFINE sees == Head(chan[n]).sees
           e0 == nbr[n]
           e1 == HelloReceived(e0)
           e2(s1) == CASE sees /\ e1.state = INIT -> TwoWayReceived(e1, wanted[n], s1)
                       [] ~sees /\ e1.state >= TWOWAY -> OneWay(e1)
                       [] OTHER -> e1
           e3(w1, s1) == IF Crossed(e0, e2(s1)) THEN AdjOK(e2(s1), w1, s1) ELSE e2(s1)
           e4(w1, w2, s1, s2) == AdjOK(e3(w1, s1), w2, s2)
<1>a. PICK w1 \in Outcome, w2 \in Outcome, s1 \in SeqChoice({}) :
        \E s2 \in SeqChoice({s1}) :
          nbr' = [nbr EXCEPT ![n] = Done(e4(w1, w2, s1, s2))]
  BY ZenonT(40) DEF ReceiveHello
<1>1. PICK s2 \in SeqChoice({s1}) : nbr' = [nbr EXCEPT ![n] = Done(e4(w1, w2, s1, s2))]
  BY <1>a, Zenon
<1>2. /\ w1 \in BOOLEAN /\ w2 \in BOOLEAN /\ s1 \in SeqNum /\ s2 \in SeqNum
      /\ wanted[n] \in BOOLEAN /\ Holding(e0, db[n])
  BY OutcomeType, SeqChoiceType, HoldHere
<1>3. Holding(e1, db[n])
  BY <1>2, HelloReceivedHolding
<1> HIDE DEF e1
<1>4. Holding(e2(s1), db[n])
  BY <1>2, <1>3, TwoWayReceivedHolding, OneWayHolding
<1> HIDE DEF e2
<1>5. Holding(e3(w1, s1), db[n])
  BY <1>2, <1>4, AdjOKHolding
<1> HIDE DEF e3
<1>6. Holding(e4(w1, w2, s1, s2), db[n])
  BY <1>2, <1>5, AdjOKHolding
<1> HIDE DEF e4
<1>7. db' = db
  BY DEF ReceiveHello
<1>q. QED
  BY <1>1, <1>6, <1>7, HoldDone

LEMMA ReceiveDDHolds ==
    ASSUME IInv, HoldInv, NEW n \in Node, ReceiveDD(n)
    PROVE  HoldInv'
<1> DEFINE dd == Head(chan[n])
           e0 == nbr[n]
           e1(w, s1) == IF e0.state = INIT
                          THEN AdjOK(TwoWayReceived(e0, wanted[n], s1), w, s1)
                          ELSE e0
           e2(w, s1, s2) == ProcessDD(e1(w, s1), n, dd, s2)
<1>0. Arrived(n, "DD") /\ db' = db
  BY DEF ReceiveDD
<1>1. PICK w \in Outcome, s1 \in SeqChoice({}), s2 \in SeqChoice({}) :
        nbr' = [nbr EXCEPT ![n] = Done(e2(w, s1, s2))]
  BY DEF ReceiveDD
<1>2. /\ w \in BOOLEAN /\ s1 \in SeqNum /\ s2 \in SeqNum /\ wanted[n] \in BOOLEAN
      /\ TypeOK /\ dd \in DDPacket /\ Holding(e0, db[n])
  BY <1>0, OutcomeType, SeqChoiceType, HoldHere, ArrivedType
<1> HIDE DEF dd
<1>3. Holding(e1(w, s1), db[n])
  BY <1>2, TwoWayReceivedHolding, AdjOKHolding
<1> HIDE DEF e1
<1>4. Holding(e2(w, s1, s2), db[n])
  BY <1>2, <1>3, ProcessDDHolding
<1> HIDE DEF e2
<1>q. QED
  BY <1>0, <1>1, <1>4, HoldDone

LEMMA ReceiveLSRHolds ==
    ASSUME IInv, HoldInv, NEW n \in Node, ReceiveLSR(n)
    PROVE  HoldInv'
<1> DEFINE f(s) == ProcessLSRequest(nbr[n], n, Head(chan[n]).keys, s)
<1>0. Arrived(n, "LSR") /\ db' = db
  BY DEF ReceiveLSR
<1>1. PICK s \in SeqChoice({}) : nbr' = [nbr EXCEPT ![n] = Done(f(s))]
  BY DEF ReceiveLSR
<1>2. /\ s \in SeqNum /\ TypeOK /\ Holding(nbr[n], db[n])
      /\ Head(chan[n]).keys \in SUBSET Key
  BY <1>0, SeqChoiceType, HoldHere, ArrivedType
<1>3. Holding(f(s), db[n])
  BY <1>2, ProcessLSRequestHolding
<1> HIDE DEF f
<1>q. QED
  BY <1>0, <1>1, <1>3, HoldDone

(* The update is installed first, then its keys go off the request list.   *)
LEMMA ReceiveLSUHolds ==
    ASSUME IInv, HoldInv, NEW n \in Node, ReceiveLSU(n)
    PROVE  HoldInv'
<1> DEFINE lsas == Head(chan[n]).lsas
           newer(refused) == Installable(n, lsas, refused)
           older  == {h \in lsas : h.inst < db[n][h.key]}
           answer == {[key |-> h.key, inst |-> db[n][h.key]] : h \in older}
           e0 == nbr[n]
           e1 == IF answer = {} THEN e0 ELSE Emit(e0, LSU(answer))
           took(refused, k) == nbr[n].known /\ \E h \in newer(refused) : h.key = k
           pick(refused, k) == CHOOSE h \in newer(refused) : h.key = k
           row(refused) == [k \in Key |-> IF took(refused, k)
                             THEN pick(refused, k).inst ELSE db[n][k]]
           ks == {h.key : h \in lsas}
           e2(refused) == ProcessLSUpdate(e1, ks, row(refused))
           e3(refused) == IF e0.known THEN e2(refused) ELSE e0
<1>1. PICK refused \in IF Burst THEN SUBSET Key ELSE {{}} :
        /\ nbr' = [nbr EXCEPT ![n] = Done(e3(refused))]
        /\ db' = [db EXCEPT ![n] = row(refused)]
  BY DEF ReceiveLSU
<1>2. /\ TypeOK /\ Holding(e0, db[n]) /\ lsas \in SUBSET Header
      /\ db[n] \in Database /\ \A k \in Key : db[n][k] \in Nat
  BY HoldHere, ArrivedType DEF ReceiveLSU, Database
<1>3. ASSUME NEW k \in Key PROVE row(refused)[k] \in Nat /\ row(refused)[k] >= db[n][k]
  <2>1. CASE took(refused, k)
    <3>1. pick(refused, k) \in newer(refused) /\ pick(refused, k).key = k
      BY <2>1
    <3>2. pick(refused, k).inst \in Nat /\ pick(refused, k).inst > db[n][k]
      BY <1>2, <3>1 DEF Header, Installable
    <3> HIDE DEF pick
    <3>q. QED
      BY <1>2, <2>1, <3>2
  <2>2. CASE ~took(refused, k)
    BY <1>2, <2>2
  <2>q. QED
    BY <2>1, <2>2
<1>4. row(refused) \in Database
  BY <1>3 DEF Database
<1> HIDE DEF row
<1>5. LSU(answer) \in Packet
  <2>1. \A h \in older : [key |-> h.key, inst |-> db[n][h.key]] \in Header
    BY <1>2 DEF Header
  <2>2. answer \in SUBSET Header
    BY <2>1
  <2> HIDE DEF answer
  <2>q. QED
    BY <2>2 DEF LSU, Packet
<1>6. Holding(e0, row(refused))
  BY <1>2, <1>3, <1>4, LaterHolding
<1> HIDE DEF answer
<1>7. Holding(e1, row(refused))
  BY <1>5, <1>6, EmitHolding
<1> HIDE DEF e1
<1>8. ks \in SUBSET Key
  BY <1>2 DEF Header
<1> HIDE DEF ks
<1>9. Holding(e2(refused), row(refused))
  BY <1>4, <1>7, <1>8, ProcessLSUpdateHolding
<1> HIDE DEF e2
<1>10. Holding(Done(e3(refused)), row(refused))
  BY <1>6, <1>9, DoneHolding
<1> HIDE DEF e3
<1>q. QED
  BY <1>1, <1>10, HoldFrame

LEMMA EnvironmentHolds ==
    ASSUME IInv, HoldInv, NEW n \in Node, Environment(n)
    PROVE  HoldInv'
<1>0. /\ TypeOK /\ Holding(nbr[n], db[n]) /\ db \in [Node -> Database]
      /\ db[n] \in Database /\ wanted[n] \in BOOLEAN
      /\ nbr = [nbr EXCEPT ![n] = nbr[n]] /\ db = [db EXCEPT ![n] = db[n]]
  BY HoldHere
<1>1. ASSUME LearnElsewhere(n) PROVE HoldInv'
  <2>1. PICK k \in Feed[n], i \in 1..MaxInst : i > db[n][k] /\ db' = [db EXCEPT ![n][k] = i]
    BY <1>1 DEF LearnElsewhere
  <2> DEFINE d == [db[n] EXCEPT ![k] = i]
  <2>2a. k \in Key /\ i \in Nat
    BY <2>1, ConstantsAssumption
  <2>2b. \A j \in Key : db[n][j] \in Nat
    BY <1>0 DEF Database
  <2>2. k \in Key /\ i \in Nat /\ \A j \in Key : db[n][j] \in Nat
    BY <2>2a, <2>2b
  <2>3. d \in Database /\ \A j \in Key : d[j] >= db[n][j]
    BY <1>0, <2>1, <2>2 DEF Database
  <2>4. db' = [db EXCEPT ![n] = d] /\ nbr' = [nbr EXCEPT ![n] = nbr[n]]
    BY <1>0, <1>1, <2>1 DEF LearnElsewhere
  <2> HIDE DEF d
  <2>5. Holding(nbr[n], d)
    BY <1>0, <2>3, LaterHolding
  <2>q. QED
    BY <2>4, <2>5, HoldFrame
<1>2. ASSUME Election(n) PROVE HoldInv'
  <2> DEFINE w == ~wanted[n]
             f(s) == AdjOK(nbr[n], w, s)
  <2>1. PICK s \in SeqChoice({}) : nbr' = [nbr EXCEPT ![n] = Done(f(s))]
    BY <1>2 DEF Election
  <2>2. s \in SeqNum /\ w \in BOOLEAN /\ db' = db
    BY <1>2, SeqChoiceType DEF Election
  <2> HIDE DEF w
  <2>3. Holding(f(s), db[n])
    BY <1>0, <2>2, AdjOKHolding
  <2> HIDE DEF f
  <2>q. QED
    BY <2>1, <2>2, <2>3, HoldDone
<1>3. ASSUME InactivityTimeout(n) PROVE HoldInv'
  <2>1. nbr' = [nbr EXCEPT ![n] = GoDown(nbr[n])] /\ db' = [db EXCEPT ![n] = db[n]]
    BY <1>0, <1>3 DEF InactivityTimeout
  <2>2. Holding(GoDown(nbr[n]), db[n])
    BY <1>0, GoDownHolding
  <2>q. QED
    BY <2>1, <2>2, HoldFrame
<1>4. ASSUME Restart(n) PROVE HoldInv'
  <2> DEFINE d == [k \in Key |-> IF k = OwnKey[n] THEN 1 ELSE 0]
  <2>1. nbr' = [nbr EXCEPT ![n] = NewNeighbor] /\ db' = [db EXCEPT ![n] = d]
    BY <1>4 DEF Restart
  <2>2. Holding(NewNeighbor, d)
    <3>1. NewNeighbor \in Neighbor
      BY NewNeighborSound DEF Sound
    <3>2. NewNeighbor.told = {}
      BY DEF NewNeighbor
    <3> HIDE DEF d
    <3>q. QED
      BY <3>1, <3>2, ClearedHolding
  <2> HIDE DEF d
  <2>q. QED
    BY <2>1, <2>2, HoldFrame
<1>5. ASSUME Lose(n) \/ Duplicate(n) \/ Reorder(n) PROVE HoldInv'
  <2>1. nbr' = [nbr EXCEPT ![n] = nbr[n]] /\ db' = [db EXCEPT ![n] = db[n]]
    BY <1>0, <1>5 DEF Lose, Duplicate, Reorder
  <2>q. QED
    BY <1>0, <2>1, HoldFrame
<1>q. QED
  BY <1>1, <1>2, <1>3, <1>4, <1>5 DEF Environment

(* Timers and Hellos. *)
LEMMA OtherHolds ==
    ASSUME IInv, HoldInv, NEW n \in Node,
           SendHello(n) \/ DDRetransmit(n) \/ LSRRetransmit(n)
    PROVE  HoldInv'
<1>0. /\ Holding(nbr[n], db[n])
      /\ nbr = [nbr EXCEPT ![n] = nbr[n]] /\ db = [db EXCEPT ![n] = db[n]]
  BY HoldHere
<1>1. CASE SendHello(n) \/ DDRetransmit(n)
  <2>1. nbr' = [nbr EXCEPT ![n] = nbr[n]] /\ db' = [db EXCEPT ![n] = db[n]]
    BY <1>0, <1>1 DEF SendHello, DDRetransmit
  <2>q. QED
    BY <1>0, <2>1, HoldFrame
<1>2. CASE LSRRetransmit(n)
  <2>1. nbr' = [nbr EXCEPT ![n] = Done(SendLSRequest(nbr[n]))] /\ db' = db
    BY <1>2 DEF LSRRetransmit
  <2>2. Holding(SendLSRequest(nbr[n]), db[n])
    BY <1>0, SendLSRequestHolding
  <2>q. QED
    BY <2>1, <2>2, HoldDone
<1>q. QED
  BY <1>1, <1>2

LEMMA InitHolds == Init => HoldInv
<1> SUFFICES ASSUME Init, NEW n \in Node PROVE Holding(nbr[n], db[n])
  BY DEF HoldInv
<1>1. nbr[n] = NewNeighbor /\ NewNeighbor.told = {}
  BY DEF Init, NewNeighbor
<1>2. NewNeighbor \in Neighbor
  BY NewNeighborSound DEF Sound
<1>q. QED
  BY <1>1, <1>2, ClearedHolding

LEMMA NextHolds == IInv /\ HoldInv /\ [Next]_vars => HoldInv'
<1> SUFFICES ASSUME IInv, HoldInv, [Next]_vars PROVE HoldInv'
  OBVIOUS
<1>1. CASE Next
  <2>1. PICK n \in Node : Receive(n) \/ SendHello(n) \/ DDRetransmit(n)
                           \/ LSRRetransmit(n) \/ Environment(n)
    BY <1>1 DEF Next
  <2>q. QED
    BY <2>1, ReceiveHelloHolds, ReceiveDDHolds, ReceiveLSRHolds, ReceiveLSUHolds,
       OtherHolds, EnvironmentHolds DEF Receive
<1>2. CASE UNCHANGED vars
  BY <1>2 DEF vars, HoldInv, Holding, Held, Asked, Neighbor
<1>q. QED
  BY <1>1, <1>2

(* On any link, with any refusals, restarts and elections: at a Full       *)
(* neighbour every LSA the peer described in the exchange is held, at      *)
(* least as new, unless an update or a late description struck its         *)
(* request (_process_dd_headers, process_ls_update, ExchangeDone).         *)
THEOREM NothingForgottenAlways == Spec => []NothingForgotten
<1>1. IInv /\ HoldInv => NothingForgotten
  <2> SUFFICES ASSUME IInv, HoldInv, NEW n \in Node, nbr[n].state = FULL,
                      NEW h \in nbr[n].told
               PROVE  db[n][h.key] >= h.inst \/ h.key \in nbr[n].struck
    BY DEF NothingForgotten, Remembers
  <2>1. nbr[n].request = {}
    BY DEF IInv, Sound, ArmedToRetry
  <2>q. QED
    BY <2>1, HoldHere DEF Holding, Held, Asked
<1>q. QED
  BY <1>1, InitHolds, NextHolds, Invariance, PTL DEF Spec

-----------------------------------------------------------------------------
(***************************************************************************)
(* Third part: both ends Full are at the same point of one exchange.       *)
(*                                                                         *)
(* Numbers say which exchange an object or a packet belongs to: if random  *)
(* numbers are far apart, q is a number of the exchange that began with s  *)
(* when it is less than Span above s.  For two objects and the DDs between *)
(* them, whatever the rest of the state is, Exch says that the two ends    *)
(* move in step.  Router 2 is the master a, router 1 the slave b; C1 are   *)
(* the DDs under way to the slave, polls, and C2 those to the master,      *)
(* answers.                                                                *)
(***************************************************************************)
N == Cardinality(Key)
InitDD(s) == DD(TRUE, TRUE, TRUE, s, {})

(* q is a number of the exchange that began with s. *)
Of(q, s) == s <= q /\ q < s + Span

(* Exchanges that began with different numbers share none: an exchange     *)
(* needs a number for each batch, and three to begin and to end.           *)
Apart == /\ InitSeq \subseteq Int /\ Span \in Int /\ N \in Nat /\ N + 3 <= Span
         /\ IsFiniteSet(Key)
         /\ \A s, t \in InitSeq : s < t => s + Span <= t

(* e takes part in the exchange of s; its initial DD is under way; so is   *)
(* any other DD of it.                                                     *)
Up(e, s)     == e.state >= EXCHANGE /\ Of(e.seq, s)
Called(C, s) == \E p \in C : p.I /\ p.seq = s
Talk(C, s)   == \E p \in C : ~p.I /\ Of(p.seq, s)

(* Every batch shortens the summary list, so that the number, counted from *)
(* where the exchange began, stays within Span.                            *)
MasterSince(a, s) ==
    /\ s < a.seq /\ a.seq <= s + N + 2
    /\ a.state = EXCHANGE => a.seq <= s + N + 1
    /\ a.summary = {} \/ Cardinality(a.summary) + a.seq <= s + N
MasterFit(a) ==
    /\ a.state = EXSTART => a.seq \in InitSeq /\ a.told = {}
    /\ a.state >= EXCHANGE =>
         /\ ~a.ddTimer
         /\ a.summary \subseteq a.listed /\ IsFiniteSet(a.summary)
         /\ \E s \in InitSeq : MasterSince(a, s)

SlaveSince(b, s) ==
    /\ s <= b.seq /\ b.seq <= s + N + 1
    /\ b.summary = {} \/ Cardinality(b.summary) + b.seq < s + N
SlaveFit(b) ==
    /\ b.state = EXSTART => b.seq \in InitSeq /\ b.told = {} /\ b.lastRx = None
    /\ b.state >= EXCHANGE =>
         /\ ~b.ddTimer
         /\ b.summary \subseteq b.listed /\ IsFiniteSet(b.summary)
         /\ \E s \in InitSeq : SlaveSince(b, s)
         /\ b.lastTx \in DDPacket /\ ~b.lastTx.I
         /\ b.lastTx.seq = b.seq /\ (b.lastTx.M <=> b.summary # {})
         /\ b.lastRx # None => b.lastRx[1] = b.seq /\ ~b.lastRx[2]

PollFit(p) ==
    /\ p.seq \in Int
    /\ p.I => p.seq \in InitSeq
    /\ ~p.I => \E s \in InitSeq : /\ s < p.seq /\ p.seq <= s + N + 1
                                  /\ p.M => p.seq < s + N
AnswerFit(p) ==
    /\ p.seq \in Int
    /\ ~p.I => \E s \in InitSeq : /\ s <= p.seq /\ p.seq <= s + N + 1
                                  /\ p.M => p.seq + 1 < s + N

(* While an initial DD is under way, nothing else of its exchange is, and  *)
(* the master waits.                                                       *)
CallsFirst(a, C1, C2) ==
    \A s \in InitSeq : Called(C1, s) => ~Talk(C1, s) /\ ~Talk(C2, s) /\ ~Up(a, s)

(* Of a master that waits, the slave has answered the initial DD or not    *)
(* yet: it was told nothing and has said one batch.                        *)
MasterWaits(a, b, C1) ==
    a.state = EXSTART =>
      /\ ~Talk(C1, a.seq)
      /\ Up(b, a.seq) => /\ b.seq = a.seq /\ b.state = EXCHANGE /\ b.told = {}
                         /\ b.lastTx.hdrs = b.listed \ b.summary

(* A slave in another exchange than the master is at its first number: the *)
(* master, which is in s or about to be, left t or never answered it.      *)
MasterIn(a, C2, s) == Up(a, s) \/ (a.state = EXSTART /\ a.seq = s /\ Talk(C2, s))
SlaveBehind(a, b, C1, C2) ==
    \A s, t \in InitSeq :
       s # t /\ MasterIn(a, C2, s) /\ Up(b, t) =>
         b.seq = t /\ b.state = EXCHANGE /\ ~Talk(C1, t)

(* No answer and no poll under way is ahead of the end that sent it, and   *)
(* one with its current number is the last that it sent.                   *)
AnswersInOrder(b, C2) ==
    \A s \in InitSeq : Up(b, s) =>
      \A p \in C2 : ~p.I /\ Of(p.seq, s) =>
         p.seq <= b.seq /\ (p.seq = b.seq => p = b.lastTx)

PollsInOrder(a, C1) ==
    \A s \in InitSeq : Up(a, s) =>
      \A p \in C1 : ~p.I /\ Of(p.seq, s) =>
         /\ p.seq <= a.seq
         /\ p.seq = a.seq => a.state = EXCHANGE /\ (p.M <=> a.summary # {})

(* In one exchange, the master is one poll ahead of the slave, or level    *)
(* with it and the answer is still to come: what one end was told is then  *)
(* all that the other has listed and no longer has to describe.            *)
MasterAhead(a, b, C1) ==
    /\ a.seq = b.seq + 1 /\ a.told = b.listed \ b.summary
    /\ a.state # EXCHANGE => b.summary = {} /\ b.told = a.listed
    /\ \A p \in C1 : ~p.I /\ p.seq = a.seq =>
          b.told \cup p.hdrs = a.listed \ a.summary
MasterLevel(a, b) ==
    /\ a.seq = b.seq /\ a.state = EXCHANGE
    /\ b.told = a.listed \ a.summary
    /\ a.told \cup b.lastTx.hdrs = b.listed \ b.summary
InStep(a, b, C1) ==
    \A s \in InitSeq : Up(a, s) /\ Up(b, s) => MasterAhead(a, b, C1) \/ MasterLevel(a, b)

Exch(a, b, C1, C2) ==
    /\ MasterFit(a) /\ SlaveFit(b)
    /\ \A p \in C1 : PollFit(p)
    /\ \A p \in C2 : AnswerFit(p)
    /\ CallsFirst(a, C1, C2) /\ MasterWaits(a, b, C1)
    /\ SlaveBehind(a, b, C1, C2) /\ AnswersInOrder(b, C2)
    /\ PollsInOrder(a, C1) /\ InStep(a, b, C1)

(* A number belongs to one exchange. *)
LEMMA OneBlock ==
    ASSUME Apart, NEW s \in InitSeq, NEW t \in InitSeq, NEW q \in Int, Of(q, s), Of(q, t)
    PROVE  s = t
  BY DEF Apart, Of

LEMMA MasterBlock ==
    ASSUME Apart, NEW a, a.seq \in Int, MasterFit(a), a.state >= EXCHANGE
    PROVE  \E s \in InitSeq : MasterSince(a, s) /\ Of(a.seq, s) /\ Up(a, s)
  BY DEF Apart, Of, Up, MasterFit, MasterSince

LEMMA SlaveBlock ==
    ASSUME Apart, NEW b, b.seq \in Int, SlaveFit(b), b.state >= EXCHANGE
    PROVE  \E s \in InitSeq : SlaveSince(b, s) /\ Of(b.seq, s) /\ Up(b, s)
  BY DEF Apart, Of, Up, SlaveFit, SlaveSince

(* Both ends Full. *)
LEMMA FullSame ==
    ASSUME Apart, NEW a, NEW b, NEW C1, NEW C2, a.seq \in Int, b.seq \in Int,
           a.state = FULL, b.state = FULL, a.summary = {}, Exch(a, b, C1, C2)
    PROVE  a.seq = b.seq + 1 /\ a.told = b.listed /\ b.told = a.listed
<1>0. a.state >= EXCHANGE /\ b.state >= EXCHANGE /\ b.state # EXCHANGE /\ a.state # EXCHANGE
  BY DEF FULL, EXCHANGE
<1>1. PICK s \in InitSeq : Up(a, s)
  BY <1>0, MasterBlock DEF Exch
<1>2. PICK t \in InitSeq : Up(b, t)
  BY <1>0, SlaveBlock DEF Exch
<1>3. s = t
  BY <1>0, <1>1, <1>2 DEF Exch, SlaveBehind, MasterIn
<1>4. MasterAhead(a, b, C1)
  BY <1>0, <1>1, <1>2, <1>3 DEF Exch, InStep, MasterLevel
<1>q. QED
  BY <1>0, <1>4 DEF MasterAhead

(* Losing packets. *)
LEMMA Shrink ==
    ASSUME NEW a, NEW b, NEW C1, NEW C2, NEW D1 \in SUBSET C1, NEW D2 \in SUBSET C2,
           Exch(a, b, C1, C2)
    PROVE  Exch(a, b, D1, D2)
<1>1. \A s : Called(D1, s) => Called(C1, s)
  BY DEF Called
<1>2. \A s : (Talk(D1, s) => Talk(C1, s)) /\ (Talk(D2, s) => Talk(C2, s))
  BY DEF Talk
<1>3. CallsFirst(a, D1, D2)
  BY <1>1, <1>2 DEF Exch, CallsFirst
<1>4. MasterWaits(a, b, D1)
  BY <1>2 DEF Exch, MasterWaits
<1>5. SlaveBehind(a, b, D1, D2)
  BY <1>2 DEF Exch, SlaveBehind, MasterIn
<1>6. AnswersInOrder(b, D2) /\ PollsInOrder(a, D1)
  BY DEF Exch, AnswersInOrder, PollsInOrder
<1>7. InStep(a, b, D1)
  BY DEF Exch, InStep, MasterAhead
<1>q. QED
  BY <1>3, <1>4, <1>5, <1>6, <1>7 DEF Exch

(* An end leaves the exchange, or never was in it. *)
LEMMA MasterLeaves ==
    ASSUME NEW a, NEW b, NEW C1, NEW C2, NEW f, f.state < EXSTART, f.state \in State,
           Exch(a, b, C1, C2)
    PROVE  Exch(f, b, C1, C2)
<1>1. ~(f.state >= EXCHANGE) /\ f.state # EXSTART
  BY DEF State, DOWN, INIT, TWOWAY, EXSTART, EXCHANGE, LOADING, FULL
<1>2. \A s : ~Up(f, s) /\ ~MasterIn(f, C2, s)
  BY <1>1 DEF Up, MasterIn
<1>3. MasterFit(f) /\ MasterWaits(f, b, C1)
  BY <1>1 DEF MasterFit, MasterWaits
<1>4. CallsFirst(f, C1, C2) /\ SlaveBehind(f, b, C1, C2) /\ PollsInOrder(f, C1)
      /\ InStep(f, b, C1)
  BY <1>2 DEF Exch, CallsFirst, SlaveBehind, PollsInOrder, InStep
<1>q. QED
  BY <1>3, <1>4 DEF Exch

LEMMA SlaveLeaves ==
    ASSUME NEW a, NEW b, NEW C1, NEW C2, NEW f, f.state < EXSTART, f.state \in State,
           Exch(a, b, C1, C2)
    PROVE  Exch(a, f, C1, C2)
<1>1. ~(f.state >= EXCHANGE) /\ f.state # EXSTART
  BY DEF State, DOWN, INIT, TWOWAY, EXSTART, EXCHANGE, LOADING, FULL
<1>2. \A s : ~Up(f, s)
  BY <1>1 DEF Up
<1>3. SlaveFit(f)
  BY <1>1 DEF SlaveFit
<1>4. SlaveBehind(a, f, C1, C2) /\ AnswersInOrder(f, C2) /\ MasterWaits(a, f, C1)
      /\ InStep(a, f, C1)
  BY <1>2 DEF Exch, MasterWaits, SlaveBehind, AnswersInOrder, InStep
<1>q. QED
  BY <1>3, <1>4 DEF Exch

(* An end changes nothing that counts: Loading may become Full. *)
Alike(e, f) ==
    /\ f.state = e.state \/ (e.state >= LOADING /\ f.state >= LOADING)
    /\ f.seq = e.seq /\ f.told = e.told /\ f.listed = e.listed
    /\ f.summary = e.summary /\ f.ddTimer = e.ddTimer
    /\ f.lastRx = e.lastRx /\ f.lastTx = e.lastTx

LEMMA AlikeState ==
    ASSUME NEW e, NEW f, Alike(e, f), e.state \in State, f.state \in State
    PROVE  /\ (f.state >= EXCHANGE) = (e.state >= EXCHANGE)
           /\ (f.state = EXCHANGE) = (e.state = EXCHANGE)
           /\ (f.state = EXSTART) = (e.state = EXSTART)
           /\ \A s : Up(f, s) = Up(e, s)
<1>1. /\ (f.state >= EXCHANGE) = (e.state >= EXCHANGE)
      /\ (f.state = EXCHANGE) = (e.state = EXCHANGE)
      /\ (f.state = EXSTART) = (e.state = EXSTART)
  BY DEF Alike, State, DOWN, INIT, TWOWAY, EXSTART, EXCHANGE, LOADING, FULL
<1>q. QED
  BY <1>1 DEF Up, Alike

LEMMA MasterAlike ==
    ASSUME NEW a, NEW b, NEW C1, NEW C2, NEW f, Alike(a, f),
           a.state \in State, f.state \in State, Exch(a, b, C1, C2)
    PROVE  Exch(f, b, C1, C2)
<1> USE AlikeState
<1>1. MasterFit(f) /\ MasterWaits(f, b, C1)
  BY DEF Exch, MasterFit, MasterWaits, MasterSince, Alike
<1>2. CallsFirst(f, C1, C2) /\ PollsInOrder(f, C1)
  BY DEF Exch, CallsFirst, PollsInOrder, Alike
<1>3. \A s : MasterIn(f, C2, s) = MasterIn(a, C2, s)
  BY DEF MasterIn, Alike
<1>4. SlaveBehind(f, b, C1, C2)
  BY <1>3 DEF Exch, SlaveBehind
<1>5. (MasterAhead(f, b, C1) = MasterAhead(a, b, C1)) /\ (MasterLevel(f, b) = MasterLevel(a, b))
  BY DEF MasterAhead, MasterLevel, Alike
<1>6. InStep(f, b, C1)
  BY <1>5 DEF Exch, InStep
<1>q. QED
  BY <1>1, <1>2, <1>4, <1>6 DEF Exch

LEMMA SlaveAlike ==
    ASSUME NEW a, NEW b, NEW C1, NEW C2, NEW f, Alike(b, f),
           b.state \in State, f.state \in State, Exch(a, b, C1, C2)
    PROVE  Exch(a, f, C1, C2)
<1> USE AlikeState
<1>1. SlaveFit(f) /\ MasterWaits(a, f, C1)
  BY DEF Exch, SlaveFit, MasterWaits, SlaveSince, Alike
<1>2. SlaveBehind(a, f, C1, C2) /\ AnswersInOrder(f, C2)
  BY DEF Exch, SlaveBehind, AnswersInOrder, Alike
<1>5. (MasterAhead(a, f, C1) = MasterAhead(a, b, C1)) /\ (MasterLevel(a, f) = MasterLevel(a, b))
  BY DEF MasterAhead, MasterLevel, Alike
<1>6. InStep(a, f, C1)
  BY <1>5 DEF Exch, InStep
<1>q. QED
  BY <1>1, <1>2, <1>6 DEF Exch

(* An end draws a number that nothing in the link is near, and sends the  *)
(* initial DD.                                                             *)
Unused(s, C1, C2, e) ==
    (\A p \in C1 \cup C2 : ~Of(p.seq, s)) /\ ~Of(e.seq, s)

LEMMA InitDDFields ==
    ASSUME NEW s
    PROVE  InitDD(s).I /\ InitDD(s).M /\ InitDD(s).seq = s
  BY DEF InitDD, DD

LEMMA CalledMore ==
    ASSUME NEW C, NEW s
    PROVE  /\ \A t : Talk(C \cup {InitDD(s)}, t) = Talk(C, t)
           /\ \A t : Called(C \cup {InitDD(s)}, t) = (Called(C, t) \/ t = s)
  BY InitDDFields DEF Talk, Called

LEMMA MasterDraws ==
    ASSUME Apart, NEW a, NEW b, NEW C1, NEW C2, NEW f, NEW s \in InitSeq,
           Unused(s, C1, C2, b), Exch(a, b, C1, C2),
           f.state = EXSTART, f.seq = s, f.told = {}
    PROVE  Exch(f, b, C1 \cup {InitDD(s)}, C2)
<1> DEFINE D == C1 \cup {InitDD(s)}
<1>1. (\A t : Talk(D, t) = Talk(C1, t)) /\ (\A t : Called(D, t) = (Called(C1, t) \/ t = s))
  BY CalledMore
<1>2. \A t : ~Up(f, t)
  BY DEF Up, EXSTART, EXCHANGE
<1>3. ~Talk(C1, s) /\ ~Talk(C2, s) /\ ~Up(b, s)
  BY DEF Unused, Talk, Up
<1>4. MasterFit(f)
  BY DEF MasterFit, EXSTART, EXCHANGE
<1>5. \A p \in D : PollFit(p)
  BY InitDDFields DEF Exch, PollFit, Apart
<1> HIDE DEF D
<1>6. CallsFirst(f, D, C2)
  BY <1>1, <1>2, <1>3 DEF Exch, CallsFirst
<1>7. MasterWaits(f, b, D)
  BY <1>1, <1>3 DEF MasterWaits
<1>8. \A t \in InitSeq : ~MasterIn(f, C2, t)
  BY <1>2, <1>3 DEF MasterIn
<1>9. SlaveBehind(f, b, D, C2) /\ PollsInOrder(f, D) /\ InStep(f, b, D)
  BY <1>2, <1>8 DEF SlaveBehind, PollsInOrder, InStep
<1>q. QED
  BY <1>4, <1>5, <1>6, <1>7, <1>9 DEF Exch, D

LEMMA SlaveDraws ==
    ASSUME Apart, NEW a, NEW b, NEW C1, NEW C2, NEW f, NEW s \in InitSeq,
           Exch(a, b, C1, C2),
           f.state = EXSTART, f.seq = s, f.told = {}, f.lastRx = None
    PROVE  Exch(a, f, C1, C2 \cup {InitDD(s)})
<1> DEFINE D == C2 \cup {InitDD(s)}
<1>1. \A t : Talk(D, t) = Talk(C2, t)
  BY CalledMore
<1>2. \A t : ~Up(f, t)
  BY DEF Up, EXSTART, EXCHANGE
<1>4. SlaveFit(f)
  BY DEF SlaveFit, EXSTART, EXCHANGE
<1>5. \A p \in D : AnswerFit(p)
  BY InitDDFields DEF Exch, AnswerFit, Apart
<1> HIDE DEF D
<1>6. CallsFirst(a, C1, D)
  BY <1>1 DEF Exch, CallsFirst
<1>7. MasterWaits(a, f, C1)
  BY <1>2 DEF Exch, MasterWaits
<1>9. SlaveBehind(a, f, C1, D) /\ AnswersInOrder(f, D) /\ InStep(a, f, C1)
  BY <1>2 DEF SlaveBehind, AnswersInOrder, InStep
<1>q. QED
  BY <1>4, <1>5, <1>6, <1>7, <1>9 DEF Exch, D

(* A master in ExStart repeats its initial DD on a quiet link. *)
LEMMA MasterRepeats ==
    ASSUME Apart, NEW a, NEW b, a.state = EXSTART, Exch(a, b, {}, {})
    PROVE  Exch(a, b, {InitDD(a.seq)}, {})
<1> DEFINE D == {InitDD(a.seq)}
<1>1. (\A t : ~Talk(D, t)) /\ (\A t : ~Talk({}, t)) /\ (\A t : Called(D, t) => t = a.seq)
  BY InitDDFields DEF Talk, Called
<1>2. \A t : ~Up(a, t)
  BY DEF Up, EXSTART, EXCHANGE
<1>5. \A p \in D : PollFit(p)
  BY InitDDFields DEF Exch, MasterFit, PollFit, Apart
<1> HIDE DEF D
<1>6. CallsFirst(a, D, {})
  BY <1>1, <1>2 DEF CallsFirst
<1>7. MasterWaits(a, b, D)
  BY <1>1 DEF Exch, MasterWaits
<1>9. SlaveBehind(a, b, D, {}) /\ PollsInOrder(a, D) /\ InStep(a, b, D)
  BY <1>1, <1>2 DEF SlaveBehind, MasterIn, PollsInOrder, InStep
<1>q. QED
  BY <1>5, <1>6, <1>7, <1>9 DEF Exch, D

(* One packet more under way, that belongs to the exchange of s. *)
LEMMA SaidMore ==
    ASSUME Apart, NEW C, NEW p, ~p.I, p.seq \in Int, NEW s \in InitSeq, Of(p.seq, s)
    PROVE  /\ \A t \in InitSeq : Talk(C \cup {p}, t) = (Talk(C, t) \/ t = s)
           /\ \A t : Called(C \cup {p}, t) = Called(C, t)
<1>1. \A t \in InitSeq : Of(p.seq, t) => t = s
  BY OneBlock
<1>q. QED
  BY <1>1 DEF Talk, Called

(* The slave sends its last DD again: a poll of its exchange is under way. *)
LEMMA SlaveRepeats ==
    ASSUME Apart, NEW a, NEW b, NEW C1, NEW C2, Exch(a, b, C1, C2), b.seq \in Int,
           b.state >= EXCHANGE, NEW dd \in C1, ~dd.I, dd.seq = b.seq
    PROVE  Exch(a, b, C1, C2 \cup {b.lastTx})
<1> DEFINE p == b.lastTx
           D == C2 \cup {p}
<1>1. ~p.I /\ p.seq = b.seq /\ (p.M <=> b.summary # {}) /\ p.seq \in Int
  BY DEF Exch, SlaveFit
<1>2. PICK s \in InitSeq : SlaveSince(b, s) /\ Of(b.seq, s) /\ Up(b, s)
  BY SlaveBlock DEF Exch
<1>3. (\A t \in InitSeq : Talk(D, t) = (Talk(C2, t) \/ t = s)) /\ Talk(C1, s)
  <2>1. Of(p.seq, s)
    BY <1>1, <1>2
  <2> HIDE DEF p
  <2>2. \A t \in InitSeq : Talk(D, t) = (Talk(C2, t) \/ t = s)
    BY <1>1, <2>1, SaidMore
  <2>q. QED
    BY <2>2, <1>2 DEF Talk
<1>4. AnswerFit(p)
  <2>1. b.summary # {} => b.seq + 1 < s + N
    <3>1. b.summary # {} => Cardinality(b.summary) \in Nat /\ Cardinality(b.summary) # 0
      BY FS_CardinalityType, FS_EmptySet DEF Exch, SlaveFit
    <3>2. b.summary # {} => Cardinality(b.summary) + b.seq < s + N
      BY <1>2 DEF SlaveSince
    <3>3. s \in Int /\ N \in Nat
      BY DEF Apart
    <3>q. QED
      BY <3>1, <3>2, <3>3
  <2>q. QED
    BY <1>1, <1>2, <2>1 DEF AnswerFit, SlaveSince
<1>5. \A q \in D : AnswerFit(q)
  BY <1>4 DEF Exch
<1>6. CallsFirst(a, C1, D)
  BY <1>3 DEF Exch, CallsFirst
<1>7. SlaveBehind(a, b, C1, D)
  <2> SUFFICES ASSUME NEW t \in InitSeq, NEW u \in InitSeq, t # u,
                      MasterIn(a, D, t), Up(b, u)
               PROVE  b.seq = u /\ b.state = EXCHANGE /\ ~Talk(C1, u)
    BY DEF SlaveBehind
  <2>1. u = s
    BY <1>2, OneBlock DEF Up
  <2>2. MasterIn(a, C2, t)
    BY <1>3, <2>1 DEF MasterIn
  <2>q. QED
    BY <2>2 DEF Exch, SlaveBehind
<1>8. AnswersInOrder(b, D)
  BY <1>1 DEF Exch, AnswersInOrder
<1> HIDE DEF D
<1>q. QED
  BY <1>5, <1>6, <1>7, <1>8 DEF Exch, D

(* A slave in ExStart accepts the initial DD dd, which leaves the link. *)
SlaveBegun(f, dd) ==
    /\ f.state = EXCHANGE /\ f.seq = dd.seq /\ f.told = {} /\ ~f.ddTimer
    /\ f.summary \subseteq f.listed /\ IsFiniteSet(f.summary)
    /\ f.summary = {} \/ Cardinality(f.summary) < N
    /\ f.lastTx \in DDPacket /\ ~f.lastTx.I /\ f.lastTx.seq = f.seq
    /\ (f.lastTx.M <=> f.summary # {}) /\ f.lastTx.hdrs = f.listed \ f.summary
    /\ f.lastRx # None => f.lastRx[1] = f.seq /\ ~f.lastRx[2]

LEMMA SlaveStarts ==
    ASSUME Apart, NEW a, NEW b, NEW C1, NEW C2, Exch(a, b, C1, C2),
           NEW dd \in C1, dd.I, NEW f, SlaveBegun(f, dd), a.seq \in Int,
           NEW D1 \in SUBSET C1, \A p \in D1 : p.I => p.seq # dd.seq
    PROVE  Exch(a, f, D1, C2 \cup {f.lastTx})
<1> DEFINE p == f.lastTx
           s == dd.seq
           D == C2 \cup {p}
<1>0. f.state >= EXCHANGE /\ f.state # EXSTART
  BY DEF SlaveBegun, EXCHANGE, EXSTART
<1>1. ~p.I /\ p.seq = s /\ (p.M <=> f.summary # {}) /\ s \in InitSeq /\ s \in Int
  BY DEF SlaveBegun, Exch, PollFit, Apart
<1>2. Called(C1, s) /\ Of(s, s)
  BY <1>1 DEF Called, Of, Apart
<1>3. ~Talk(C1, s) /\ ~Talk(C2, s) /\ ~Up(a, s)
  BY <1>1, <1>2 DEF Exch, CallsFirst
<1>4. \A t \in InitSeq : Talk(D, t) = (Talk(C2, t) \/ t = s)
  <2>1. Of(p.seq, s) /\ p.seq \in Int
    BY <1>1, <1>2
  <2> HIDE DEF p
  <2>q. QED
    BY <1>1, <2>1, SaidMore
<1>5. \A t : (Talk(D1, t) => Talk(C1, t)) /\ (Called(D1, t) => Called(C1, t) /\ t # s)
  BY DEF Talk, Called
<1>6. \A t \in InitSeq : Up(f, t) => t = s
  BY <1>1, <1>2, OneBlock DEF Up, SlaveBegun
<1>7. f.summary # {} => Cardinality(f.summary) \in Nat /\ Cardinality(f.summary) # 0
  BY FS_CardinalityType, FS_EmptySet DEF SlaveBegun
<1>8. SlaveSince(f, s)
  BY <1>1, <1>7 DEF SlaveSince, SlaveBegun, Apart
<1>9. SlaveFit(f)
  BY <1>0, <1>1, <1>8 DEF SlaveFit, SlaveBegun
<1>10. AnswerFit(p)
  <2>0. N \in Nat
    BY DEF Apart
  <2>a. f.summary # {} => Cardinality(f.summary) < N
    BY DEF SlaveBegun
  <2>b. f.summary # {} => 1 < N
    BY <1>7, <2>0, <2>a
  <2>1. p.M => p.seq + 1 < s + N
    BY <1>1, <2>0, <2>b
  <2>2. s <= p.seq /\ p.seq <= s + N + 1
    BY <1>1, <2>0
  <2>q. QED
    BY <1>1, <2>1, <2>2 DEF AnswerFit
<1>11. \A q \in D : AnswerFit(q)
  BY <1>10 DEF Exch
<1>12. CallsFirst(a, D1, D)
  BY <1>4, <1>5 DEF Exch, CallsFirst
<1>13. MasterWaits(a, f, D1)
  <2>1. a.state = EXSTART /\ Up(f, a.seq) => a.seq = s
    BY <1>6 DEF Exch, MasterFit
  <2>q. QED
    BY <2>1, <1>5 DEF Exch, MasterWaits, SlaveBegun
<1>14. SlaveBehind(a, f, D1, D)
  BY <1>3, <1>5, <1>6 DEF SlaveBehind, SlaveBegun
<1>15. AnswersInOrder(f, D)
  BY <1>1, <1>3, <1>6 DEF AnswersInOrder, Talk, SlaveBegun
<1>16. PollsInOrder(a, D1)
  BY DEF Exch, PollsInOrder
<1>17. InStep(a, f, D1)
  BY <1>3, <1>6 DEF InStep
<1> HIDE DEF D
<1>q. QED
  BY <1>5, <1>9, <1>11, <1>12, <1>13, <1>14, <1>15, <1>16, <1>17 DEF Exch, D

(* What an end does with a batch: what it describes leaves the list. *)
Shorter(S, R) ==
    /\ R \subseteq S /\ IsFiniteSet(R)
    /\ R = {} \/ Cardinality(R) + 1 <= Cardinality(S)

(* A slave in Exchange accepts the next poll dd and answers it. *)
SlaveAnswered(b, f, dd) ==
    /\ f.state >= EXCHANGE /\ f.state # EXSTART
    /\ f.seq = dd.seq /\ f.told = b.told \cup dd.hdrs
    /\ ~f.ddTimer /\ f.listed = b.listed /\ Shorter(b.summary, f.summary)
    /\ f.lastTx \in DDPacket /\ ~f.lastTx.I /\ f.lastTx.seq = f.seq
    /\ (f.lastTx.M <=> f.summary # {}) /\ f.lastTx.hdrs = b.summary \ f.summary
    /\ f.lastRx # None => f.lastRx[1] = f.seq /\ ~f.lastRx[2]

LEMMA SlaveGoes ==
    ASSUME Apart, NEW a, NEW b, NEW C1, NEW C2, Exch(a, b, C1, C2),
           a.seq \in Int, b.seq \in Int, a.state \in State,
           b.state = EXCHANGE, NEW dd \in C1, ~dd.I, dd.seq = b.seq + 1,
           NEW f, SlaveAnswered(b, f, dd)
    PROVE  Exch(a, f, C1, C2 \cup {f.lastTx})
<1> DEFINE p == f.lastTx
           D == C2 \cup {p}
<1>0. b.state >= EXCHANGE /\ f.state >= EXCHANGE /\ f.state # EXSTART
  BY DEF SlaveAnswered, EXCHANGE, EXSTART
<1>1. ~p.I /\ p.seq = dd.seq /\ (p.M <=> f.summary # {}) /\ p.seq \in Int /\ f.seq = dd.seq
  BY DEF SlaveAnswered
<1>2. PICK s \in InitSeq : SlaveSince(b, s) /\ Of(b.seq, s) /\ Up(b, s)
  BY <1>0, SlaveBlock DEF Exch
<1>3. Of(dd.seq, s) /\ s \in Int /\ N \in Nat /\ dd.seq \in Int
  BY <1>2 DEF SlaveSince, Of, Apart
<1>4. dd.seq <= s + N + 1
  <2>1. PICK t \in InitSeq : t < dd.seq /\ dd.seq <= t + N + 1
    BY DEF Exch, PollFit
  <2>2. Of(dd.seq, t)
    BY <2>1, <1>3 DEF Of, Apart
  <2>3. s = t
    BY <1>3, <2>2, OneBlock
  <2>q. QED
    BY <2>1, <2>3
<1>5. (\A t \in InitSeq : Talk(D, t) = (Talk(C2, t) \/ t = s)) /\ Talk(C1, s)
  <2>1. \A t \in InitSeq : Talk(D, t) = (Talk(C2, t) \/ t = s)
    <3>1. Of(p.seq, s)
      BY <1>1, <1>3
    <3> HIDE DEF p
    <3>q. QED
      BY <1>1, <3>1, SaidMore
  <2>2. Talk(C1, s)
    BY <1>3 DEF Talk
  <2>q. QED
    BY <2>1, <2>2
<1>6. \A t \in InitSeq : (Up(f, t) => t = s) /\ (Up(b, t) => t = s)
  BY <1>1, <1>2, <1>3, OneBlock DEF Up
<1>7. f.summary # {} => Cardinality(f.summary) + f.seq < s + N /\ Cardinality(f.summary) \in Nat
                        /\ Cardinality(f.summary) # 0
  <2>1. IsFiniteSet(b.summary) /\ IsFiniteSet(f.summary) /\ (f.summary # {} => b.summary # {})
    BY <1>0 DEF Exch, SlaveFit, SlaveAnswered, Shorter
  <2>2. Cardinality(b.summary) \in Nat /\ Cardinality(f.summary) \in Nat
        /\ (f.summary # {} => Cardinality(f.summary) # 0)
    BY <2>1, FS_CardinalityType, FS_EmptySet
  <2>3. f.summary # {} => Cardinality(f.summary) + 1 <= Cardinality(b.summary)
    BY DEF SlaveAnswered, Shorter
  <2>4. f.summary # {} => Cardinality(b.summary) + b.seq < s + N
    BY <1>2, <2>1 DEF SlaveSince
  <2>q. QED
    BY <1>1, <1>3, <2>2, <2>3, <2>4
<1>8. SlaveSince(f, s)
  BY <1>1, <1>3, <1>4, <1>7 DEF SlaveSince, Of
<1>9. SlaveFit(f)
  <2>1. f.summary \subseteq f.listed /\ IsFiniteSet(f.summary)
    BY <1>0 DEF Exch, SlaveFit, SlaveAnswered, Shorter
  <2>q. QED
    BY <1>0, <1>8, <2>1 DEF SlaveFit, SlaveAnswered
<1>10. AnswerFit(p)
  <2>1. s <= p.seq /\ p.seq <= s + N + 1
    BY <1>1, <1>3, <1>4 DEF Of
  <2>2. f.summary # {} => f.seq + 1 < s + N
    <3> DEFINE c == Cardinality(f.summary)
    <3>1. f.summary # {} => c + f.seq < s + N /\ c \in Nat /\ c # 0
      BY <1>7
    <3>2. f.seq \in Int
      BY <1>1
    <3> HIDE DEF c
    <3>q. QED
      BY <1>3, <3>1, <3>2
  <2>q. QED
    BY <1>1, <2>1, <2>2 DEF AnswerFit
<1>11. \A q \in D : AnswerFit(q)
  BY <1>10 DEF Exch
<1>12. CallsFirst(a, C1, D)
  BY <1>5 DEF Exch, CallsFirst
<1>13. MasterWaits(a, f, C1)
  BY <1>5, <1>6 DEF Exch, MasterFit, MasterWaits
<1>14. SlaveBehind(a, f, C1, D)
  <2> SUFFICES ASSUME NEW t \in InitSeq, NEW u \in InitSeq, t # u,
                      MasterIn(a, D, t), Up(f, u)
               PROVE  FALSE
    BY DEF SlaveBehind
  <2>1. u = s
    BY <1>6
  <2>2. MasterIn(a, C2, t)
    BY <1>5, <2>1 DEF MasterIn
  <2>q. QED
    BY <1>2, <1>5, <2>1, <2>2 DEF Exch, SlaveBehind
<1>15. AnswersInOrder(f, D)
  <2>1. ASSUME NEW q \in C2, ~q.I, Of(q.seq, s)
        PROVE  q.seq <= f.seq /\ q.seq # f.seq
    <3>1. q.seq <= b.seq /\ q.seq \in Int
      BY <1>2, <2>1 DEF Exch, AnswersInOrder, AnswerFit
    <3>q. QED
      BY <1>1, <3>1
  <2>2. p.seq <= f.seq
    BY <1>1
  <2>q. QED
    BY <1>6, <2>1, <2>2 DEF AnswersInOrder
<1>16. InStep(a, f, C1)
  <2> SUFFICES ASSUME Up(a, s)
               PROVE  MasterLevel(a, f)
    BY <1>6 DEF InStep
  <2>1. dd.seq <= a.seq /\ (dd.seq = a.seq => a.state = EXCHANGE)
    BY <1>3 DEF Exch, PollsInOrder
  <2>2. MasterAhead(a, b, C1)
    BY <1>2, <2>1 DEF Exch, InStep, MasterLevel
  <2>3. a.seq = f.seq /\ a.state = EXCHANGE
    BY <1>1, <2>1, <2>2 DEF MasterAhead
  <2>4. f.told = a.listed \ a.summary
    BY <1>1, <2>2, <2>3 DEF MasterAhead, SlaveAnswered
  <2>5. a.told \cup p.hdrs = f.listed \ f.summary
    <3>1. a.told = b.listed \ b.summary /\ b.summary \subseteq b.listed
      BY <1>0, <2>2 DEF MasterAhead, Exch, SlaveFit
    <3>2. f.listed = b.listed /\ p.hdrs = b.summary \ f.summary /\ f.summary \subseteq b.summary
      BY DEF SlaveAnswered, Shorter
    <3>q. QED
      BY <3>1, <3>2
  <2>q. QED
    BY <2>3, <2>4, <2>5 DEF MasterLevel
<1> HIDE DEF D
<1>q. QED
  BY <1>9, <1>11, <1>12, <1>13, <1>14, <1>15, <1>16 DEF Exch, D

(* A poll of the master, with the part of the list S that f has no more. *)
Poll(p, f, S) ==
    /\ ~p.I /\ p.seq = f.seq /\ (p.M <=> f.summary # {})
    /\ p.hdrs = S \ f.summary

LEMMA PolledMore ==
    ASSUME Apart, NEW C, NEW D, NEW f, NEW S, f.seq \in Int,
           NEW s \in InitSeq, Of(f.seq, s), \A p \in D : p \in C \/ Poll(p, f, S)
    PROVE  /\ \A t \in InitSeq : Talk(D, t) => Talk(C, t) \/ t = s
           /\ \A t : Called(D, t) => Called(C, t)
<1>1. \A t \in InitSeq : Of(f.seq, t) => t = s
  BY OneBlock
<1>q. QED
  BY <1>1 DEF Talk, Called, Poll

LEMMA PollsFit ==
    ASSUME Apart, NEW f, NEW S, f.seq \in Int, NEW s \in InitSeq, s < f.seq,
           f.seq <= s + N + 1, IsFiniteSet(f.summary),
           f.summary = {} \/ Cardinality(f.summary) + f.seq <= s + N,
           NEW p, Poll(p, f, S)
    PROVE  PollFit(p)
<1> DEFINE c == Cardinality(f.summary)
<1>1. c \in Nat /\ (f.summary # {} => c # 0)
  BY FS_CardinalityType, FS_EmptySet
<1>2. f.summary # {} => c + f.seq <= s + N
  OBVIOUS
<1>3. s \in Int /\ N \in Nat
  BY DEF Apart
<1> HIDE DEF c
<1>4. f.summary # {} => f.seq < s + N
  BY <1>1, <1>2, <1>3
<1>q. QED
  BY <1>4 DEF PollFit, Poll

(* A master in ExStart is answered with its own number: it has begun. *)
MasterBegun(f, s, dd) ==
    /\ f.state = EXCHANGE /\ f.seq = s + 1 /\ f.told = dd.hdrs /\ ~f.ddTimer
    /\ f.summary \subseteq f.listed /\ IsFiniteSet(f.summary)
    /\ f.summary = {} \/ Cardinality(f.summary) < N

LEMMA MasterStarts ==
    ASSUME Apart, NEW a, NEW b, NEW C1, NEW C2, Exch(a, b, C1, C2),
           a.state = EXSTART, b.seq \in Int, NEW dd \in C2, ~dd.I, dd.seq = a.seq,
           NEW f, MasterBegun(f, a.seq, dd),
           NEW D, \A p \in D : p \in C1 \/ Poll(p, f, f.listed)
    PROVE  Exch(f, b, D, C2)
<1> DEFINE s == a.seq
<1>0. f.state >= EXCHANGE /\ f.state # EXSTART /\ ~(f.state # EXCHANGE)
  BY DEF MasterBegun, EXCHANGE, EXSTART
<1>1. s \in InitSeq /\ s \in Int /\ N \in Nat /\ Of(s, s) /\ f.seq = s + 1
      /\ f.seq \in Int /\ Of(f.seq, s)
  <2>1. s \in InitSeq
    BY DEF Exch, MasterFit
  <2>2. s \in Int /\ N \in Nat /\ Span \in Int /\ N + 3 <= Span
    BY <2>1 DEF Apart
  <2>3. f.seq = s + 1
    BY DEF MasterBegun
  <2>q. QED
    BY <2>1, <2>2, <2>3 DEF Of
<1>2. (\A t \in InitSeq : Talk(D, t) => Talk(C1, t) \/ t = s)
      /\ (\A t : Called(D, t) => Called(C1, t))
  BY <1>1, PolledMore
<1>3. ~Talk(C1, s) /\ Talk(C2, s)
  BY <1>1 DEF Exch, MasterWaits, Talk
<1>4. \A t \in InitSeq : Up(f, t) => t = s
  BY <1>1, OneBlock DEF Up
<1>5. f.summary # {} => Cardinality(f.summary) \in Nat /\ Cardinality(f.summary) + f.seq <= s + N
  <2>1. f.summary # {} => Cardinality(f.summary) \in Nat /\ Cardinality(f.summary) < N
    BY FS_CardinalityType DEF MasterBegun
  <2>q. QED
    BY <1>1, <2>1
<1>6. MasterSince(f, s)
  BY <1>1, <1>5 DEF MasterSince
<1>7. MasterFit(f)
  BY <1>0, <1>1, <1>6 DEF MasterFit, MasterBegun
<1>8. ASSUME NEW p \in D
      PROVE  PollFit(p)
  <2>1. CASE p \in C1
    BY <2>1 DEF Exch
  <2>2. CASE Poll(p, f, f.listed)
    <3>1. s < f.seq /\ f.seq <= s + N + 1 /\ IsFiniteSet(f.summary)
      BY <1>1 DEF MasterBegun
    <3>q. QED
      BY <1>1, <1>5, <3>1, <2>2, PollsFit
  <2>q. QED
    BY <2>1, <2>2
<1>9. CallsFirst(f, D, C2)
  <2>1. ~Called(C1, s)
    BY <1>1, <1>3 DEF Exch, CallsFirst
  <2>q. QED
    BY <1>2, <1>4, <2>1 DEF Exch, CallsFirst
<1>10. MasterWaits(f, b, D)
  BY <1>0 DEF MasterWaits
<1>11. SlaveBehind(f, b, D, C2)
  <2> SUFFICES ASSUME NEW u \in InitSeq, u # s, Up(b, u)
               PROVE  b.seq = u /\ b.state = EXCHANGE /\ ~Talk(D, u)
    BY <1>0, <1>4 DEF SlaveBehind, MasterIn
  <2>1. MasterIn(a, C2, s)
    BY <1>3 DEF MasterIn
  <2>q. QED
    BY <1>1, <1>2, <2>1 DEF Exch, SlaveBehind
<1>12. \A p \in D : ~p.I /\ Of(p.seq, s) => Poll(p, f, f.listed)
  BY <1>3 DEF Talk
<1>13. PollsInOrder(f, D)
  BY <1>0, <1>1, <1>4, <1>12 DEF PollsInOrder, Poll
<1>14. InStep(f, b, D)
  <2> SUFFICES ASSUME Up(b, s)
               PROVE  MasterAhead(f, b, D)
    BY <1>4 DEF InStep
  <2>1. /\ b.seq = s /\ b.state = EXCHANGE /\ b.told = {}
        /\ b.lastTx.hdrs = b.listed \ b.summary
    BY DEF Exch, MasterWaits
  <2>2. dd = b.lastTx
    BY <1>1, <2>1 DEF Exch, AnswersInOrder
  <2>3. f.seq = b.seq + 1 /\ f.told = b.listed \ b.summary
    BY <1>1, <2>1, <2>2 DEF MasterBegun
  <2>4. \A p \in D : ~p.I /\ p.seq = f.seq => b.told \cup p.hdrs = f.listed \ f.summary
    BY <1>1, <1>12, <2>1 DEF Poll
  <2>q. QED
    BY <1>0, <2>3, <2>4 DEF MasterAhead
<1>q. QED
  BY <1>7, <1>8, <1>9, <1>10, <1>11, <1>13, <1>14 DEF Exch

(* A master in Exchange is answered: it goes on, or it is done. *)
MasterAnswered(a, f, dd) ==
    /\ f.state >= EXCHANGE /\ f.state # EXSTART
    /\ f.seq = a.seq + 1 /\ f.told = a.told \cup dd.hdrs
    /\ ~f.ddTimer /\ f.listed = a.listed /\ Shorter(a.summary, f.summary)
    /\ f.state = EXCHANGE => dd.M \/ a.summary # {}
    /\ f.state # EXCHANGE => ~dd.M /\ a.summary = {}

LEMMA MasterGoes ==
    ASSUME Apart, NEW a, NEW b, NEW C1, NEW C2, Exch(a, b, C1, C2),
           a.state = EXCHANGE, a.seq \in Int, b.seq \in Int,
           NEW dd \in C2, ~dd.I, dd.seq = a.seq, NEW f, MasterAnswered(a, f, dd),
           NEW D, \A p \in D : p \in C1 \/ (f.state = EXCHANGE /\ Poll(p, f, a.summary))
    PROVE  Exch(f, b, D, C2)
<1>0. a.state >= EXCHANGE /\ f.state >= EXCHANGE /\ f.state # EXSTART
  BY DEF MasterAnswered, EXCHANGE, EXSTART
<1>1. PICK s \in InitSeq : MasterSince(a, s) /\ Of(a.seq, s) /\ Up(a, s)
  BY <1>0, MasterBlock DEF Exch
<1>2. s \in Int /\ N \in Nat /\ N + 3 <= Span /\ Span \in Int /\ s < a.seq /\ f.seq = a.seq + 1 /\ f.seq \in Int
  BY <1>1 DEF Apart, MasterSince, MasterAnswered
<1>3. a.summary \subseteq a.listed /\ IsFiniteSet(a.summary) /\ f.summary \subseteq a.summary
      /\ IsFiniteSet(f.summary)
  BY <1>0 DEF Exch, MasterFit, MasterAnswered, Shorter
<1> DEFINE c == Cardinality(a.summary)
           d == Cardinality(f.summary)
<1>4. c \in Nat /\ d \in Nat /\ (a.summary # {} => c # 0) /\ (f.summary # {} => d # 0)
  BY <1>3, FS_CardinalityType, FS_EmptySet
<1>5. (a.summary # {} => c + a.seq <= s + N) /\ (f.summary # {} => d + 1 <= c /\ a.summary # {})
  BY <1>1, <1>3 DEF MasterSince, MasterAnswered, Shorter
<1>6. dd.M => a.seq + 1 < s + N
  <2>1. SUFFICES ASSUME dd.M
                 PROVE  a.seq + 1 < s + N
    OBVIOUS
  <2>2. PICK t \in InitSeq : t <= dd.seq /\ dd.seq <= t + N + 1 /\ dd.seq + 1 < t + N
    BY <2>1 DEF Exch, AnswerFit
  <2>3. Of(a.seq, t)
    BY <1>2, <2>2 DEF Of, Apart
  <2>4. s = t
    BY <1>1, <2>3, OneBlock
  <2>q. QED
    BY <2>2, <2>4
<1> HIDE DEF c, d
<1>7. f.state = EXCHANGE => f.seq <= s + N + 1
  <2>1. a.summary # {} => a.seq + 1 <= s + N
    BY <1>2, <1>4, <1>5
  <2>q. QED
    BY <1>2, <1>6, <2>1 DEF MasterAnswered
<1>8. f.summary # {} => d + f.seq <= s + N
  BY <1>2, <1>4, <1>5
<1>9. f.seq <= s + N + 2 /\ s < f.seq /\ Of(f.seq, s)
  <2>1. a.seq <= s + N + 1
    BY <1>1 DEF MasterSince
  <2>q. QED
    BY <1>2, <2>1 DEF Of
<1>10. MasterSince(f, s)
  BY <1>7, <1>8, <1>9 DEF MasterSince, d
<1>11. MasterFit(f)
  BY <1>0, <1>3, <1>10 DEF MasterFit, MasterAnswered
<1>12. ASSUME NEW p \in D
       PROVE  PollFit(p)
  <2>1. CASE p \in C1
    BY <2>1 DEF Exch
  <2>2. CASE f.state = EXCHANGE /\ Poll(p, f, a.summary)
    BY <1>2, <1>3, <1>7, <1>8, <1>9, <2>2, PollsFit DEF d
  <2>q. QED
    BY <2>1, <2>2
<1>13. (\A t \in InitSeq : Talk(D, t) => Talk(C1, t) \/ t = s)
      /\ (\A t : Called(D, t) => Called(C1, t))
  <2>1. \A p \in D : p \in C1 \/ Poll(p, f, a.summary)
    OBVIOUS
  <2>q. QED
    BY <1>2, <1>9, <2>1, PolledMore
<1>14. \A t \in InitSeq : Up(f, t) => t = s
  BY <1>2, <1>9, OneBlock DEF Up
<1>15. CallsFirst(f, D, C2)
  <2>1. ~Called(C1, s)
    BY <1>1 DEF Exch, CallsFirst
  <2>q. QED
    BY <1>13, <1>14, <2>1 DEF Exch, CallsFirst
<1>16. MasterWaits(f, b, D)
  BY <1>0 DEF MasterWaits
<1>17. SlaveBehind(f, b, D, C2)
  <2> SUFFICES ASSUME NEW u \in InitSeq, u # s, Up(b, u)
               PROVE  b.seq = u /\ b.state = EXCHANGE /\ ~Talk(D, u)
    BY <1>0, <1>14 DEF SlaveBehind, MasterIn
  <2>1. MasterIn(a, C2, s)
    BY <1>1 DEF MasterIn
  <2>q. QED
    BY <1>13, <2>1 DEF Exch, SlaveBehind
<1>18. ASSUME NEW p \in D, ~p.I, Of(p.seq, s)
       PROVE  \/ p.seq <= f.seq /\ p.seq # f.seq
              \/ f.state = EXCHANGE /\ Poll(p, f, a.summary)
  <2>1. CASE p \in C1
    <3>1. p.seq <= a.seq /\ p.seq \in Int
      BY <1>1, <1>18, <2>1 DEF Exch, PollsInOrder, PollFit
    <3>q. QED
      BY <1>2, <3>1
  <2>q. QED
    BY <2>1
<1>19. PollsInOrder(f, D)
  BY <1>2, <1>14, <1>18 DEF PollsInOrder, Poll
<1>20. InStep(f, b, D)
  <2> SUFFICES ASSUME Up(b, s)
               PROVE  MasterAhead(f, b, D)
    BY <1>14 DEF InStep
  <2>1. Of(dd.seq, s)
    BY <1>1
  <2>2. dd.seq <= b.seq /\ (dd.seq = b.seq => dd = b.lastTx)
    BY <2>1 DEF Exch, AnswersInOrder
  <2>3. MasterLevel(a, b)
    <3>1. ~MasterAhead(a, b, C1)
      BY <1>2, <2>2 DEF MasterAhead
    <3>q. QED
      BY <1>1, <3>1 DEF Exch, InStep
  <2>4. dd = b.lastTx
    BY <2>2, <2>3 DEF MasterLevel
  <2>5. f.seq = b.seq + 1 /\ f.told = b.listed \ b.summary /\ f.listed = a.listed
    BY <2>3, <2>4 DEF MasterLevel, MasterAnswered
  <2>6. f.state # EXCHANGE => b.summary = {} /\ b.told = f.listed
    <3> SUFFICES ASSUME f.state # EXCHANGE
                 PROVE  b.summary = {} /\ b.told = f.listed
      OBVIOUS
    <3>1. ~dd.M /\ a.summary = {}
      BY DEF MasterAnswered
    <3>2. b.state >= EXCHANGE
      BY DEF Up
    <3>3. b.summary = {}
      BY <2>4, <3>1, <3>2 DEF Exch, SlaveFit
    <3>q. QED
      BY <2>3, <2>5, <3>1, <3>3 DEF MasterLevel
  <2>7. ASSUME NEW p \in D, ~p.I, p.seq = f.seq
        PROVE  b.told \cup p.hdrs = f.listed \ f.summary
    <3>1. Poll(p, f, a.summary)
      BY <1>9, <1>18, <2>7
    <3>q. QED
      BY <1>3, <2>3, <2>5, <3>1 DEF MasterLevel, Poll
  <2>q. QED
    BY <2>5, <2>6, <2>7 DEF MasterAhead
<1>q. QED
  BY <1>11, <1>12, <1>15, <1>16, <1>17, <1>19, <1>20 DEF Exch

-----------------------------------------------------------------------------
(* Packets under way.                                                      *)

DDsOf(c) == {p \in DDPacket : \E i \in 1..Len(c) : c[i] = p}

(* No two initial DDs with one number are on their way. *)
Once(c) ==
    \A i, j \in 1..Len(c) :
       c[i] \in DDPacket /\ c[j] \in DDPacket /\ c[i].I /\ c[j].I
       /\ c[i].seq = c[j].seq => i = j

LEMMA AppendDDs ==
    ASSUME NEW c \in Seq(Packet), NEW p \in Packet
    PROVE  /\ p \in DDPacket => DDsOf(Append(c, p)) = DDsOf(c) \cup {p}
           /\ p \notin DDPacket => DDsOf(Append(c, p)) = DDsOf(c)
<1> DEFINE a == Append(c, p)
<1>1. /\ Len(a) = Len(c) + 1 /\ a[Len(c) + 1] = p /\ Len(c) \in Nat
      /\ \A i \in 1..Len(c) : a[i] = c[i]
      /\ \A i \in 1..Len(a) : i \in 1..Len(c) \/ i = Len(c) + 1
  OBVIOUS
<1> HIDE DEF a
<1>2. Len(c) + 1 \in 1..Len(a) /\ 1..Len(c) \subseteq 1..Len(a)
  BY <1>1
<1>3. \A q : (\E i \in 1..Len(a) : a[i] = q) <=> (\E i \in 1..Len(c) : c[i] = q) \/ p = q
  BY <1>1, <1>2
<1>q. QED
  BY <1>3 DEF DDsOf, a

LEMMA AppendOnce ==
    ASSUME NEW c \in Seq(Packet), NEW p \in Packet, Once(c),
           p \in DDPacket /\ p.I => ~Called(DDsOf(c), p.seq)
    PROVE  Once(Append(c, p))
<1> DEFINE a == Append(c, p)
<1>1. /\ Len(a) = Len(c) + 1 /\ a[Len(c) + 1] = p /\ Len(c) \in Nat
      /\ \A i \in 1..Len(c) : a[i] = c[i]
      /\ \A i \in 1..Len(a) : i \in 1..Len(c) \/ i = Len(c) + 1
  OBVIOUS
<1> HIDE DEF a
<1>2. ASSUME NEW i \in 1..Len(c), c[i] \in DDPacket, c[i].I, p \in DDPacket, p.I
      PROVE  c[i].seq # p.seq
  <2>1. c[i] \in DDsOf(c)
    BY <1>2 DEF DDsOf
  <2>q. QED
    BY <1>2, <2>1 DEF Called
<1>3. Once(a)
  BY <1>1, <1>2 DEF Once
<1>q. QED
  BY <1>3 DEF a

LEMMA TailDDs ==
    ASSUME NEW c \in Seq(Packet), c # <<>>, Once(c)
    PROVE  /\ DDsOf(Tail(c)) \subseteq DDsOf(c) /\ Once(Tail(c))
           /\ Head(c) \in DDPacket => Head(c) \in DDsOf(c)
           /\ Head(c) \in DDPacket /\ Head(c).I => ~Called(DDsOf(Tail(c)), Head(c).seq)
<1> DEFINE r == Tail(c)
<1>0. /\ r \in Seq(Packet) /\ Len(c) \in Nat /\ Len(r) = Len(c) - 1 /\ Head(c) = c[1]
      /\ \A i \in 1..Len(r) : r[i] = c[i + 1] /\ i + 1 \in 1..Len(c) /\ i + 1 # 1
      /\ 1 \in 1..Len(c)
      /\ \A i, j \in 1..Len(r) : i + 1 = j + 1 => i = j
  OBVIOUS
<1> HIDE DEF r
<1>1. DDsOf(r) \subseteq DDsOf(c) /\ (Head(c) \in DDPacket => Head(c) \in DDsOf(c))
  BY <1>0 DEF DDsOf
<1>2. Once(r)
  BY <1>0 DEF Once
<1>3. Head(c) \in DDPacket /\ Head(c).I => ~Called(DDsOf(r), Head(c).seq)
  <2> SUFFICES ASSUME c[1] \in DDPacket, c[1].I,
                      NEW i \in 1..Len(r), r[i] \in DDPacket, r[i].I, r[i].seq = c[1].seq
               PROVE  FALSE
    BY <1>0 DEF Called, DDsOf
  <2>q. QED
    BY <1>0 DEF Once
<1>q. QED
  BY <1>1, <1>2, <1>3 DEF r

LEMMA RotateDDs ==
    ASSUME NEW c \in Seq(Packet), c # <<>>, Once(c)
    PROVE  /\ DDsOf(Append(Tail(c), Head(c))) \subseteq DDsOf(c)
           /\ Once(Append(Tail(c), Head(c)))
<1> DEFINE t == Tail(c)
           h == Head(c)
<1>1. t \in Seq(Packet) /\ h \in Packet
  OBVIOUS
<1>2. /\ DDsOf(t) \subseteq DDsOf(c) /\ Once(t) /\ (h \in DDPacket => h \in DDsOf(c))
      /\ (h \in DDPacket /\ h.I => ~Called(DDsOf(t), h.seq))
  BY TailDDs
<1> HIDE DEF t, h
<1>3. DDsOf(Append(t, h)) \subseteq DDsOf(c)
  BY <1>1, <1>2, AppendDDs
<1>4. Once(Append(t, h))
  BY <1>1, <1>2, AppendOnce
<1>q. QED
  BY <1>3, <1>4 DEF t, h

LEMMA ConcatAppend ==
    ASSUME NEW c \in Seq(Packet), NEW o \in Seq(Packet), NEW p \in Packet
    PROVE  c \o Append(o, p) = Append(c \o o, p) /\ c \o o \in Seq(Packet)
  OBVIOUS

LEMMA NotDD ==
    ASSUME NEW p, p.type # "DD"
    PROVE  p \notin DDPacket
  BY DEF DDPacket

-----------------------------------------------------------------------------
(* Batches.                                                                *)

LEMMA BatchShorter ==
    ASSUME NEW S \in SUBSET Header, IsFiniteSet(S)
    PROVE  Shorter(S, S \ FirstOf(S, MaxHeaders))
<1> DEFINE B == FirstOf(S, MaxHeaders)
           R == S \ B
<1>1. R \subseteq S /\ IsFiniteSet(R) /\ Cardinality(R) <= Cardinality(S)
      /\ (Cardinality(R) = Cardinality(S) => R = S)
  BY FS_Subset
<1>2. ASSUME S # {} PROVE R # S
  <2>1. \A h \in S : h.key \in Nat
    BY ConstantsAssumption DEF Header
  <2>2. PICK h \in S : \A g \in S : ~(g.key < h.key)
    <3> DEFINE K == {h.key : h \in S}
               L == OpToRel(<, Nat)
    <3>1. K \subseteq Nat /\ K # {}
      BY <1>2, <2>1
    <3>2. IsWellFoundedOn(L, Nat)
      BY NatLessThanWellFounded
    <3>3. PICK k \in K : \A j \in K : <<j, k>> \notin L
      <4> HIDE DEF K, L
      <4>q. QED
        BY <3>1, <3>2, WFMin
    <3>4. \A j \in K : ~(j < k)
      BY <3>1, <3>3 DEF OpToRel
    <3>q. QED
      BY <3>4
  <2>3. {g \in S : g.key < h.key} = {}
    BY <2>2
  <2>4. Cardinality({g \in S : g.key < h.key}) < MaxHeaders
    <3>1. Cardinality({g \in S : g.key < h.key}) = 0
      BY <2>3, FS_EmptySet
    <3>2. 0 < MaxHeaders
      BY ConstantsAssumption
    <3>q. QED
      BY <3>1, <3>2
  <2>5. h \in B
    BY <2>4 DEF FirstOf
  <2>q. QED
    BY <2>5
<1>3. Cardinality(S) \in Nat /\ Cardinality(R) \in Nat
  BY <1>1, FS_CardinalityType
<1>q. QED
  BY <1>1, <1>2, <1>3 DEF Shorter

LEMMA HeadersCount ==
    ASSUME IsFiniteSet(Key), NEW d \in [Key -> Nat]
    PROVE  /\ Headers(d) \in SUBSET Header /\ IsFiniteSet(Headers(d))
           /\ Cardinality(Headers(d)) \in Nat /\ Cardinality(Headers(d)) <= N
<1> DEFINE f == [h \in Headers(d) |-> h.key]
<1>1. \A h \in Headers(d) : h.key \in Key /\ h = [key |-> h.key, inst |-> d[h.key]]
  BY DEF Headers
<1>2. f \in Injection(Headers(d), Key)
  <2>1. f \in [Headers(d) -> Key]
    BY <1>1
  <2>2. \A g, h \in Headers(d) : f[g] = f[h] => g = h
    BY <1>1
  <2>q. QED
    BY <2>1, <2>2 DEF Injection, IsInjective
<1>3. IsFiniteSet(Headers(d)) /\ Cardinality(Headers(d)) <= N
  BY <1>2, FS_Injection DEF N
<1>4. Headers(d) \in SUBSET Header
  BY DEF Headers, Header
<1>q. QED
  BY <1>3, <1>4, FS_CardinalityType

-----------------------------------------------------------------------------
(* The handlers.  n runs one; f is the object of its peer, In the DDs under *)
(* way to n, c the channel to the peer and U numbers nothing is near.       *)

Pair(n, e, f, In, Out) == IF n = 1 THEN Exch(f, e, In, Out) ELSE Exch(e, f, Out, In)

Fine(n, e, f, In, c, U) ==
    /\ e \in Neighbor /\ U \subseteq InitSeq
    /\ Pair(n, e, f, In, DDsOf(c \o e.out)) /\ Once(c \o e.out)
    /\ \A u \in U : Unused(u, In, DDsOf(c \o e.out), f)

LEMMA NeighborFields ==
    ASSUME NEW e \in Neighbor
    PROVE  /\ e.state \in State /\ e.seq \in Counter /\ e.seq \in Int
           /\ e.out \in Seq(Packet) /\ e.lastTx \in {None} \cup DDPacket
           /\ e.summary \in SUBSET Header /\ e.lastRx \in Stamps
  BY SeqNumType DEF Neighbor

LEMMA PairMore ==
    ASSUME NEW n \in Node, NEW e, NEW f, NEW g, NEW In, NEW Out,
           Pair(n, e, f, In, Out), e \in Neighbor, g \in Neighbor,
           Alike(e, g) \/ g.state < EXSTART
    PROVE  Pair(n, g, f, In, Out)
<1>1. e.state \in State /\ g.state \in State
  BY DEF Neighbor
<1>q. QED
  BY <1>1, MasterAlike, SlaveAlike, MasterLeaves, SlaveLeaves DEF Pair

(* A handler that emits nothing and changes nothing that counts, or leaves *)
(* the exchange.                                                           *)
LEMMA QuietFine ==
    ASSUME NEW n \in Node, NEW e, NEW f, NEW In, NEW c, NEW U,
           Fine(n, e, f, In, c, U), NEW g \in Neighbor,
           Alike(e, g) \/ g.state < EXSTART, g.out = e.out
    PROVE  Fine(n, g, f, In, c, U)
  BY PairMore DEF Fine

(* Fewer packets come to n. *)
LEMMA FineLess ==
    ASSUME NEW n \in Node, NEW e, NEW f, NEW In, NEW c, NEW U, NEW Rest \in SUBSET In,
           Fine(n, e, f, In, c, U), NEW V \in SUBSET U
    PROVE  Fine(n, e, f, Rest, c, V)
<1>1. Pair(n, e, f, Rest, DDsOf(c \o e.out))
  BY Shrink DEF Fine, Pair
<1>q. QED
  BY <1>1 DEF Fine, Unused

(* Emitting a packet that is no DD. *)
LEMMA EmitFine ==
    ASSUME NEW n \in Node, NEW e, NEW f, NEW In, NEW c \in Seq(Packet), NEW U,
           Fine(n, e, f, In, c, U), NEW p \in Packet, p.type # "DD"
    PROVE  Fine(n, Emit(e, p), f, In, c, U)
<1> DEFINE g == Emit(e, p)
<1>0. e \in Neighbor /\ g \in Neighbor /\ e.out \in Seq(Packet)
  BY EmitType, NeighborFields DEF Fine
<1>1. g.out = Append(e.out, p) /\ Alike(e, g)
  BY <1>0 DEF Emit, Neighbor, Alike
<1>2. c \o g.out = Append(c \o e.out, p) /\ c \o e.out \in Seq(Packet)
  BY <1>0, <1>1, ConcatAppend
<1>3. p \notin DDPacket
  BY NotDD
<1>4. DDsOf(c \o g.out) = DDsOf(c \o e.out) /\ Once(c \o g.out)
  BY <1>2, <1>3, AppendDDs, AppendOnce DEF Fine
<1> HIDE DEF g
<1>5. Pair(n, g, f, In, DDsOf(c \o g.out))
  BY <1>0, <1>1, <1>4, PairMore DEF Fine
<1>q. QED
  BY <1>0, <1>4, <1>5 DEF Fine, g

(* Starting an exchange with a number that nothing is near. *)
LEMMA StartFine ==
    ASSUME Apart, NEW n \in Node, NEW e, NEW f, NEW In, NEW c \in Seq(Packet), NEW U,
           Fine(n, e, f, In, c, U), NEW s \in U, NEW g \in Neighbor,
           g.state = EXSTART, g.out = e.out, g.lastRx = None
    PROVE  Fine(n, StartDDExchange(g, s), f, In, c, U \ {s})
<1> DEFINE g1 == [g EXCEPT !.seq = s, !.master = TRUE, !.summary = {},
                          !.request = {}, !.ddTimer = TRUE, !.told = {},
                          !.struck = {}]
           h == StartDDExchange(g, s)
           Out == DDsOf(c \o e.out)
<1>0. e \in Neighbor /\ e.out \in Seq(Packet) /\ s \in InitSeq /\ s \in SeqNum /\ s \in Int
      /\ \A u \in U : u \in InitSeq /\ u \in Int
  BY NeighborFields, SeqNumType DEF Fine
<1>1. g1 \in Neighbor /\ InitDD(s) \in DDPacket /\ InitDD(s) \in Packet
  BY <1>0, SeqNumType, DDType DEF InitDD, Neighbor, Packet
<1>2. h = SendDD(g1, InitDD(s))
  BY DEF StartDDExchange, InitDD
<1>3. h \in Neighbor
  BY <1>1, <1>2, SendDDType
<1>4. h.state = EXSTART /\ h.seq = s /\ h.told = {} /\ h.lastRx = None
      /\ h.out = Append(e.out, InitDD(s))
  BY <1>1, <1>2 DEF SendDD, Neighbor
<1>5. c \o h.out = Append(c \o e.out, InitDD(s)) /\ c \o e.out \in Seq(Packet)
  <2>1. h.out = Append(e.out, InitDD(s)) /\ InitDD(s) \in Packet /\ e.out \in Seq(Packet)
    BY <1>0, <1>1, <1>4
  <2> HIDE DEF h
  <2>q. QED
    BY <2>1, ConcatAppend
<1>6. DDsOf(c \o h.out) = Out \cup {InitDD(s)}
  BY <1>1, <1>5, AppendDDs
<1>7. Unused(s, In, Out, f)
  BY DEF Fine
<1>8. Once(c \o h.out)
  <2>1. Of(s, s)
    BY <1>0 DEF Of, Apart
  <2>2. ~Called(Out, s)
    BY <1>7, <2>1 DEF Unused, Called
  <2>q. QED
    BY <1>1, <1>5, <2>2, InitDDFields, AppendOnce DEF Fine
<1> HIDE DEF h, Out
<1>9. Pair(n, h, f, In, Out \cup {InitDD(s)})
  <2>1. CASE n = 1
    <3>1. Exch(f, e, In, Out)
      BY <2>1 DEF Fine, Pair, Out
    <3>q. QED
      BY <1>0, <1>4, <2>1, <3>1, SlaveDraws DEF Pair
  <2>2. CASE n # 1
    <3>1. Exch(e, f, Out, In)
      BY <2>2 DEF Fine, Pair, Out
    <3>2. Unused(s, Out, In, f)
      BY <1>7 DEF Unused
    <3>q. QED
      BY <1>0, <1>4, <2>2, <3>1, <3>2, MasterDraws DEF Pair
  <2>q. QED
    BY <2>1, <2>2
<1>10. ASSUME NEW u \in U \ {s}
       PROVE  Unused(u, In, Out \cup {InitDD(s)}, f)
  <2>1. Unused(u, In, Out, f)
    BY DEF Fine, Out
  <2>2. ~Of(s, u)
    BY <1>0 DEF Of, Apart
  <2>q. QED
    BY <2>1, <2>2, InitDDFields DEF Unused
<1>q. QED
  BY <1>3, <1>6, <1>8, <1>9, <1>10 DEF Fine, h

-----------------------------------------------------------------------------
(* What the handlers do to the fields that count.                          *)

LEMMA HelloReceivedFine ==
    ASSUME NEW n \in Node, NEW e, NEW f, NEW In, NEW c, NEW U, Fine(n, e, f, In, c, U)
    PROVE  Fine(n, HelloReceived(e), f, In, c, U)
<1> DEFINE g == HelloReceived(e)
<1>0. e \in Neighbor
  BY DEF Fine
<1>1. /\ g \in Neighbor /\ g.out = e.out
      /\ g.state = IF e.state = DOWN THEN INIT ELSE e.state
      /\ g.seq = e.seq /\ g.told = e.told /\ g.listed = e.listed
      /\ g.summary = e.summary /\ g.ddTimer = e.ddTimer
      /\ g.lastRx = e.lastRx /\ g.lastTx = e.lastTx
  BY <1>0, StateType DEF HelloReceived, Neighbor
<1> HIDE DEF g
<1>2. Alike(e, g) \/ g.state < EXSTART
  BY <1>1, StateOrder DEF Alike
<1>q. QED
  BY <1>1, <1>2, QuietFine DEF g

LEMMA LeftFine ==
    ASSUME NEW n \in Node, NEW e, NEW f, NEW In, NEW c, NEW U, Fine(n, e, f, In, c, U),
           NEW g \in Neighbor, g.state < EXSTART, g.out = e.out
    PROVE  Fine(n, StopTimers(ClearLists(g)), f, In, c, U)
<1> DEFINE h == StopTimers(ClearLists(g))
<1>1. h \in Neighbor /\ h.out = e.out /\ h.state = g.state
  BY DEF StopTimers, ClearLists, Neighbor, Stamps
<1> HIDE DEF h
<1>q. QED
  BY <1>1, QuietFine DEF h

LEMMA OneWayFine ==
    ASSUME NEW n \in Node, NEW e, NEW f, NEW In, NEW c, NEW U, Fine(n, e, f, In, c, U)
    PROVE  Fine(n, OneWay(e), f, In, c, U) /\ Fine(n, GoDown(e), f, In, c, U)
<1> DEFINE g == [e EXCEPT !.state = INIT]
           h == [e EXCEPT !.state = DOWN, !.inactivity = FALSE]
<1>0. e \in Neighbor
  BY DEF Fine
<1>1. /\ g \in Neighbor /\ g.state = INIT /\ g.out = e.out
      /\ h \in Neighbor /\ h.state = DOWN /\ h.out = e.out
  BY <1>0, StateType DEF Neighbor
<1>2. OneWay(e) = StopTimers(ClearLists(g)) /\ GoDown(e) = StopTimers(ClearLists(h))
  BY DEF OneWay, GoDown
<1> HIDE DEF g, h
<1>3. g.state < EXSTART /\ h.state < EXSTART
  BY <1>1, StateOrder
<1>q. QED
  BY <1>1, <1>2, <1>3, LeftFine

LEMMA TwoWayReceivedFine ==
    ASSUME Apart, NEW n \in Node, NEW e, NEW f, NEW In, NEW c \in Seq(Packet), NEW U,
           Fine(n, e, f, In, c, U), Sound(n, e), e.state = INIT,
           NEW w \in BOOLEAN, NEW s \in U
    PROVE  /\ w => TwoWayReceived(e, w, s).state = EXSTART
                    /\ Fine(n, TwoWayReceived(e, w, s), f, In, c, U \ {s})
           /\ ~w => Fine(n, TwoWayReceived(e, w, s), f, In, c, U)
<1>0. e \in Neighbor /\ e.lastRx = None
  BY StateOrder DEF Sound, LeavesNothing
<1>1. CASE w
  <2> DEFINE h == [e EXCEPT !.state = EXSTART]
  <2>1. h \in Neighbor /\ h.state = EXSTART /\ h.out = e.out /\ h.lastRx = None
    BY <1>0, StateType DEF Neighbor
  <2>2. TwoWayReceived(e, w, s) = StartDDExchange(h, s)
    BY <1>1 DEF TwoWayReceived
  <2> HIDE DEF h
  <2>3. StartDDExchange(h, s).state = EXSTART
    <3>1. s \in SeqNum
      BY SeqNumType DEF Fine
    <3>q. QED
      BY <2>1, <3>1, StartSound
  <2>4. Fine(n, StartDDExchange(h, s), f, In, c, U \ {s})
    BY <2>1, StartFine
  <2>q. QED
    BY <1>1, <2>2, <2>3, <2>4
<1>2. CASE ~w
  <2> DEFINE h == [e EXCEPT !.state = TWOWAY]
  <2>1. h \in Neighbor /\ h.state = TWOWAY /\ h.out = e.out
    BY <1>0, StateType DEF Neighbor
  <2>2. TwoWayReceived(e, w, s) = h
    BY <1>2 DEF TwoWayReceived
  <2> HIDE DEF h
  <2>3. h.state < EXSTART
    BY <2>1, StateOrder
  <2>q. QED
    BY <1>2, <2>1, <2>2, <2>3, QuietFine
<1>q. QED
  BY <1>1, <1>2

LEMMA AdjOKFine ==
    ASSUME Apart, NEW n \in Node, NEW e, NEW f, NEW In, NEW c \in Seq(Packet), NEW U,
           Fine(n, e, f, In, c, U), Sound(n, e), NEW w \in BOOLEAN, NEW s,
           e.state = TWOWAY => s \in U
    PROVE  Fine(n, AdjOK(e, w, s), f, In, c, U \ {s})
<1>0. e \in Neighbor /\ e.state \in State
  BY DEF Sound, Neighbor
<1>1. CASE e.state = TWOWAY /\ w
  <2> DEFINE h == [e EXCEPT !.state = EXSTART]
  <2>0. e.lastRx = None
    BY <1>1, StateOrder DEF Sound, LeavesNothing
  <2>1. h \in Neighbor /\ h.state = EXSTART /\ h.out = e.out /\ h.lastRx = None
    BY <1>0, <2>0, StateType DEF Neighbor
  <2>2. AdjOK(e, w, s) = StartDDExchange(h, s)
    BY <1>1, StateOrder DEF AdjOK
  <2> HIDE DEF h
  <2>3. s \in U
    BY <1>1
  <2>4. Fine(n, StartDDExchange(h, s), f, In, c, U \ {s})
    BY <2>1, <2>3, StartFine
  <2>q. QED
    BY <2>2, <2>4
<1>2. CASE e.state >= EXSTART /\ ~w
  <2> DEFINE h == [e EXCEPT !.state = TWOWAY]
  <2>1. h \in Neighbor /\ h.state = TWOWAY /\ h.out = e.out
    BY <1>0, StateType DEF Neighbor
  <2>2. AdjOK(e, w, s) = StopTimers(ClearLists(h))
    BY <1>2, StateOrder DEF AdjOK
  <2> HIDE DEF h
  <2>3. h.state < EXSTART
    BY <2>1, StateOrder
  <2>4. Fine(n, AdjOK(e, w, s), f, In, c, U)
    BY <2>1, <2>2, <2>3, LeftFine
  <2>q. QED
    BY <2>4, FineLess
<1>3. CASE ~(e.state = TWOWAY /\ w) /\ ~(e.state >= EXSTART /\ ~w)
  <2>1. AdjOK(e, w, s) = e
    BY <1>3 DEF AdjOK
  <2>q. QED
    BY <2>1, FineLess
<1>q. QED
  BY <1>1, <1>2, <1>3

LEMMA SeqNumMismatchFine ==
    ASSUME Apart, NEW n \in Node, NEW e, NEW f, NEW In, NEW c \in Seq(Packet), NEW U,
           Fine(n, e, f, In, c, U), NEW s \in U
    PROVE  Fine(n, SeqNumMismatch(e, s), f, In, c, U \ {s})
<1> DEFINE g == ClearLists([e EXCEPT !.state = EXSTART])
<1>0. e \in Neighbor
  BY DEF Fine
<1>1. g \in Neighbor /\ g.state = EXSTART /\ g.out = e.out /\ g.lastRx = None
  BY <1>0, StateType DEF ClearLists, Neighbor, Stamps
<1>2. SeqNumMismatch(e, s) = StartDDExchange(g, s)
  BY DEF SeqNumMismatch
<1> HIDE DEF g
<1>q. QED
  BY <1>1, <1>2, StartFine

-----------------------------------------------------------------------------
(* Database description: fields first.                                     *)

(* One DD more on the way, not an initial one. *)
LEMMA SaidOut ==
    ASSUME NEW c \in Seq(Packet), NEW o \in Seq(Packet), NEW p \in DDPacket, ~p.I,
           Once(c \o o)
    PROVE  /\ DDsOf(c \o Append(o, p)) = DDsOf(c \o o) \cup {p}
           /\ Once(c \o Append(o, p))
<1>1. p \in Packet
  BY DEF Packet
<1>2. c \o Append(o, p) = Append(c \o o, p) /\ c \o o \in Seq(Packet)
  BY <1>1, ConcatAppend
<1>q. QED
  BY <1>1, <1>2, AppendDDs, AppendOnce

(* A handler changes neither what has been said nor what was sent. *)
Keeps(e, g) ==
    /\ g \in Neighbor /\ g.seq = e.seq /\ g.told = e.told /\ g.listed = e.listed
    /\ g.summary = e.summary /\ g.ddTimer = e.ddTimer /\ g.lastTx = e.lastTx

SameDDs(c, e, g) ==
    DDsOf(c \o g.out) = DDsOf(c \o e.out) /\ (Once(c \o e.out) => Once(c \o g.out))

LEMMA RememberDoes ==
    ASSUME NEW e \in Neighbor, NEW dd \in DDPacket
    PROVE  LET g == Remember(e, dd)
           IN /\ Keeps(e, g) /\ g.state = e.state /\ g.out = e.out
              /\ g.lastRx = Stamp(dd)
  BY StampType DEF Remember, Neighbor, Keeps

LEMMA SendLSRequestDoes ==
    ASSUME NEW e \in Neighbor, NEW c \in Seq(Packet)
    PROVE  LET g == SendLSRequest(e)
           IN /\ Keeps(e, g) /\ g.state = e.state /\ g.lastRx = e.lastRx
              /\ SameDDs(c, e, g)
<1> DEFINE p == LSR({h.key : h \in FirstOf(e.request, MaxItems)})
           f == [e EXCEPT !.rxmtTimer = TRUE]
           g == Emit(f, p)
<1>1. CASE e.request = {}
  BY <1>1 DEF SendLSRequest, Keeps, SameDDs
<1>2. CASE e.request # {}
  <2>1. p \in Packet /\ p \notin DDPacket
    BY LSRType, NotDD DEF Neighbor, LSR
  <2> HIDE DEF p
  <2>2. f \in Neighbor /\ e.out \in Seq(Packet)
    BY DEF Neighbor
  <2>3. g \in Neighbor
    BY <2>1, <2>2, EmitType
  <2>4. /\ Keeps(e, g) /\ g.state = e.state /\ g.lastRx = e.lastRx
        /\ g.out = Append(e.out, p)
    BY <2>2, <2>3 DEF Emit, Neighbor, Keeps
  <2>5. c \o g.out = Append(c \o e.out, p) /\ c \o e.out \in Seq(Packet)
    BY <2>1, <2>2, <2>4, ConcatAppend
  <2>6. SameDDs(c, e, g)
    BY <2>1, <2>5, AppendDDs, AppendOnce DEF SameDDs
  <2>7. SendLSRequest(e) = g
    BY <1>2 DEF SendLSRequest, p
  <2>q. QED
    BY <2>4, <2>6, <2>7
<1>q. QED
  BY <1>1, <1>2

LEMMA ExchangeDoneDoes ==
    ASSUME NEW e \in Neighbor, NEW c \in Seq(Packet)
    PROVE  LET g == ExchangeDone(e)
           IN /\ Keeps(e, g) /\ g.state \in {LOADING, FULL} /\ g.lastRx = e.lastRx
              /\ SameDDs(c, e, g)
<1>1. CASE e.request # {}
  <2> DEFINE f == [e EXCEPT !.state = LOADING]
  <2>1. /\ f \in Neighbor /\ f.state = LOADING /\ Keeps(e, f)
        /\ f.lastRx = e.lastRx /\ f.out = e.out
    BY StateType DEF Neighbor, Keeps
  <2>2. ExchangeDone(e) = SendLSRequest(f)
    BY <1>1 DEF ExchangeDone
  <2> HIDE DEF f
  <2>q. QED
    BY <2>1, <2>2, SendLSRequestDoes DEF Keeps, SameDDs
<1>2. CASE e.request = {}
  <2> DEFINE f == [e EXCEPT !.state = FULL, !.rxmtTimer = FALSE]
  <2>1. /\ f.state = FULL /\ Keeps(e, f)
        /\ f.lastRx = e.lastRx /\ f.out = e.out
    BY StateType DEF Neighbor, Keeps
  <2>2. ExchangeDone(e) = f
    BY <1>2 DEF ExchangeDone
  <2> HIDE DEF f
  <2>q. QED
    BY <2>1, <2>2 DEF SameDDs
<1>q. QED
  BY <1>1, <1>2

LEMMA ProcessHeadersDoes ==
    ASSUME NEW n \in Node, NEW e \in Neighbor, NEW hs \in SUBSET Header
    PROVE  LET g == ProcessHeaders(e, n, hs)
           IN /\ g \in Neighbor /\ g.state = e.state /\ g.seq = e.seq
              /\ g.summary = e.summary /\ g.listed = e.listed /\ g.ddTimer = e.ddTimer
              /\ g.told = e.told \cup hs /\ g.out = e.out
<1> DEFINE newer == {h \in hs : h.inst > db[n][h.key]}
           kept  == {g \in e.request : \A h \in newer : h.key # g.key}
           older == {h \in newer : \E g \in e.request : h.key = g.key /\ h.inst < g.inst}
           lost  == {h.key : h \in older}
<1>1. /\ kept \cup newer \in SUBSET Header /\ e.told \cup hs \in SUBSET Header
      /\ e.struck \cup lost \in SUBSET Key
  BY DEF Neighbor, Header
<1>2. ProcessHeaders(e, n, hs)
        = [e EXCEPT !.request = kept \cup newer, !.told = @ \cup hs,
                    !.struck = @ \cup lost]
  BY DEF ProcessHeaders
<1> HIDE DEF kept, newer, older, lost
<1>q. QED
  BY <1>1, <1>2 DEF Neighbor

(* What a batch sends, if its number fits. *)
Batched(e, g) ==
    /\ g.out = Append(e.out, g.lastTx) /\ g.lastTx \in DDPacket /\ ~g.lastTx.I
    /\ g.lastTx.seq = e.seq /\ (g.lastTx.M <=> g.summary # {})
    /\ g.lastTx.hdrs = e.summary \ g.summary

LEMMA SendBatchDoes ==
    ASSUME NEW e \in Neighbor, NEW ms \in BOOLEAN, IsFiniteSet(e.summary)
    PROVE  LET g == SendBatch(e, ms)
           IN /\ g \in Neighbor /\ g.state = e.state /\ g.seq = e.seq /\ g.told = e.told
              /\ g.listed = e.listed /\ g.ddTimer = e.ddTimer /\ g.lastRx = e.lastRx
              /\ Shorter(e.summary, g.summary)
              /\ IF e.seq > MaxDDSeq THEN g.out = e.out ELSE Batched(e, g)
<1> DEFINE batch == FirstOf(e.summary, MaxHeaders)
           rest  == e.summary \ batch
           f     == [e EXCEPT !.summary = rest]
           p     == DD(FALSE, rest # {}, ms, e.seq, batch)
           g     == SendBatch(e, ms)
<1>0. e.summary \in SUBSET Header /\ e.seq \in Counter
  BY DEF Neighbor
<1>1. /\ batch \in SUBSET Header /\ rest \in SUBSET Header
      /\ batch = e.summary \ rest /\ Shorter(e.summary, rest)
  BY <1>0, BatchShorter DEF FirstOf
<1>2. g = IF e.seq > MaxDDSeq THEN f ELSE SendDD(f, p)
  BY DEF SendBatch
<1>3. p.hdrs = batch /\ p.seq = e.seq /\ (p.M <=> rest # {}) /\ ~p.I
  BY DEF DD
<1> HIDE DEF batch, rest, g
<1>4. /\ f \in Neighbor /\ f.state = e.state /\ f.seq = e.seq /\ f.told = e.told
      /\ f.listed = e.listed /\ f.ddTimer = e.ddTimer /\ f.lastRx = e.lastRx
      /\ f.summary = rest /\ f.out = e.out
  BY <1>1 DEF Neighbor
<1>5. ~(e.seq > MaxDDSeq) => p \in DDPacket
  <2>1. ~(e.seq > MaxDDSeq) => e.seq \in SeqNum
    BY <1>0, ConstantsAssumption DEF Counter, SeqNum
  <2>q. QED
    BY <1>1, <2>1, DDType
<1> HIDE DEF f, p
<1>6. CASE e.seq > MaxDDSeq
  BY <1>1, <1>2, <1>4, <1>6 DEF g
<1>7. CASE ~(e.seq > MaxDDSeq)
  <2>1. g = SendDD(f, p) /\ g \in Neighbor
    BY <1>2, <1>4, <1>5, <1>7, SendDDType
  <2>2. /\ g.state = f.state /\ g.seq = f.seq /\ g.told = f.told
        /\ g.listed = f.listed /\ g.ddTimer = f.ddTimer /\ g.lastRx = f.lastRx
        /\ g.summary = f.summary /\ g.lastTx = p /\ g.out = Append(f.out, p)
    BY <1>4, <2>1 DEF SendDD, Neighbor
  <2>3. Batched(e, g)
    BY <1>1, <1>3, <1>4, <1>5, <1>7, <2>2 DEF Batched
  <2>q. QED
    BY <1>1, <1>4, <1>7, <2>1, <2>2, <2>3 DEF g
<1>q. QED
  BY <1>6, <1>7

-----------------------------------------------------------------------------
(* The DDs that the slave, router 1, receives.                             *)

LEMMA NegotiationDoneDoes ==
    ASSUME Apart, TypeOK, NEW n \in Node, NEW e \in Neighbor
    PROVE  LET g == NegotiationDone(e, n)
           IN /\ g \in Neighbor /\ g.state = EXCHANGE /\ g.seq = e.seq
              /\ g.told = e.told /\ g.out = e.out /\ g.ddTimer = e.ddTimer
              /\ g.lastRx = e.lastRx /\ g.summary = g.listed
              /\ IsFiniteSet(g.summary) /\ Cardinality(g.summary) \in Nat
              /\ Cardinality(g.summary) <= N
<1> DEFINE hs == Headers(db[n])
           g  == NegotiationDone(e, n)
<1>1. /\ hs \in SUBSET Header /\ IsFiniteSet(hs) /\ Cardinality(hs) \in Nat
      /\ Cardinality(hs) <= N
  <2>1. db[n] \in [Key -> Nat]
    BY DEF TypeOK
  <2>q. QED
    BY <2>1, HeadersCount DEF Apart
<1>2. g = [e EXCEPT !.state = EXCHANGE, !.summary = hs, !.listed = hs]
  BY DEF NegotiationDone
<1> HIDE DEF hs, g
<1>3. /\ g \in Neighbor /\ g.state = EXCHANGE /\ g.seq = e.seq
      /\ g.told = e.told /\ g.out = e.out /\ g.ddTimer = e.ddTimer
      /\ g.lastRx = e.lastRx /\ g.summary = hs /\ g.listed = hs
  BY <1>1, <1>2, StateType DEF Neighbor
<1>q. QED
  BY <1>1, <1>3 DEF g

(* The first batch of an exchange is smaller than the whole list. *)
LEMMA FirstBatch ==
    ASSUME Apart, NEW S, NEW R, Shorter(S, R), IsFiniteSet(S),
           Cardinality(S) \in Nat, Cardinality(S) <= N
    PROVE  R \subseteq S /\ IsFiniteSet(R) /\ (R = {} \/ Cardinality(R) < N)
<1>1. IsFiniteSet(R) /\ Cardinality(R) \in Nat
  BY FS_CardinalityType DEF Shorter
<1>q. QED
  BY <1>1 DEF Shorter, Apart

LEMMA DDSeqs ==
    ASSUME NEW dd \in DDPacket
    PROVE  /\ dd.seq \in SeqNum /\ dd.seq \in Counter /\ dd.seq \in Int
           /\ dd.hdrs \in SUBSET Header /\ ~(dd.seq > MaxDDSeq)
<1>1. dd.seq \in SeqNum /\ dd.hdrs \in SUBSET Header
  BY DEF DDPacket
<1>q. QED
  BY <1>1, SeqNumType, ConstantsAssumption DEF SeqNum

LEMMA BecomeSlaveFine ==
    ASSUME Apart, TypeOK, NEW e, NEW f \in Neighbor, NEW In, NEW c \in Seq(Packet), NEW U,
           Fine(1, e, f, In, c, U), e.state = EXSTART,
           NEW dd \in In, dd \in DDPacket, IsInitDD(dd),
           NEW Rest \in SUBSET In, ~Called(Rest, dd.seq)
    PROVE  Fine(1, BecomeSlave(e, 1, dd), f, Rest, c, {})
<1> DEFINE e0 == [e EXCEPT !.master = FALSE, !.seq = dd.seq, !.ddTimer = FALSE]
           e1 == NegotiationDone(e0, 1)
           g  == SendBatch(e1, FALSE)
           Out == DDsOf(c \o e.out)
<1>0. /\ e \in Neighbor /\ Exch(f, e, In, Out) /\ Once(c \o e.out) /\ 1 \in Node
      /\ e.out \in Seq(Packet) /\ f.seq \in Int
  BY NeighborFields DEF Fine, Pair, Node
<1>1. e.told = {} /\ e.lastRx = None
  BY <1>0 DEF Exch, SlaveFit
<1>2. /\ e0 \in Neighbor /\ e0.seq = dd.seq /\ e0.told = {} /\ e0.lastRx = None
      /\ e0.out = e.out /\ ~e0.ddTimer
  BY <1>0, <1>1, DDSeqs DEF Neighbor
<1> HIDE DEF e0
<1>3. /\ e1 \in Neighbor /\ e1.state = EXCHANGE /\ e1.seq = dd.seq
      /\ e1.told = {} /\ e1.out = e.out /\ ~e1.ddTimer
      /\ e1.lastRx = None /\ e1.summary = e1.listed
      /\ IsFiniteSet(e1.summary) /\ Cardinality(e1.summary) \in Nat
      /\ Cardinality(e1.summary) <= N
  BY <1>0, <1>2, NegotiationDoneDoes
<1> HIDE DEF e1
<1>4. /\ g \in Neighbor /\ g.state = EXCHANGE /\ g.seq = dd.seq /\ g.told = {}
      /\ g.listed = e1.listed /\ ~g.ddTimer /\ g.lastRx = None
      /\ Shorter(e1.summary, g.summary) /\ Batched(e1, g)
  BY <1>3, DDSeqs, SendBatchDoes
<1>5. BecomeSlave(e, 1, dd) = g
  BY DEF BecomeSlave, e1, e0
<1> HIDE DEF g, Out
<1>6. SlaveBegun(g, dd)
  <2>1. g.summary \subseteq g.listed /\ IsFiniteSet(g.summary)
        /\ (g.summary = {} \/ Cardinality(g.summary) < N)
    BY <1>3, <1>4, FirstBatch
  <2>q. QED
    BY <1>3, <1>4, <2>1 DEF SlaveBegun, Batched
<1>7. Exch(f, g, Rest, Out \cup {g.lastTx})
  <2>1. dd.I /\ \A p \in Rest : p.I => p.seq # dd.seq
    BY DEF IsInitDD, Called
  <2>q. QED
    BY <1>0, <1>6, <2>1, SlaveStarts
<1>8. DDsOf(c \o g.out) = Out \cup {g.lastTx} /\ Once(c \o g.out)
  BY <1>0, <1>3, <1>4, SaidOut DEF Batched, Out
<1>q. QED
  BY <1>4, <1>5, <1>7, <1>8 DEF Fine, Pair

LEMMA RetransmitFine ==
    ASSUME Apart, NEW e, NEW f \in Neighbor, NEW In, NEW c \in Seq(Packet), NEW U,
           Fine(1, e, f, In, c, U), e.state >= EXCHANGE,
           NEW dd \in In, dd \in DDPacket, IsDuplicate(e, dd), NEW Rest \in SUBSET In
    PROVE  Fine(1, Retransmit(e), f, Rest, c, {})
<1> DEFINE g == Emit(e, e.lastTx)
           Out == DDsOf(c \o e.out)
<1>0. /\ e \in Neighbor /\ Exch(f, e, In, Out) /\ Once(c \o e.out)
      /\ e.out \in Seq(Packet) /\ e.seq \in Int
  BY NeighborFields DEF Fine, Pair
<1>1. /\ e.lastTx \in DDPacket /\ ~e.lastTx.I /\ ~dd.I /\ dd.seq = e.seq
  BY <1>0 DEF Exch, SlaveFit, IsDuplicate, Stamp
<1>2. e.lastTx \in Packet /\ e.lastTx # None
  BY <1>1 DEF Packet, DDPacket, None
<1>3. Retransmit(e) = g
  BY <1>2 DEF Retransmit
<1>4. /\ g \in Neighbor /\ g.out = Append(e.out, e.lastTx) /\ Alike(e, g)
      /\ e.state \in State /\ g.state \in State
  BY <1>0, <1>2, EmitType DEF Emit, Neighbor, Alike
<1> HIDE DEF g, Out
<1>5. Exch(f, e, In, Out \cup {e.lastTx})
  BY <1>0, <1>1, SlaveRepeats
<1>6. Exch(f, g, Rest, Out \cup {e.lastTx})
  <2>1. Exch(f, g, In, Out \cup {e.lastTx})
    BY <1>4, <1>5, SlaveAlike
  <2>q. QED
    BY <2>1, Shrink
<1>7. DDsOf(c \o g.out) = Out \cup {e.lastTx} /\ Once(c \o g.out)
  BY <1>0, <1>1, <1>4, SaidOut DEF Out
<1>q. QED
  BY <1>3, <1>4, <1>6, <1>7 DEF Fine, Pair

LEMMA SlaveExchangeFine ==
    ASSUME Apart, NEW e, NEW f \in Neighbor, NEW In, NEW c \in Seq(Packet), NEW U,
           Fine(1, e, f, In, c, U), e.state = EXCHANGE, NEW s \in U,
           NEW dd \in In, dd \in DDPacket, NEW Rest \in SUBSET In
    PROVE  Fine(1, SlaveExchangeDD(e, 1, dd, s), f, Rest, c, {})
<1> DEFINE e0 == [e EXCEPT !.seq = dd.seq]
           e1 == ProcessHeaders(e0, 1, dd.hdrs)
           e2 == SendBatch(e1, FALSE)
           e3 == IF ~dd.M /\ e2.summary = {} THEN ExchangeDone(e2) ELSE e2
           g  == Remember(e3, dd)
           bad == dd.seq # e.seq + 1 \/ dd.I
           Out == DDsOf(c \o e.out)
<1>0. /\ e \in Neighbor /\ Exch(f, e, In, Out) /\ Once(c \o e.out) /\ 1 \in Node
      /\ e.out \in Seq(Packet) /\ e.seq \in Int /\ f.seq \in Int /\ f.state \in State
  BY NeighborFields DEF Fine, Pair, Node
<1>a. SlaveExchangeDD(e, 1, dd, s) = IF bad THEN SeqNumMismatch(e, s) ELSE g
  BY DEF SlaveExchangeDD
<1>b. Fine(1, SeqNumMismatch(e, s), f, Rest, c, {})
  <2>1. Fine(1, SeqNumMismatch(e, s), f, In, c, U \ {s})
    BY <1>0, SeqNumMismatchFine
  <2>q. QED
    BY <2>1, <1>0, FineLess
<1>1. IsFiniteSet(e.summary) /\ ~e.ddTimer
  BY <1>0, StateOrder DEF Exch, SlaveFit
<1>2. /\ e0 \in Neighbor /\ e0.seq = dd.seq /\ e0.told = e.told /\ e0.out = e.out
      /\ e0.state = EXCHANGE /\ e0.summary = e.summary /\ e0.listed = e.listed
      /\ e0.ddTimer = e.ddTimer
  BY <1>0, DDSeqs DEF Neighbor
<1> HIDE DEF e0
<1>3. /\ e1 \in Neighbor /\ e1.seq = dd.seq /\ e1.told = e.told \cup dd.hdrs
      /\ e1.out = e.out /\ e1.state = EXCHANGE /\ e1.summary = e.summary
      /\ e1.listed = e.listed /\ e1.ddTimer = e.ddTimer
  BY <1>0, <1>2, DDSeqs, ProcessHeadersDoes
<1> HIDE DEF e1
<1>4. /\ e2 \in Neighbor /\ e2.seq = dd.seq /\ e2.told = e.told \cup dd.hdrs
      /\ e2.state = EXCHANGE /\ e2.listed = e.listed /\ e2.ddTimer = e.ddTimer
      /\ Shorter(e.summary, e2.summary) /\ Batched(e1, e2)
  BY <1>1, <1>3, DDSeqs, SendBatchDoes
<1> HIDE DEF e2
<1>5. DDsOf(c \o e2.out) = Out \cup {e2.lastTx} /\ Once(c \o e2.out)
  BY <1>0, <1>3, <1>4, SaidOut DEF Batched
<1>6. Keeps(e2, e3) /\ SameDDs(c, e2, e3) /\ e3.state >= EXCHANGE /\ e3.state # EXSTART
  <2>1. Keeps(e2, e2) /\ SameDDs(c, e2, e2) /\ e2.state >= EXCHANGE /\ e2.state # EXSTART
    BY <1>4, StateOrder DEF Keeps, SameDDs
  <2>2. /\ Keeps(e2, ExchangeDone(e2)) /\ SameDDs(c, e2, ExchangeDone(e2))
        /\ ExchangeDone(e2).state >= EXCHANGE /\ ExchangeDone(e2).state # EXSTART
    BY <1>4, ExchangeDoneDoes, StateOrder
  <2>q. QED
    BY <2>1, <2>2
<1> HIDE DEF e3
<1>7. /\ Keeps(e3, g) /\ g.state = e3.state /\ g.out = e3.out /\ g.lastRx = Stamp(dd)
  BY <1>6, RememberDoes DEF Keeps
<1> HIDE DEF g, Out
<1>8. /\ g \in Neighbor /\ DDsOf(c \o g.out) = Out \cup {g.lastTx} /\ Once(c \o g.out)
  BY <1>5, <1>6, <1>7 DEF Keeps, SameDDs
<1>9. ~dd.I => SlaveAnswered(e, g, dd)
  <2>1. g.seq = dd.seq /\ g.told = e.told \cup dd.hdrs /\ ~g.ddTimer
        /\ g.listed = e.listed /\ g.summary = e2.summary /\ g.lastTx = e2.lastTx
    BY <1>1, <1>4, <1>6, <1>7 DEF Keeps
  <2>2. g.lastRx[1] = dd.seq /\ (g.lastRx[2] <=> dd.I)
    BY <1>7 DEF Stamp
  <2>q. QED
    BY <1>3, <1>4, <1>6, <1>7, <2>1, <2>2 DEF SlaveAnswered, Batched
<1>10. ~bad => Exch(f, g, In, Out \cup {g.lastTx})
  BY <1>0, <1>9, SlaveGoes DEF Out
<1>11. ~bad => Exch(f, g, Rest, Out \cup {g.lastTx})
  BY <1>10, Shrink
<1>12. ~bad => Fine(1, g, f, Rest, c, {})
  BY <1>8, <1>11 DEF Fine, Pair
<1>q. QED
  BY <1>a, <1>b, <1>12

-----------------------------------------------------------------------------
(* The DDs that the master, router 2, receives.                            *)

(* Its batch, if the number fits, is a poll of its exchange. *)
LEMMA BatchIsPoll ==
    ASSUME NEW e \in Neighbor, NEW ms \in BOOLEAN, IsFiniteSet(e.summary),
           NEW c \in Seq(Packet), Once(c \o e.out)
    PROVE  LET g == SendBatch(e, ms)
           IN /\ Once(c \o g.out)
              /\ \A p \in DDsOf(c \o g.out) :
                    p \in DDsOf(c \o e.out) \/ Poll(p, g, e.summary)
<1> DEFINE g == SendBatch(e, ms)
<1>1. /\ g.seq = e.seq /\ e.out \in Seq(Packet)
      /\ IF e.seq > MaxDDSeq THEN g.out = e.out ELSE Batched(e, g)
  BY SendBatchDoes, NeighborFields
<1> HIDE DEF g
<1>2. CASE e.seq > MaxDDSeq
  BY <1>1, <1>2 DEF g
<1>3. CASE ~(e.seq > MaxDDSeq)
  <2>1. Batched(e, g)
    BY <1>1, <1>3
  <2>2. DDsOf(c \o g.out) = DDsOf(c \o e.out) \cup {g.lastTx} /\ Once(c \o g.out)
    BY <1>1, <2>1, SaidOut DEF Batched
  <2>3. Poll(g.lastTx, g, e.summary)
    BY <1>1, <2>1 DEF Batched, Poll
  <2>q. QED
    BY <2>2, <2>3 DEF g
<1>q. QED
  BY <1>2, <1>3

LEMMA BecomeMasterFine ==
    ASSUME Apart, TypeOK, NEW e, NEW f \in Neighbor, NEW In, NEW c \in Seq(Packet), NEW U,
           Fine(2, e, f, In, c, U), e.state = EXSTART,
           NEW dd \in In, dd \in DDPacket, ~dd.I, dd.seq = e.seq, NEW Rest \in SUBSET In
    PROVE  Fine(2, BecomeMaster(e, 2, dd), f, Rest, c, {})
<1> DEFINE e0 == [e EXCEPT !.master = TRUE, !.ddTimer = FALSE]
           e1 == NegotiationDone(e0, 2)
           e2 == ProcessHeaders(e1, 2, dd.hdrs)
           e3 == Remember(e2, dd)
           e4 == [e3 EXCEPT !.seq = @ + 1]
           g  == SendBatch(e4, TRUE)
           D  == DDsOf(c \o g.out)
           Out == DDsOf(c \o e.out)
<1>0. /\ e \in Neighbor /\ Exch(e, f, Out, In) /\ Once(c \o e.out) /\ 2 \in Node
      /\ e.out \in Seq(Packet) /\ f.seq \in Int
  BY NeighborFields DEF Fine, Pair, Node
<1>1. e.told = {}
  BY <1>0 DEF Exch, MasterFit
<1>2. /\ e0 \in Neighbor /\ e0.seq = e.seq /\ e0.told = {}
      /\ e0.out = e.out /\ ~e0.ddTimer
  BY <1>0, <1>1 DEF Neighbor
<1> HIDE DEF e0
<1>3. /\ e1 \in Neighbor /\ e1.state = EXCHANGE /\ e1.seq = e.seq
      /\ e1.told = {} /\ e1.out = e.out /\ ~e1.ddTimer /\ e1.summary = e1.listed
      /\ IsFiniteSet(e1.summary) /\ Cardinality(e1.summary) \in Nat
      /\ Cardinality(e1.summary) <= N
  BY <1>0, <1>2, NegotiationDoneDoes
<1> HIDE DEF e1
<1>4. /\ e2 \in Neighbor /\ e2.state = EXCHANGE /\ e2.seq = e.seq
      /\ e2.told = dd.hdrs /\ e2.out = e.out /\ ~e2.ddTimer
      /\ e2.summary = e1.listed /\ e2.listed = e1.listed
  <2>1. dd.hdrs \in SUBSET Header /\ {} \cup dd.hdrs = dd.hdrs
    BY DDSeqs
  <2>2. /\ e2 \in Neighbor /\ e2.state = e1.state /\ e2.seq = e1.seq
        /\ e2.summary = e1.summary /\ e2.listed = e1.listed /\ e2.ddTimer = e1.ddTimer
        /\ e2.told = e1.told \cup dd.hdrs /\ e2.out = e1.out
    BY <1>0, <1>3, <2>1, ProcessHeadersDoes
  <2> HIDE DEF e2
  <2>q. QED
    BY <1>3, <2>1, <2>2
<1> HIDE DEF e2
<1>5. /\ e3 \in Neighbor /\ e3.state = EXCHANGE /\ e3.seq = e.seq
      /\ e3.told = dd.hdrs /\ e3.out = e.out /\ ~e3.ddTimer
      /\ e3.summary = e1.listed /\ e3.listed = e1.listed
  BY <1>4, RememberDoes DEF Keeps
<1> HIDE DEF e3
<1>6. /\ e4 \in Neighbor /\ e4.state = EXCHANGE /\ e4.seq = e.seq + 1
      /\ e4.told = dd.hdrs /\ e4.out = e.out /\ ~e4.ddTimer
      /\ e4.summary = e1.listed /\ e4.listed = e1.listed
  <2>1. e.seq + 1 \in Counter
    BY DDFields
  <2>q. QED
    BY <1>5, <2>1 DEF Neighbor
<1> HIDE DEF e4
<1>7. /\ g \in Neighbor /\ g.state = EXCHANGE /\ g.seq = e.seq + 1
      /\ g.told = dd.hdrs /\ g.listed = e1.listed /\ ~g.ddTimer
      /\ Shorter(e1.summary, g.summary)
  BY <1>3, <1>6, SendBatchDoes
<1>8. Once(c \o g.out) /\ \A p \in D : p \in Out \/ Poll(p, g, g.listed)
  BY <1>0, <1>3, <1>6, <1>7, BatchIsPoll
<1>9. BecomeMaster(e, 2, dd) = g
  BY DEF BecomeMaster, e4, e3, e2, e1, e0
<1> HIDE DEF g, Out
<1>10. MasterBegun(g, e.seq, dd)
  <2>1. g.summary \subseteq g.listed /\ IsFiniteSet(g.summary)
        /\ (g.summary = {} \/ Cardinality(g.summary) < N)
    BY <1>3, <1>7, FirstBatch
  <2>q. QED
    BY <1>7, <2>1 DEF MasterBegun
<1> HIDE DEF D
<1>11. Exch(g, f, D, In)
  BY <1>0, <1>8, <1>10, MasterStarts
<1>12. Exch(g, f, D, Rest)
  BY <1>11, Shrink
<1>q. QED
  BY <1>7, <1>8, <1>9, <1>12 DEF Fine, Pair, D

LEMMA MasterExchangeFine ==
    ASSUME Apart, NEW e, NEW f \in Neighbor, NEW In, NEW c \in Seq(Packet), NEW U,
           Fine(2, e, f, In, c, U), e.state = EXCHANGE, NEW s \in U,
           NEW dd \in In, dd \in DDPacket, NEW Rest \in SUBSET In
    PROVE  Fine(2, MasterExchangeDD(e, 2, dd, s), f, Rest, c, {})
<1> DEFINE e1 == ProcessHeaders(e, 2, dd.hdrs)
           e2 == [e1 EXCEPT !.seq = @ + 1]
           bad  == dd.seq # e.seq \/ dd.I \/ dd.MS
           last == ~dd.M /\ e2.summary = {}
           x  == ExchangeDone(e2)
           xr == Remember(x, dd)
           b  == SendBatch(e2, TRUE)
           br == Remember(b, dd)
           Out == DDsOf(c \o e.out)
<1>0. /\ e \in Neighbor /\ Exch(e, f, Out, In) /\ Once(c \o e.out) /\ 2 \in Node
      /\ e.out \in Seq(Packet) /\ e.seq \in Int /\ f.seq \in Int
  BY NeighborFields DEF Fine, Pair, Node
<1>a. MasterExchangeDD(e, 2, dd, s) =
        IF bad THEN SeqNumMismatch(e, s) ELSE IF last THEN xr
        ELSE IF e2.seq > MaxDDSeq THEN b ELSE br
  BY DEF MasterExchangeDD
<1>b. Fine(2, SeqNumMismatch(e, s), f, Rest, c, {})
  <2>1. Fine(2, SeqNumMismatch(e, s), f, In, c, U \ {s})
    BY <1>0, SeqNumMismatchFine
  <2>q. QED
    BY <2>1, <1>0, FineLess
<1>1. IsFiniteSet(e.summary) /\ ~e.ddTimer
  BY <1>0, StateOrder DEF Exch, MasterFit
<1>2. /\ e1 \in Neighbor /\ e1.seq = e.seq /\ e1.told = e.told \cup dd.hdrs
      /\ e1.out = e.out /\ e1.state = EXCHANGE /\ e1.summary = e.summary
      /\ e1.listed = e.listed /\ e1.ddTimer = e.ddTimer
  BY <1>0, DDSeqs, ProcessHeadersDoes
<1> HIDE DEF e1
<1> SUFFICES ASSUME ~bad
             PROVE  /\ last => Fine(2, xr, f, Rest, c, {})
                    /\ ~last => Fine(2, b, f, Rest, c, {}) /\ Fine(2, br, f, Rest, c, {})
  BY <1>a, <1>b
<1>3. /\ e2 \in Neighbor /\ e2.seq = e.seq + 1 /\ e2.told = e.told \cup dd.hdrs
      /\ e2.out = e.out /\ e2.state = EXCHANGE /\ e2.summary = e.summary
      /\ e2.listed = e.listed /\ e2.ddTimer = e.ddTimer
  <2>1. e.seq + 1 \in Counter
    BY DDFields
  <2>q. QED
    BY <1>2, <2>1 DEF Neighbor
<1> HIDE DEF e2
<1>4. ASSUME last PROVE Fine(2, xr, f, Rest, c, {})
  <2>1. /\ Keeps(e2, x) /\ x.state >= EXCHANGE /\ x.state # EXSTART
        /\ x.state # EXCHANGE /\ SameDDs(c, e2, x)
    BY <1>3, ExchangeDoneDoes, StateOrder
  <2> HIDE DEF x
  <2>2. Keeps(x, xr) /\ xr.state = x.state /\ xr.out = x.out
    BY <2>1, RememberDoes DEF Keeps
  <2> HIDE DEF xr
  <2>3. DDsOf(c \o xr.out) = Out /\ Once(c \o xr.out) /\ xr \in Neighbor
    BY <1>0, <1>3, <2>1, <2>2 DEF SameDDs, Keeps
  <2>4. Shorter(e.summary, xr.summary)
    BY <1>1, <1>3, <1>4, <2>1, <2>2 DEF Keeps, Shorter
  <2>5. MasterAnswered(e, xr, dd)
    BY <1>1, <1>3, <1>4, <2>1, <2>2, <2>4 DEF Keeps, MasterAnswered
  <2> HIDE DEF Out
  <2>6. Exch(xr, f, Out, In)
    BY <1>0, <2>5, MasterGoes
  <2>7. Exch(xr, f, Out, Rest)
    BY <2>6, Shrink
  <2>q. QED
    BY <2>3, <2>7 DEF Fine, Pair
<1>5. ASSUME ~last
      PROVE  Fine(2, b, f, Rest, c, {}) /\ Fine(2, br, f, Rest, c, {})
  <2> DEFINE D == DDsOf(c \o b.out)
  <2>1. /\ b \in Neighbor /\ b.seq = e.seq + 1 /\ b.told = e.told \cup dd.hdrs
        /\ b.state = EXCHANGE /\ b.listed = e.listed /\ ~b.ddTimer
        /\ Shorter(e.summary, b.summary)
    BY <1>1, <1>3, SendBatchDoes
  <2>2. Once(c \o b.out) /\ \A p \in D : p \in Out \/ Poll(p, b, e.summary)
    BY <1>0, <1>1, <1>3, BatchIsPoll
  <2> HIDE DEF b
  <2>3. Keeps(b, b) /\ Keeps(b, br) /\ br.state = b.state /\ br.out = b.out
    BY <2>1, RememberDoes DEF Keeps
  <2> HIDE DEF br, D, Out
  <2>4. ASSUME NEW g, Keeps(b, g), g.state = b.state, g.out = b.out
        PROVE  Fine(2, g, f, Rest, c, {})
    <3>1. MasterAnswered(e, g, dd)
      BY <1>3, <1>5, <2>1, <2>4, StateOrder DEF Keeps, MasterAnswered
    <3>2. \A p \in D : p \in Out \/ (g.state = EXCHANGE /\ Poll(p, g, e.summary))
      BY <2>1, <2>2, <2>4 DEF Keeps, Poll
    <3>3. Exch(g, f, D, In)
      BY <1>0, <3>1, <3>2, MasterGoes
    <3>4. Exch(g, f, D, Rest)
      BY <3>3, Shrink
    <3>q. QED
      BY <2>2, <2>4, <3>4 DEF Fine, Pair, D, Keeps
  <2>q. QED
    BY <2>3, <2>4
<1>q. QED
  BY <1>4, <1>5

LEMMA Routers == /\ \A n \in Node : n = 1 \/ n = 2
                 /\ 1 \in Node /\ 2 \in Node /\ 1 # 2 /\ Peer(1) = 2 /\ Peer(2) = 1
  BY DEF Node, Peer

LEMMA ExStartDDFine ==
    ASSUME Apart, TypeOK, NEW n \in Node, NEW e, NEW f \in Neighbor, NEW In,
           NEW c \in Seq(Packet), NEW U, Fine(n, e, f, In, c, U), e.state = EXSTART,
           NEW dd \in In, dd \in DDPacket,
           NEW Rest \in SUBSET In, dd.I => ~Called(Rest, dd.seq)
    PROVE  Fine(n, ExStartDD(e, n, dd), f, Rest, c, {})
<1>1. CASE IsInitDD(dd) /\ Peer(n) > n
  <2>1. n = 1 /\ dd.I
    BY <1>1, Routers DEF IsInitDD
  <2>2. ExStartDD(e, n, dd) = BecomeSlave(e, n, dd)
    <3>1. ~(Peer(n) < n)
      BY <2>1, Routers
    <3>q. QED
      BY <1>1, <3>1 DEF ExStartDD
  <2>3. Fine(1, BecomeSlave(e, 1, dd), f, Rest, c, {})
    BY <1>1, <2>1, BecomeSlaveFine
  <2>q. QED
    BY <2>1, <2>2, <2>3
<1>2. CASE /\ ~(IsInitDD(dd) /\ Peer(n) > n)
           /\ ~dd.I /\ ~dd.MS /\ Peer(n) < n /\ dd.seq = e.seq
  <2>1. n = 2
    BY <1>2, Routers
  <2>2. ExStartDD(e, n, dd) = BecomeMaster(e, n, dd)
    BY <1>2 DEF ExStartDD
  <2>3. Fine(2, BecomeMaster(e, 2, dd), f, Rest, c, {})
    BY <1>2, <2>1, BecomeMasterFine
  <2>q. QED
    BY <2>1, <2>2, <2>3
<1>3. CASE /\ ~(IsInitDD(dd) /\ Peer(n) > n)
           /\ ~(~dd.I /\ ~dd.MS /\ Peer(n) < n /\ dd.seq = e.seq)
  <2>1. ExStartDD(e, n, dd) = e
    BY <1>3 DEF ExStartDD
  <2>q. QED
    BY <2>1, FineLess
<1>q. QED
  BY <1>1, <1>2, <1>3

LEMMA MasterById ==
    ASSUME NEW n \in Node, NEW e, Sound(n, e), e.state >= EXCHANGE
    PROVE  e.master <=> n > Peer(n)
<1>1. e.master = (n > Peer(n))
  BY DEF Sound, RoleFollowsId
<1>q. QED
  BY <1>1

(* A repeated DD: the slave answers again, the master does not. *)
LEMMA AgainFine ==
    ASSUME Apart, NEW n \in Node, NEW e, NEW f \in Neighbor, NEW In,
           NEW c \in Seq(Packet), NEW U, Fine(n, e, f, In, c, U), Sound(n, e),
           e.state >= EXCHANGE, NEW dd \in In, dd \in DDPacket, IsDuplicate(e, dd),
           NEW Rest \in SUBSET In
    PROVE  Fine(n, IF e.master THEN e ELSE Retransmit(e), f, Rest, c, {})
<1>1. e.master <=> n > Peer(n)
  BY MasterById
<1>2. CASE n = 1
  <2>1. ~e.master
    BY <1>1, <1>2, Routers
  <2>2. Fine(1, Retransmit(e), f, Rest, c, {})
    <3>1. Fine(1, e, f, In, c, U)
      BY <1>2
    <3>q. QED
      BY <3>1, RetransmitFine
  <2>q. QED
    BY <1>2, <2>1, <2>2
<1>3. CASE n = 2
  <2>1. e.master
    BY <1>1, <1>3, Routers
  <2>2. Fine(n, e, f, Rest, c, {})
    BY FineLess
  <2>q. QED
    BY <2>1, <2>2
<1>q. QED
  BY <1>2, <1>3, Routers

LEMMA ExchangeDDFine ==
    ASSUME Apart, NEW n \in Node, NEW e, NEW f \in Neighbor, NEW In,
           NEW c \in Seq(Packet), NEW U, Fine(n, e, f, In, c, U), Sound(n, e),
           e.state = EXCHANGE, NEW dd \in In, dd \in DDPacket,
           NEW Rest \in SUBSET In, NEW s \in U
    PROVE  Fine(n, ExchangeDD(e, n, dd, s), f, Rest, c, {})
<1>0. e.state >= EXCHANGE /\ (e.master <=> n > Peer(n))
  BY StateOrder, MasterById
<1>1. CASE IsDuplicate(e, dd)
  <2>1. ExchangeDD(e, n, dd, s) = IF e.master THEN e ELSE Retransmit(e)
    BY <1>1 DEF ExchangeDD
  <2>2. Fine(n, IF e.master THEN e ELSE Retransmit(e), f, Rest, c, {})
    BY <1>0, <1>1, AgainFine
  <2>q. QED
    BY <2>1, <2>2
<1>2. CASE ~IsDuplicate(e, dd) /\ n = 1
  <2>1. ~e.master
    BY <1>0, <1>2, Routers
  <2>2. ExchangeDD(e, n, dd, s) = SlaveExchangeDD(e, n, dd, s)
    BY <1>2, <2>1 DEF ExchangeDD
  <2>3. Fine(1, SlaveExchangeDD(e, 1, dd, s), f, Rest, c, {})
    <3>1. Fine(1, e, f, In, c, U)
      BY <1>2
    <3>q. QED
      BY <3>1, SlaveExchangeFine
  <2>q. QED
    BY <1>2, <2>2, <2>3
<1>3. CASE ~IsDuplicate(e, dd) /\ n = 2
  <2>1. e.master
    BY <1>0, <1>3, Routers
  <2>2. ExchangeDD(e, n, dd, s) = MasterExchangeDD(e, n, dd, s)
    BY <1>3, <2>1 DEF ExchangeDD
  <2>3. Fine(2, MasterExchangeDD(e, 2, dd, s), f, Rest, c, {})
    <3>1. Fine(2, e, f, In, c, U)
      BY <1>3
    <3>q. QED
      BY <3>1, MasterExchangeFine
  <2>q. QED
    BY <1>3, <2>2, <2>3
<1>q. QED
  BY <1>1, <1>2, <1>3, Routers

LEMMA MismatchFineLess ==
    ASSUME Apart, NEW n \in Node, NEW e, NEW f, NEW In, NEW c \in Seq(Packet), NEW U,
           Fine(n, e, f, In, c, U), NEW s \in U, NEW Rest \in SUBSET In
    PROVE  Fine(n, SeqNumMismatch(e, s), f, Rest, c, {})
<1>1. Fine(n, SeqNumMismatch(e, s), f, In, c, U \ {s})
  BY SeqNumMismatchFine
<1>q. QED
  BY <1>1, FineLess

LEMMA ProcessDDFine ==
    ASSUME Apart, TypeOK, NEW n \in Node, NEW e, NEW f \in Neighbor, NEW In,
           NEW c \in Seq(Packet), NEW U, Fine(n, e, f, In, c, U), Sound(n, e),
           NEW dd \in In, dd \in DDPacket,
           NEW Rest \in SUBSET In, dd.I => ~Called(Rest, dd.seq),
           NEW s, e.state >= EXCHANGE => s \in U
    PROVE  Fine(n, ProcessDD(e, n, dd, s), f, Rest, c, {})
<1>0. e.state \in State /\ e \in Neighbor
  BY DEF Sound, Neighbor
<1>1. CASE e.state < EXSTART
  <2>1. e.state # EXSTART /\ e.state # EXCHANGE /\ e.state # LOADING /\ e.state # FULL
    BY <1>0, <1>1, StateOrder
  <2>2. ProcessDD(e, n, dd, s) = e
    BY <2>1 DEF ProcessDD
  <2>q. QED
    BY <2>2, FineLess
<1>2. CASE e.state = EXSTART
  <2>1. e.state # EXCHANGE /\ e.state # LOADING /\ e.state # FULL
    BY <1>2, StateOrder
  <2>2. ProcessDD(e, n, dd, s) = ExStartDD(e, n, dd)
    BY <1>2, <2>1 DEF ProcessDD
  <2>q. QED
    BY <1>2, <2>2, ExStartDDFine
<1>3. CASE e.state = EXCHANGE
  <2>1. e.state >= EXCHANGE /\ e.state # EXSTART /\ e.state # LOADING /\ e.state # FULL
    BY <1>3, StateOrder
  <2>2. ProcessDD(e, n, dd, s) = ExchangeDD(e, n, dd, s)
    BY <1>3, <2>1 DEF ProcessDD
  <2>q. QED
    BY <1>3, <2>1, <2>2, ExchangeDDFine
<1>4. CASE e.state \in {LOADING, FULL}
  <2>1. e.state >= EXCHANGE /\ e.state # EXSTART /\ e.state # EXCHANGE
    BY <1>4, StateOrder
  <2>2. ProcessDD(e, n, dd, s) = LateDD(e, dd, s)
    BY <1>4, <2>1 DEF ProcessDD
  <2>3. CASE IsDuplicate(e, dd)
    <3>1. ProcessDD(e, n, dd, s) = IF e.master THEN e ELSE Retransmit(e)
      BY <2>2, <2>3 DEF LateDD
    <3>2. Fine(n, IF e.master THEN e ELSE Retransmit(e), f, Rest, c, {})
      BY <2>1, <2>3, AgainFine
    <3>q. QED
      BY <3>1, <3>2
  <2>4. CASE ~IsDuplicate(e, dd)
    <3>1. ProcessDD(e, n, dd, s) = SeqNumMismatch(e, s)
      BY <2>2, <2>4 DEF LateDD
    <3>q. QED
      BY <2>1, <3>1, MismatchFineLess
  <2>q. QED
    BY <2>3, <2>4
<1>q. QED
  BY <1>0, <1>1, <1>2, <1>3, <1>4, StateOrder

-----------------------------------------------------------------------------
(* Requests and updates.                                                   *)

LEMMA ProcessLSRequestFine ==
    ASSUME Apart, TypeOK, NEW n \in Node, NEW e, NEW f, NEW In,
           NEW c \in Seq(Packet), NEW U, Fine(n, e, f, In, c, U), Sound(n, e),
           NEW ks \in SUBSET Key, NEW s \in U
    PROVE  Fine(n, ProcessLSRequest(e, n, ks, s), f, In, c, {})
<1> DEFINE p == LSU({[key |-> k, inst |-> db[n][k]] : k \in ks})
<1>1. p \in Packet /\ p.type # "DD"
  BY LSUType DEF LSU
<1>2. ProcessLSRequest(e, n, ks, s) \in {e, SeqNumMismatch(e, s), Emit(e, p)}
  BY DEF ProcessLSRequest
<1> HIDE DEF p
<1>3. Fine(n, e, f, In, c, {}) /\ Fine(n, SeqNumMismatch(e, s), f, In, c, {})
  BY FineLess, MismatchFineLess
<1>4. Fine(n, Emit(e, p), f, In, c, {})
  BY <1>1, <1>3, EmitFine
<1>q. QED
  BY <1>2, <1>3, <1>4

LEMMA ProcessLSUpdateFine ==
    ASSUME NEW n \in Node, NEW e, NEW f, NEW In, NEW c \in Seq(Packet), NEW U,
           Fine(n, e, f, In, c, U), NEW ks \in SUBSET Key, NEW d
    PROVE  Fine(n, ProcessLSUpdate(e, ks, d), f, In, c, U)
<1> DEFINE g == [e EXCEPT !.request = {h \in @ : h.key \notin ks},
                          !.struck = @ \cup {k \in ks : \E h \in e.request :
                                               h.key = k /\ d[k] < h.inst}]
           h == [g EXCEPT !.state = FULL]
<1>0. e \in Neighbor
  BY DEF Fine
<1>1. /\ g \in Neighbor /\ g.out = e.out /\ Alike(e, g) /\ g.state = e.state
  BY <1>0 DEF Neighbor, Alike
<1>2. ProcessLSUpdate(e, ks, d) = IF g.state = LOADING /\ g.request = {} THEN h ELSE g
  BY DEF ProcessLSUpdate, LoadingDone
<1> HIDE DEF g
<1>3. h \in Neighbor /\ h.out = e.out /\ (g.state = LOADING => Alike(e, h))
  <2>1. /\ h \in Neighbor /\ h.state = FULL /\ h.out = g.out /\ h.seq = g.seq
        /\ h.told = g.told /\ h.listed = g.listed /\ h.summary = g.summary
        /\ h.ddTimer = g.ddTimer /\ h.lastRx = g.lastRx /\ h.lastTx = g.lastTx
    BY <1>1, StateType DEF Neighbor
  <2> HIDE DEF h
  <2>q. QED
    BY <1>1, <2>1, StateOrder DEF Alike
<1> HIDE DEF h
<1>q. QED
  BY <1>1, <1>2, <1>3, QuietFine

-----------------------------------------------------------------------------
(* The invariant, and the frame of a callback.                             *)

(* The two objects, with the DDs between them, are in step. *)
ExchInv ==
    /\ \A n \in Node : nbr[n].out = <<>> /\ Once(chan[n])
    /\ Exch(nbr[2], nbr[1], DDsOf(chan[1]), DDsOf(chan[2]))

(* What it takes.  Random numbers do not collide and are so far apart that *)
(* no exchange counts from one into another: 2^31 numbers, a database of   *)
(* fewer batches than Span.                                                *)
Distinct ==
    /\ ~Collisions
    /\ IsFiniteSet(Key) /\ Cardinality(Key) + 3 <= Span
    /\ \A s, t \in InitSeq : s < t => s + Span <= t

LEMMA DistinctApart == ASSUME Distinct PROVE Apart
<1>1. InitSeq \subseteq Int /\ Span \in Int
  BY SeqNumType, ConstantsAssumption
<1>2. N \in Nat
  BY FS_CardinalityType DEF N, Distinct
<1>q. QED
  BY <1>1, <1>2 DEF Apart, Distinct, N

LEMMA ExchHere ==
    ASSUME IInv, NEW n \in Node
    PROVE  /\ TypeOK /\ Sound(n, nbr[n]) /\ nbr[n] \in Neighbor /\ nbr[Peer(n)] \in Neighbor
           /\ nbr \in [Node -> Neighbor] /\ chan \in [Node -> Seq(Packet)]
           /\ chan[n] \in Seq(Packet) /\ chan[Peer(n)] \in Seq(Packet)
           /\ wanted[n] \in BOOLEAN /\ Peer(n) \in Node /\ Peer(n) # n
<1>1. Peer(n) \in Node /\ Peer(n) # n
  BY DEF Peer, Node
<1>2. TypeOK /\ Sound(n, nbr[n])
  BY DEF IInv
<1>q. QED
  BY <1>1, <1>2 DEF TypeOK

LEMMA ExchFrame ==
    ASSUME IInv, ExchInv, NEW n \in Node, NEW e, NEW c \in Seq(Packet), Once(c),
           Fine(n, e, nbr[Peer(n)], DDsOf(c), chan[Peer(n)], {}),
           nbr' = [nbr EXCEPT ![n] = Done(e)],
           chan' = [chan EXCEPT ![n] = c, ![Peer(n)] = @ \o e.out]
    PROVE  ExchInv'
<1> DEFINE g == Done(e)
           f == nbr[Peer(n)]
           o == chan[Peer(n)] \o e.out
<1>1. /\ nbr'[n] = g /\ nbr'[Peer(n)] = f /\ chan'[n] = c /\ chan'[Peer(n)] = o
      /\ f.out = <<>>
  BY ExchHere DEF ExchInv
<1>2. /\ e \in Neighbor /\ Pair(n, e, f, DDsOf(c), DDsOf(o)) /\ Once(o)
  BY DEF Fine
<1>3. g \in Neighbor /\ g.out = <<>> /\ Alike(e, g)
  <2>1. <<>> \in Seq(Packet)
    OBVIOUS
  <2>q. QED
    BY <1>2, <2>1 DEF Done, Neighbor, Alike
<1> HIDE DEF g, f, o
<1>4. Pair(n, g, f, DDsOf(c), DDsOf(o))
  BY <1>2, <1>3, PairMore
<1>5. CASE n = 1
  <2>1. /\ nbr'[1] = g /\ nbr'[2] = f /\ chan'[1] = c /\ chan'[2] = o
    BY <1>1, <1>5, Routers
  <2>2. Exch(nbr'[2], nbr'[1], DDsOf(chan'[1]), DDsOf(chan'[2]))
    BY <1>4, <1>5, <2>1 DEF Pair
  <2>3. \A m \in Node : nbr'[m].out = <<>> /\ Once(chan'[m])
    BY <1>1, <1>2, <1>3, <2>1, Routers
  <2>q. QED
    BY <2>2, <2>3 DEF ExchInv
<1>6. CASE n = 2
  <2>1. /\ nbr'[2] = g /\ nbr'[1] = f /\ chan'[2] = c /\ chan'[1] = o
    BY <1>1, <1>6, Routers
  <2>2. Exch(nbr'[2], nbr'[1], DDsOf(chan'[1]), DDsOf(chan'[2]))
    BY <1>4, <1>6, <2>1, Routers DEF Pair
  <2>3. \A m \in Node : nbr'[m].out = <<>> /\ Once(chan'[m])
    BY <1>1, <1>2, <1>3, <2>1, Routers
  <2>q. QED
    BY <2>2, <2>3 DEF ExchInv
<1>q. QED
  BY <1>5, <1>6, Routers

LEMMA DeliveredExch ==
    ASSUME IInv, ExchInv, NEW n \in Node, NEW e, chan[n] # <<>>,
           Fine(n, e, nbr[Peer(n)], DDsOf(Tail(chan[n])), chan[Peer(n)], {}),
           nbr' = [nbr EXCEPT ![n] = Done(e)], Deliver(n, e.out)
    PROVE  ExchInv'
<1>1. chan' = [chan EXCEPT ![n] = Tail(chan[n]), ![Peer(n)] = @ \o e.out]
  BY ExchHere DEF Deliver
<1>2. Tail(chan[n]) \in Seq(Packet) /\ Once(Tail(chan[n]))
  BY ExchHere, TailDDs DEF ExchInv
<1>q. QED
  BY <1>1, <1>2, ExchFrame

LEMMA TransmittedExch ==
    ASSUME IInv, ExchInv, NEW n \in Node, NEW e,
           Fine(n, e, nbr[Peer(n)], DDsOf(chan[n]), chan[Peer(n)], {}),
           nbr' = [nbr EXCEPT ![n] = Done(e)], Transmit(n, e.out)
    PROVE  ExchInv'
<1>1. chan' = [chan EXCEPT ![n] = chan[n], ![Peer(n)] = @ \o e.out]
  BY ExchHere DEF Transmit
<1>2. chan[n] \in Seq(Packet) /\ Once(chan[n])
  BY ExchHere DEF ExchInv
<1>q. QED
  BY <1>1, <1>2, ExchFrame

(* What is fresh, no packet and no object is near. *)
LEMMA FreshUnused ==
    ASSUME IInv, Span \in Int, NEW n \in Node, NEW s, NEW drawn, s \in Fresh(drawn)
    PROVE  Unused(s, DDsOf(chan[n]), DDsOf(chan[Peer(n)]), nbr[Peer(n)])
<1>1. s \in InitSeq /\ s \in Int /\ \A t \in LiveSeq : t < s \/ t >= s + Span
  BY SeqNumType DEF Fresh
<1>2. Peer(n) \in Node /\ nbr[Peer(n)].seq \in LiveSeq /\ nbr[Peer(n)].seq \in Int
  BY ExchHere, NeighborFields DEF LiveSeq
<1>3. ASSUME NEW m \in Node, NEW p \in DDsOf(chan[m])
      PROVE  p.seq \in LiveSeq /\ p.seq \in Int
  <2>1. p \in DDPacket /\ p.type = "DD" /\ \E i \in 1..Len(chan[m]) : chan[m][i] = p
    BY DEF DDsOf, DDPacket
  <2>2. PICK i \in 1..Len(chan[m]) : chan[m][i] = p
    BY <2>1
  <2>3. chan[m][i].seq \in {chan[m][j].seq : j \in {k \in 1..Len(chan[m]) :
                                                       chan[m][k].type = "DD"}}
    BY <2>1, <2>2
  <2>4. chan[m][i].seq \in LiveSeq
    BY <2>3 DEF LiveSeq
  <2>q. QED
    BY <2>1, <2>2, <2>4, DDSeqs
<1>4. ASSUME NEW t \in LiveSeq, t \in Int PROVE ~Of(t, s)
  BY <1>1, <1>4 DEF Of
<1>q. QED
  BY <1>2, <1>3, <1>4 DEF Unused

LEMMA Drawn ==
    ASSUME ~Collisions, NumbersLeft
    PROVE  /\ SeqChoice({}) \subseteq Fresh({})
           /\ \A s \in SeqChoice({}) : s \in InitSeq /\ SeqChoice({s}) \subseteq Fresh({s})
<1>1. \A s \in InitSeq : Fresh({s}) # {} /\ Fresh({s}) \subseteq Fresh({})
  BY DEF NumbersLeft, Fresh
<1>2. Fresh({}) # {} /\ Fresh({}) \subseteq InitSeq
  BY <1>1, ConstantsAssumption DEF Fresh
<1>3. \A drawn : Fresh(drawn) # {} => SeqChoice(drawn) \subseteq Fresh(drawn)
  BY DEF SeqChoice
<1>q. QED
  BY <1>1, <1>2, <1>3

(* A callback at n begins: the numbers of U are fresh. *)
LEMMA BeginFine ==
    ASSUME Apart, IInv, ExchInv, NEW n \in Node, NEW U,
           \A u \in U : \E drawn : u \in Fresh(drawn)
    PROVE  Fine(n, nbr[n], nbr[Peer(n)], DDsOf(chan[n]), chan[Peer(n)], U)
<1>1. /\ nbr[n].out = <<>> /\ nbr[n] \in Neighbor /\ chan[Peer(n)] \in Seq(Packet)
      /\ Peer(n) \in Node
  BY ExchHere DEF ExchInv
<1>2. chan[Peer(n)] \o nbr[n].out = chan[Peer(n)]
  BY <1>1
<1>3. Pair(n, nbr[n], nbr[Peer(n)], DDsOf(chan[n]), DDsOf(chan[Peer(n)]))
  BY Routers DEF Pair, ExchInv
<1>4. \A u \in U : u \in InitSeq
                   /\ Unused(u, DDsOf(chan[n]), DDsOf(chan[Peer(n)]), nbr[Peer(n)])
  BY FreshUnused DEF Apart, Fresh
<1>q. QED
  BY <1>1, <1>2, <1>3, <1>4 DEF Fine, ExchInv

-----------------------------------------------------------------------------
(* One lemma for each action.                                              *)

LEMMA Begin ==
    ASSUME Distinct, NumbersLeft, IInv, ExchInv, NEW n \in Node, NEW U,
           \A u \in U : u \in SeqChoice({}) \/ \E s \in SeqChoice({}) : u \in SeqChoice({s})
    PROVE  /\ Fine(n, nbr[n], nbr[Peer(n)], DDsOf(chan[n]), chan[Peer(n)], U)
           /\ chan[n] # <<>> => Fine(n, nbr[n], nbr[Peer(n)], DDsOf(Tail(chan[n])),
                                     chan[Peer(n)], U)
<1>1. \A u \in U : \E drawn : u \in Fresh(drawn)
  BY Drawn DEF Distinct
<1>2. Fine(n, nbr[n], nbr[Peer(n)], DDsOf(chan[n]), chan[Peer(n)], U)
  BY <1>1, DistinctApart, BeginFine
<1>3. chan[n] # <<>> => DDsOf(Tail(chan[n])) \subseteq DDsOf(chan[n])
  BY ExchHere, TailDDs DEF ExchInv
<1>q. QED
  BY <1>2, <1>3, FineLess

LEMMA ReceiveHelloExch ==
    ASSUME Distinct, NumbersLeft, IInv, ExchInv, NEW n \in Node, ReceiveHello(n)
    PROVE  ExchInv'
<1> DEFINE sees == Head(chan[n]).sees
           e0 == nbr[n]
           f  == nbr[Peer(n)]
           In == DDsOf(Tail(chan[n]))
           c  == chan[Peer(n)]
           e1 == HelloReceived(e0)
           e2(s1) == CASE sees /\ e1.state = INIT -> TwoWayReceived(e1, wanted[n], s1)
                       [] ~sees /\ e1.state >= TWOWAY -> OneWay(e1)
                       [] OTHER -> e1
           e3(w1, s1) == IF Crossed(e0, e2(s1)) THEN AdjOK(e2(s1), w1, s1) ELSE e2(s1)
           e4(w1, w2, s1, s2) == AdjOK(e3(w1, s1), w2, s2)
<1>a. PICK w1 \in Outcome, w2 \in Outcome, s1 \in SeqChoice({}) :
        \E s2 \in SeqChoice({s1}) :
          /\ nbr' = [nbr EXCEPT ![n] = Done(e4(w1, w2, s1, s2))]
          /\ Deliver(n, e4(w1, w2, s1, s2).out)
  BY ZenonT(40) DEF ReceiveHello
<1> HIDE DEF e2, e3, e4
<1>1. PICK s2 \in SeqChoice({s1}) :
        /\ nbr' = [nbr EXCEPT ![n] = Done(e4(w1, w2, s1, s2))]
        /\ Deliver(n, e4(w1, w2, s1, s2).out)
  BY <1>a
<1> USE DEF e2, e3, e4
<1> DEFINE U == {s1, s2}
<1>2. /\ w1 \in BOOLEAN /\ w2 \in BOOLEAN /\ s1 \in SeqNum /\ s2 \in SeqNum
      /\ wanted[n] \in BOOLEAN /\ Sound(n, e0) /\ c \in Seq(Packet) /\ Apart
  BY OutcomeType, SeqChoiceType, ExchHere, DistinctApart
<1>3. s1 # s2
  BY Drawn DEF Distinct, Fresh
<1>4. chan[n] # <<>>
  BY DEF ReceiveHello, Arrived
<1>5. Fine(n, e0, f, In, c, U)
  BY <1>4, Begin
<1> HIDE DEF f, In, c
<1>6. Fine(n, e1, f, In, c, U) /\ Sound(n, e1)
  BY <1>2, <1>5, HelloReceivedFine, HelloReceivedSound
<1> HIDE DEF e1
<1>7. /\ Sound(n, e2(s1))
      /\ \/ Fine(n, e2(s1), f, In, c, U)
         \/ Fine(n, e2(s1), f, In, c, U \ {s1}) /\ e2(s1).state = EXSTART
  <2>1. CASE sees /\ e1.state = INIT
    <3>1. e2(s1) = TwoWayReceived(e1, wanted[n], s1)
      BY <2>1
    <3>2. Sound(n, TwoWayReceived(e1, wanted[n], s1))
      BY <1>2, <1>6, <2>1, TwoWayReceivedSound
    <3>3. /\ wanted[n] => TwoWayReceived(e1, wanted[n], s1).state = EXSTART
               /\ Fine(n, TwoWayReceived(e1, wanted[n], s1), f, In, c, U \ {s1})
          /\ ~wanted[n] => Fine(n, TwoWayReceived(e1, wanted[n], s1), f, In, c, U)
      <4> DEFINE v == wanted[n]
      <4>1. s1 \in U /\ v \in BOOLEAN /\ e1.state = INIT /\ c \in Seq(Packet) /\ Apart
        BY <1>2, <2>1
      <4> HIDE DEF U, v, e2, e3, e4
      <4>2. /\ v => TwoWayReceived(e1, v, s1).state = EXSTART
                    /\ Fine(n, TwoWayReceived(e1, v, s1), f, In, c, U \ {s1})
            /\ ~v => Fine(n, TwoWayReceived(e1, v, s1), f, In, c, U)
        BY <1>6, <4>1, TwoWayReceivedFine
      <4>q. QED
        BY <4>2 DEF v
    <3> HIDE DEF e2
    <3>q. QED
      BY <3>1, <3>2, <3>3
  <2>2. CASE ~(sees /\ e1.state = INIT)
    <3>1. Sound(n, e1) /\ Sound(n, OneWay(e1))
      BY <1>6, OneWaySound
    <3>2. Fine(n, e1, f, In, c, U) /\ Fine(n, OneWay(e1), f, In, c, U)
      BY <1>6, OneWayFine
    <3>q. QED
      BY <2>2, <3>1, <3>2
  <2>q. QED
    BY <2>1, <2>2
<1> HIDE DEF e2
<1>8. Fine(n, e3(w1, s1), f, In, c, U \ {s1}) /\ Sound(n, e3(w1, s1))
  <2>1. Sound(n, AdjOK(e2(s1), w1, s1))
    BY <1>2, <1>7, AdjOKSound
  <2>2. CASE Fine(n, e2(s1), f, In, c, U)
    <3>1. s1 \in U
      OBVIOUS
    <3> HIDE DEF U
    <3>2. Fine(n, AdjOK(e2(s1), w1, s1), f, In, c, U \ {s1})
      BY <1>2, <1>7, <2>2, <3>1, AdjOKFine
    <3>3. Fine(n, e2(s1), f, In, c, U \ {s1})
      BY <2>2, FineLess
    <3>q. QED
      BY <1>7, <2>1, <3>2, <3>3
  <2>3. CASE Fine(n, e2(s1), f, In, c, U \ {s1}) /\ e2(s1).state = EXSTART
    <3> DEFINE V == U \ {s1}
    <3>1. V \ {s1} = V /\ e2(s1).state # TWOWAY
      BY <2>3, StateOrder
    <3> HIDE DEF V
    <3>2. Fine(n, AdjOK(e2(s1), w1, s1), f, In, c, V \ {s1})
      BY <1>2, <1>7, <2>3, <3>1, AdjOKFine DEF V
    <3>q. QED
      BY <1>7, <2>1, <2>3, <3>1, <3>2 DEF V
  <2>q. QED
    BY <1>7, <2>2, <2>3
<1> HIDE DEF e3
<1>9. Fine(n, e4(w1, w2, s1, s2), f, In, c, {})
  <2> DEFINE V == U \ {s1}
  <2>1. s2 \in V /\ V \ {s2} = {}
    BY <1>3
  <2> HIDE DEF V
  <2>2. Fine(n, AdjOK(e3(w1, s1), w2, s2), f, In, c, V \ {s2})
    BY <1>2, <1>8, <2>1, AdjOKFine DEF V
  <2>q. QED
    BY <2>1, <2>2
<1> HIDE DEF e4
<1>q. QED
  BY <1>1, <1>4, <1>9, DeliveredExch DEF f, In, c

LEMMA AdjOKLow ==
    ASSUME NEW e \in Neighbor, NEW w \in BOOLEAN, NEW s \in SeqNum,
           e.state = EXSTART \/ e.state = TWOWAY
    PROVE  AdjOK(e, w, s).state = EXSTART \/ AdjOK(e, w, s).state = TWOWAY
<1> DEFINE g == [e EXCEPT !.state = EXSTART]
           h == [e EXCEPT !.state = TWOWAY]
<1>1. /\ g \in Neighbor /\ g.state = EXSTART /\ h \in Neighbor /\ h.state = TWOWAY
  BY StateType DEF Neighbor
<1>2. AdjOK(e, w, s) \in {e, StartDDExchange(g, s), StopTimers(ClearLists(h))}
  BY DEF AdjOK
<1> HIDE DEF g, h
<1>3. StartDDExchange(g, s).state = EXSTART
  BY <1>1, Routers, StartSound
<1>4. StopTimers(ClearLists(h)).state = TWOWAY
  BY <1>1, Routers, StateOrder, ClearedSound
<1>q. QED
  BY <1>2, <1>3, <1>4

LEMMA ReceiveDDExch ==
    ASSUME Distinct, NumbersLeft, IInv, ExchInv, NEW n \in Node, ReceiveDD(n)
    PROVE  ExchInv'
<1> DEFINE dd == Head(chan[n])
           e0 == nbr[n]
           f  == nbr[Peer(n)]
           In == DDsOf(chan[n])
           Rest == DDsOf(Tail(chan[n]))
           c  == chan[Peer(n)]
           e1(w, s1) == IF e0.state = INIT
                          THEN AdjOK(TwoWayReceived(e0, wanted[n], s1), w, s1)
                          ELSE e0
           e2(w, s1, s2) == ProcessDD(e1(w, s1), n, dd, s2)
<1>0. Arrived(n, "DD") /\ chan[n] # <<>>
  BY DEF ReceiveDD, Arrived
<1>1. PICK w \in Outcome, s1 \in SeqChoice({}), s2 \in SeqChoice({}) :
        /\ nbr' = [nbr EXCEPT ![n] = Done(e2(w, s1, s2))]
        /\ Deliver(n, e2(w, s1, s2).out)
  BY DEF ReceiveDD
<1>2. /\ w \in BOOLEAN /\ s1 \in SeqNum /\ s2 \in SeqNum /\ wanted[n] \in BOOLEAN
      /\ TypeOK /\ dd \in DDPacket /\ Sound(n, e0) /\ f \in Neighbor
      /\ c \in Seq(Packet) /\ Apart
  BY <1>0, OutcomeType, SeqChoiceType, ExchHere, ArrivedType, DistinctApart
<1>3. /\ dd \in In /\ Rest \subseteq In /\ (dd.I => ~Called(Rest, dd.seq))
  BY <1>0, <1>2, ExchHere, TailDDs DEF ExchInv
<1>4. Fine(n, e0, f, In, c, {s1}) /\ Fine(n, e0, f, In, c, {s2})
  BY Begin
<1> HIDE DEF dd, e0, f, In, Rest, c
<1>5. CASE e0.state = INIT
  <2> DEFINE t == TwoWayReceived(e0, wanted[n], s1)
             e == AdjOK(t, w, s1)
  <2>1. Sound(n, t) /\ t.state = IF wanted[n] THEN EXSTART ELSE TWOWAY
    BY <1>2, <1>5, TwoWayReceivedSound
  <2>2. /\ wanted[n] => t.state = EXSTART /\ Fine(n, t, f, In, c, {s1} \ {s1})
        /\ ~wanted[n] => Fine(n, t, f, In, c, {s1})
    <3> DEFINE U == {s1}
    <3>1. s1 \in U /\ Fine(n, e0, f, In, c, U)
      BY <1>4
    <3> DEFINE v == wanted[n]
    <3>2. v \in BOOLEAN /\ c \in Seq(Packet) /\ Apart /\ Sound(n, e0)
      BY <1>2
    <3> HIDE DEF U, v
    <3>3. /\ v => TwoWayReceived(e0, v, s1).state = EXSTART
                  /\ Fine(n, TwoWayReceived(e0, v, s1), f, In, c, U \ {s1})
          /\ ~v => Fine(n, TwoWayReceived(e0, v, s1), f, In, c, U)
      BY <1>5, <3>1, <3>2, TwoWayReceivedFine
    <3>q. QED
      BY <3>3 DEF U, v
  <2> HIDE DEF t
  <2>3. Fine(n, e, f, In, c, {}) /\ Sound(n, e)
    <3>1. CASE wanted[n]
      <4> DEFINE V == {s1} \ {s1}
      <4>1. V \ {s1} = {} /\ t.state # TWOWAY /\ Fine(n, t, f, In, c, V)
        BY <2>2, <3>1, StateOrder
      <4> HIDE DEF V
      <4>2. Fine(n, e, f, In, c, V \ {s1})
        BY <1>2, <2>1, <4>1, AdjOKFine
      <4>q. QED
        BY <1>2, <2>1, <4>1, <4>2, AdjOKSound
    <3>2. CASE ~wanted[n]
      <4> DEFINE V == {s1}
      <4>1. V \ {s1} = {} /\ s1 \in V /\ Fine(n, t, f, In, c, V)
        BY <2>2, <3>2
      <4> HIDE DEF V
      <4>2. Fine(n, e, f, In, c, V \ {s1})
        BY <1>2, <2>1, <4>1, AdjOKFine
      <4>q. QED
        BY <1>2, <2>1, <4>1, <4>2, AdjOKSound
    <3>q. QED
      BY <3>1, <3>2
  <2>4. ~(e.state >= EXCHANGE)
    <3>1. t.state = EXSTART \/ t.state = TWOWAY
      BY <2>1
    <3>2. t \in Neighbor /\ s1 \in SeqNum
      BY <1>2, <2>1 DEF Sound
    <3>3. e.state = EXSTART \/ e.state = TWOWAY
      BY <1>2, <3>1, <3>2, AdjOKLow
    <3> HIDE DEF e
    <3>q. QED
      BY <3>3, StateOrder
  <2> HIDE DEF e
  <2>5. Fine(n, ProcessDD(e, n, dd, s2), f, Rest, c, {})
    BY <1>2, <1>3, <2>3, <2>4, ProcessDDFine
  <2>6. e2(w, s1, s2) = ProcessDD(e, n, dd, s2)
    BY <1>5 DEF e, t
  <2> HIDE DEF e2
  <2>q. QED
    BY <1>0, <1>1, <2>5, <2>6, DeliveredExch DEF f, Rest, c
<1>6. CASE e0.state # INIT
  <2>1. e2(w, s1, s2) = ProcessDD(e0, n, dd, s2)
    BY <1>6
  <2>2. s2 \in {s2}
    OBVIOUS
  <2>3. Fine(n, ProcessDD(e0, n, dd, s2), f, Rest, c, {})
    BY <1>2, <1>3, <1>4, <2>2, ProcessDDFine
  <2> HIDE DEF e2
  <2>q. QED
    BY <1>0, <1>1, <2>1, <2>3, DeliveredExch DEF f, Rest, c
<1>q. QED
  BY <1>5, <1>6

LEMMA ReceiveLSRExch ==
    ASSUME Distinct, NumbersLeft, IInv, ExchInv, NEW n \in Node, ReceiveLSR(n)
    PROVE  ExchInv'
<1> DEFINE g(s) == ProcessLSRequest(nbr[n], n, Head(chan[n]).keys, s)
           f  == nbr[Peer(n)]
           In == DDsOf(Tail(chan[n]))
           c  == chan[Peer(n)]
<1>0. Arrived(n, "LSR") /\ chan[n] # <<>>
  BY DEF ReceiveLSR, Arrived
<1>1. PICK s \in SeqChoice({}) :
        nbr' = [nbr EXCEPT ![n] = Done(g(s))] /\ Deliver(n, g(s).out)
  BY DEF ReceiveLSR
<1>2. /\ TypeOK /\ Sound(n, nbr[n]) /\ Head(chan[n]).keys \in SUBSET Key
      /\ c \in Seq(Packet) /\ Apart
  BY <1>0, ExchHere, ArrivedType, DistinctApart
<1>3. Fine(n, nbr[n], f, In, c, {s}) /\ s \in {s}
  BY <1>0, Begin
<1> HIDE DEF f, In, c
<1>4. Fine(n, g(s), f, In, c, {})
  BY <1>2, <1>3, ProcessLSRequestFine
<1> HIDE DEF g
<1>q. QED
  BY <1>0, <1>1, <1>4, DeliveredExch DEF f, In, c

LEMMA ReceiveLSUExch ==
    ASSUME Distinct, NumbersLeft, IInv, ExchInv, NEW n \in Node, ReceiveLSU(n)
    PROVE  ExchInv'
<1> DEFINE lsas == Head(chan[n]).lsas
           older  == {h \in lsas : h.inst < db[n][h.key]}
           answer == {[key |-> h.key, inst |-> db[n][h.key]] : h \in older}
           e0 == nbr[n]
           e1 == IF answer = {} THEN e0 ELSE Emit(e0, LSU(answer))
           newer(refused) == Installable(n, lsas, refused)
           row(refused) == [k \in Key |-> IF nbr[n].known /\ \E h \in newer(refused) : h.key = k
                             THEN (CHOOSE h \in newer(refused) : h.key = k).inst
                             ELSE db[n][k]]
           e2(refused) == ProcessLSUpdate(e1, {h.key : h \in lsas}, row(refused))
           e3(refused) == IF e0.known THEN e2(refused) ELSE e0
           f  == nbr[Peer(n)]
           In == DDsOf(Tail(chan[n]))
           c  == chan[Peer(n)]
<1>0. Arrived(n, "LSU") /\ chan[n] # <<>>
  BY DEF ReceiveLSU, Arrived
<1>1. PICK refused \in IF Burst THEN SUBSET Key ELSE {{}} :
        nbr' = [nbr EXCEPT ![n] = Done(e3(refused))] /\ Deliver(n, e3(refused).out)
  BY DEF ReceiveLSU
<1>2. /\ TypeOK /\ lsas \in SUBSET Header /\ c \in Seq(Packet)
  BY <1>0, ExchHere, ArrivedType
<1>3. Fine(n, e0, f, In, c, {})
  BY <1>0, Begin
<1>4. LSU(answer) \in Packet /\ LSU(answer).type # "DD"
  <2>1. \A h \in older : [key |-> h.key, inst |-> db[n][h.key]] \in Header
    BY <1>2 DEF TypeOK, Header
  <2>2. answer \in SUBSET Header
    BY <2>1
  <2> HIDE DEF answer
  <2>q. QED
    BY <2>2 DEF LSU, Packet
<1> HIDE DEF f, In, c, answer, row
<1>5. Fine(n, e1, f, In, c, {})
  BY <1>2, <1>3, <1>4, EmitFine
<1> HIDE DEF e1
<1>5a. {h.key : h \in lsas} \in SUBSET Key
  BY <1>2 DEF Header
<1>6. Fine(n, e2(refused), f, In, c, {})
  BY <1>2, <1>5, <1>5a, ProcessLSUpdateFine
<1> HIDE DEF e2
<1>7. Fine(n, e3(refused), f, In, c, {})
  BY <1>3, <1>6
<1> HIDE DEF e3
<1>q. QED
  BY <1>0, <1>1, <1>7, DeliveredExch DEF f, In, c

(* What an object emits it does not keep. *)
LEMMA DoneEmit ==
    ASSUME NEW e \in Neighbor, e.out = <<>>
    PROVE  /\ Done(e) = e
           /\ \A p \in Packet : Done(Emit(e, p)) = e /\ Emit(e, p).out = <<p>>
<1>1. Done(e) = e
  BY DEF Done, Neighbor
<1>2. ASSUME NEW p \in Packet PROVE Done(Emit(e, p)) = e /\ Emit(e, p).out = <<p>>
  <2>1. Append(e.out, p) = <<p>>
    OBVIOUS
  <2>q. QED
    BY <2>1 DEF Done, Emit, Neighbor
<1>q. QED
  BY <1>1, <1>2

(* A router sends a packet that is no DD, or nothing, and keeps its object. *)
LEMMA SaysExch ==
    ASSUME Distinct, NumbersLeft, IInv, ExchInv, NEW n \in Node, nbr' = nbr,
           NEW p \in Packet, p.type # "DD", Transmit(n, <<p>>) \/ Transmit(n, <<>>)
    PROVE  ExchInv'
<1> DEFINE e == nbr[n]
<1>1. /\ e \in Neighbor /\ e.out = <<>> /\ nbr' = [nbr EXCEPT ![n] = e]
      /\ chan[Peer(n)] \in Seq(Packet)
  BY ExchHere DEF ExchInv
<1>2. Fine(n, e, nbr[Peer(n)], DDsOf(chan[n]), chan[Peer(n)], {})
  BY Begin
<1>3. Fine(n, Emit(e, p), nbr[Peer(n)], DDsOf(chan[n]), chan[Peer(n)], {})
  BY <1>1, <1>2, EmitFine
<1>4. Done(e) = e /\ Done(Emit(e, p)) = e /\ Emit(e, p).out = <<p>>
  BY <1>1, DoneEmit
<1> HIDE DEF e
<1>5. CASE Transmit(n, <<p>>)
  BY <1>1, <1>3, <1>4, <1>5, TransmittedExch
<1>6. CASE Transmit(n, <<>>)
  BY <1>1, <1>2, <1>4, <1>6, TransmittedExch
<1>q. QED
  BY <1>5, <1>6

LEMMA SendHelloExch ==
    ASSUME Distinct, NumbersLeft, IInv, ExchInv, NEW n \in Node, SendHello(n)
    PROVE  ExchInv'
<1> DEFINE p == Hello(nbr[n].state >= INIT)
<1>1. p \in Packet /\ p.type # "DD"
  BY DEF Hello, Packet
<1>2. nbr' = nbr /\ Transmit(n, <<p>>)
  BY DEF SendHello
<1> HIDE DEF p
<1>q. QED
  BY <1>1, <1>2, SaysExch

(* _dd_rxmt_timeout: the link is quiet and the router in ExStart. *)
LEMMA DDRetransmitExch ==
    ASSUME Distinct, NumbersLeft, IInv, ExchInv, NEW n \in Node, DDRetransmit(n), ~twice'
    PROVE  ExchInv'
<1> DEFINE e == nbr[n]
           f == nbr[Peer(n)]
           c == chan[Peer(n)]
           p == InitDD(e.seq)
           g == Emit(e, p)
<1>0. Apart /\ e \in Neighbor /\ Sound(n, e) /\ e.out = <<>>
      /\ nbr' = [nbr EXCEPT ![n] = e] /\ c \in Seq(Packet)
  BY ExchHere, DistinctApart DEF DDRetransmit, ExchInv
<1>1. \A m \in Node : DDsOf(chan[m]) = {}
  <2>1. DDsDone
    BY DEF DDRetransmit
  <2>2. ASSUME NEW m \in Node, NEW q \in DDsOf(chan[m]) PROVE FALSE
    BY <2>1, <2>2 DEF DDsDone, DDsOf, DDPacket
  <2>q. QED
    BY <2>2
<1>2. Exch(nbr[2], nbr[1], {}, {})
  BY <1>1, Routers DEF ExchInv
<1>3. e.state = EXSTART /\ e.seq \in InitSeq
      /\ (n = 1 => e.told = {} /\ e.lastRx = None)
  <2>1. nbr[n].ddTimer /\ nbr[n].state \in {EXSTART, EXCHANGE}
    BY DEF DDRetransmit
  <2>2. CASE n = 1
    BY <1>2, <2>1, <2>2, StateOrder DEF Exch, SlaveFit
  <2>3. CASE n = 2
    BY <1>2, <2>1, <2>3, StateOrder, Routers DEF Exch, MasterFit
  <2>q. QED
    BY <2>2, <2>3, Routers
<1>4. e.lastTx = p /\ p \in DDPacket /\ p \in Packet /\ p # None
  <2>1. e.lastTx = p
    BY <1>0, <1>3 DEF Sound, ArmedToRetry, InitDD
  <2>2. p \in DDPacket
    BY <1>3, SeqNumType, DDType DEF InitDD
  <2>q. QED
    BY <2>1, <2>2 DEF Packet, DDPacket, None
<1>5. Retransmit(e) = g
  BY <1>4 DEF Retransmit
<1>6. Transmit(n, g.out)
  BY <1>5 DEF DDRetransmit
<1> HIDE DEF p
<1>7. Done(g) = e /\ g.out = <<p>> /\ g \in Neighbor /\ Alike(e, g)
  <2>1. g \in Neighbor
    BY <1>0, <1>4, EmitType
  <2>2. Alike(e, g)
    BY <1>0, <2>1 DEF Emit, Neighbor, Alike
  <2>3. e \in Neighbor /\ e.out = <<>>
    BY <1>0
  <2> HIDE DEF e
  <2>4. \A q \in Packet : Done(Emit(e, q)) = e /\ Emit(e, q).out = <<q>>
    BY <2>3, DoneEmit
  <2>q. QED
    BY <1>4, <2>1, <2>2, <2>4
<1>8. DDsOf(c \o g.out) = {p} /\ Once(c \o g.out)
  <2>1. Peer(n) \in Node /\ DDsOf(c) = {} /\ Once(c)
    BY <1>1, ExchHere DEF ExchInv
  <2>2. c \in Seq(Packet) /\ p \in Packet /\ p \in DDPacket /\ g.out = <<p>>
    BY <1>0, <1>4, <1>7
  <2>3. ~Called(DDsOf(c), p.seq)
    BY <2>1 DEF Called
  <2> HIDE DEF g, c
  <2>4. c \o <<p>> = Append(c, p)
    BY <2>2
  <2>5. DDsOf(Append(c, p)) = DDsOf(c) \cup {p} /\ Once(Append(c, p))
    BY <2>1, <2>2, <2>3, AppendDDs, AppendOnce
  <2>q. QED
    BY <2>1, <2>2, <2>4, <2>5
<1>9. Pair(n, e, f, {}, {p})
  <2>1. CASE n = 1
    <3>1. Exch(f, e, {}, {})
      BY <1>2, <2>1, Routers
    <3>2. Exch(f, e, {}, {} \cup {InitDD(e.seq)})
      BY <1>0, <1>3, <2>1, <3>1, SlaveDraws
    <3>q. QED
      BY <2>1, <3>2 DEF Pair, p
  <2>2. CASE n = 2
    <3>1. Exch(e, f, {}, {})
      BY <1>2, <2>2, Routers
    <3>2. Exch(e, f, {InitDD(e.seq)}, {})
      BY <1>0, <1>3, <3>1, MasterRepeats
    <3>q. QED
      BY <2>2, <3>2, Routers DEF Pair, p
  <2>q. QED
    BY <2>1, <2>2, Routers
<1> HIDE DEF g
<1>10. Pair(n, g, f, {}, {p})
  BY <1>0, <1>7, <1>9, PairMore
<1>11. Fine(n, g, f, DDsOf(chan[n]), c, {})
  BY <1>1, <1>7, <1>8, <1>10 DEF Fine
<1>q. QED
  BY <1>0, <1>6, <1>7, <1>11, TransmittedExch

LEMMA LSRRetransmitExch ==
    ASSUME Distinct, NumbersLeft, IInv, ExchInv, NEW n \in Node, LSRRetransmit(n)
    PROVE  ExchInv'
<1> DEFINE e == nbr[n]
           f == nbr[Peer(n)]
           c == chan[Peer(n)]
           g == SendLSRequest(e)
<1>1. nbr' = [nbr EXCEPT ![n] = Done(g)] /\ Transmit(n, g.out)
  BY DEF LSRRetransmit
<1>2. e \in Neighbor /\ c \in Seq(Packet)
  BY ExchHere
<1>3. Fine(n, e, f, DDsOf(chan[n]), c, {})
  BY Begin
<1>4. Keeps(e, g) /\ g.state = e.state /\ g.lastRx = e.lastRx /\ SameDDs(c, e, g)
  BY <1>2, SendLSRequestDoes
<1> HIDE DEF g
<1>5. Alike(e, g) /\ g \in Neighbor
  BY <1>4 DEF Alike, Keeps
<1>6. Fine(n, g, f, DDsOf(chan[n]), c, {})
  <2>1. Pair(n, g, f, DDsOf(chan[n]), DDsOf(c \o e.out))
    BY <1>3, <1>5, PairMore DEF Fine
  <2>q. QED
    BY <1>3, <1>4, <1>5, <2>1 DEF Fine, SameDDs
<1>q. QED
  BY <1>1, <1>6, TransmittedExch

LEMMA EnvironmentExch ==
    ASSUME Distinct, NumbersLeft, IInv, ExchInv, NEW n \in Node, Environment(n), ~twice'
    PROVE  ExchInv'
<1> DEFINE e == nbr[n]
           f == nbr[Peer(n)]
           c == chan[Peer(n)]
<1>0. /\ Apart /\ e \in Neighbor /\ Sound(n, e) /\ e.out = <<>> /\ c \in Seq(Packet)
      /\ chan[n] \in Seq(Packet) /\ chan \in [Node -> Seq(Packet)] /\ c = c \o <<>>
      /\ Once(chan[n]) /\ wanted[n] \in BOOLEAN /\ nbr \in [Node -> Neighbor]
      /\ Peer(n) \in Node /\ Peer(n) # n
  BY ExchHere, DistinctApart DEF ExchInv
<1>1. Fine(n, e, f, DDsOf(chan[n]), c, {})
  BY Begin
<1>2. chan = [chan EXCEPT ![Peer(n)] = @ \o <<>>] /\ Done(e) = e
      /\ nbr = [nbr EXCEPT ![n] = e]
  BY <1>0, DoneEmit
<1>3. ASSUME LearnElsewhere(n) PROVE ExchInv'
  <2>1. PICK k \in Feed[n], i \in 1..MaxInst :
          Transmit(n, IF nbr[n].state >= EXCHANGE
                        THEN <<LSU({[key |-> k, inst |-> i]})>> ELSE <<>>)
    BY <1>3 DEF LearnElsewhere
  <2> DEFINE p == LSU({[key |-> k, inst |-> i]})
  <2>2. p \in Packet /\ p.type # "DD"
    <3>1. k \in Key /\ i \in Nat
      BY <2>1, ConstantsAssumption
    <3>2. {[key |-> k, inst |-> i]} \in SUBSET Header
      BY <3>1 DEF Header
    <3>q. QED
      BY <3>2 DEF LSU, Packet
  <2>3. nbr' = nbr
    BY <1>3 DEF LearnElsewhere
  <2>4. Transmit(n, <<p>>) \/ Transmit(n, <<>>)
    BY <2>1
  <2> HIDE DEF p
  <2>q. QED
    BY <2>2, <2>3, <2>4, SaysExch
<1>4. ASSUME Election(n) PROVE ExchInv'
  <2> DEFINE w == ~wanted[n]
             g(s) == AdjOK(e, w, s)
  <2>1. PICK s \in SeqChoice({}) :
          nbr' = [nbr EXCEPT ![n] = Done(g(s))] /\ Transmit(n, g(s).out)
    BY <1>4 DEF Election
  <2> DEFINE U == {s}
  <2>2. Fine(n, e, f, DDsOf(chan[n]), c, U) /\ s \in U /\ U \ {s} = {}
    BY Begin
  <2>3. w \in BOOLEAN
    OBVIOUS
  <2> HIDE DEF U, w, e, f, c
  <2>4. Fine(n, g(s), f, DDsOf(chan[n]), c, U \ {s})
    BY <1>0, <2>2, <2>3, AdjOKFine
  <2> HIDE DEF g
  <2>q. QED
    BY <2>1, <2>2, <2>4, TransmittedExch DEF e, f, c
<1>5. ASSUME InactivityTimeout(n) PROVE ExchInv'
  <2> DEFINE g == GoDown(e)
  <2>1. nbr' = [nbr EXCEPT ![n] = g] /\ chan' = chan
    BY <1>5 DEF InactivityTimeout
  <2>2. g.out = <<>>
    BY <1>0 DEF GoDown, StopTimers, ClearLists, Neighbor
  <2>3. Fine(n, g, f, DDsOf(chan[n]), c, {})
    BY <1>1, OneWayFine
  <2>4. Done(g) = g
    BY <2>2, <2>3, DoneEmit DEF Fine
  <2> HIDE DEF g
  <2>5. Transmit(n, g.out)
    BY <1>2, <2>1, <2>2 DEF Transmit
  <2>q. QED
    BY <2>1, <2>3, <2>4, <2>5, TransmittedExch
<1>6. ASSUME Restart(n) PROVE ExchInv'
  <2> DEFINE g == NewNeighbor
  <2>1. nbr' = [nbr EXCEPT ![n] = g] /\ chan' = chan
    BY <1>6 DEF Restart
  <2>2. g.out = <<>>
    BY DEF NewNeighbor
  <2>3a. Sound(n, g) /\ g.state = DOWN
    BY NewNeighborSound
  <2> HIDE DEF g
  <2>2a. g \in Neighbor /\ g.state < EXSTART
    BY <2>3a, StateOrder DEF Sound
  <2>3. Fine(n, g, f, DDsOf(chan[n]), c, {}) /\ Done(g) = g
    BY <1>0, <1>1, <2>2, <2>2a, QuietFine, DoneEmit
  <2>5. Transmit(n, g.out)
    BY <1>2, <2>1, <2>2 DEF Transmit
  <2>q. QED
    BY <2>1, <2>3, <2>5, TransmittedExch
<1>7. ASSUME NEW k \in Seq(Packet), Once(k), DDsOf(k) \subseteq DDsOf(chan[n]),
             chan' = [chan EXCEPT ![n] = k], nbr' = nbr
      PROVE  ExchInv'
  <2>1. Fine(n, e, f, DDsOf(k), c, {})
    BY <1>1, <1>7, FineLess
  <2>2. chan' = [chan EXCEPT ![n] = k, ![Peer(n)] = @ \o e.out]
    BY <1>0, <1>7
  <2>3. nbr' = [nbr EXCEPT ![n] = Done(e)]
    BY <1>2, <1>7
  <2>4. Fine(n, e, nbr[Peer(n)], DDsOf(k), chan[Peer(n)], {})
    BY <2>1
  <2>5. k \in Seq(Packet) /\ Once(k)
    BY <1>7
  <2> HIDE DEF e
  <2>q. QED
    BY <2>2, <2>3, <2>4, <2>5, ExchFrame
<1>8. ASSUME Lose(n) PROVE ExchInv'
  <2>1. chan[n] # <<>> /\ chan' = [chan EXCEPT ![n] = Tail(chan[n])] /\ nbr' = nbr
    BY <1>0, <1>8 DEF Lose
  <2>2. Tail(chan[n]) \in Seq(Packet)
    BY <1>0, <2>1
  <2>q. QED
    BY <1>0, <1>7, <2>1, <2>2, TailDDs
<1>9. ASSUME Reorder(n) PROVE ExchInv'
  <2> DEFINE k == Append(Tail(chan[n]), Head(chan[n]))
  <2>1. chan[n] # <<>> /\ chan' = [chan EXCEPT ![n] = k] /\ nbr' = nbr
    BY <1>0, <1>9 DEF Reorder
  <2>2. k \in Seq(Packet)
    BY <1>0, <2>1
  <2>3. DDsOf(k) \subseteq DDsOf(chan[n]) /\ Once(k)
    BY <1>0, <2>1, RotateDDs
  <2> HIDE DEF k
  <2>q. QED
    BY <1>7, <2>1, <2>2, <2>3
<1>10. ASSUME Duplicate(n) PROVE ExchInv'
  <2> DEFINE p == Head(chan[n])
             k == Append(chan[n], p)
  <2>1. chan[n] # <<>> /\ chan' = [chan EXCEPT ![n] = k] /\ nbr' = nbr
        /\ ~(Arrived(n, "DD") /\ p.I)
    BY <1>0, <1>10 DEF Duplicate
  <2>2. p \in Packet /\ 1 \in 1..Len(chan[n]) /\ chan[n][1] = p
    BY <1>0, <2>1
  <2>3. ~(p \in DDPacket /\ p.I)
    BY <2>1 DEF Arrived, DDPacket
  <2> HIDE DEF p
  <2>4. k \in Seq(Packet) /\ Once(k)
    BY <1>0, <2>2, <2>3, AppendOnce
  <2>5. DDsOf(k) \subseteq DDsOf(chan[n])
    <3>1. p \in DDPacket => p \in DDsOf(chan[n])
      BY <2>2 DEF DDsOf
    <3>2. DDsOf(k) \subseteq DDsOf(chan[n]) \cup {q \in {p} : q \in DDPacket}
      BY <1>0, <2>2, AppendDDs
    <3>q. QED
      BY <3>1, <3>2
  <2> HIDE DEF k
  <2>q. QED
    BY <1>7, <2>1, <2>4, <2>5
<1>q. QED
  BY <1>3, <1>4, <1>5, <1>6, <1>8, <1>9, <1>10 DEF Environment

LEMMA InitExch == ASSUME Distinct PROVE Init => ExchInv
<1> SUFFICES ASSUME Init PROVE ExchInv
  OBVIOUS
<1>1. \A n \in Node : nbr[n] = NewNeighbor /\ chan[n] = <<>>
  BY DEF Init
<1>2. \A n \in Node : nbr[n].out = <<>> /\ DDsOf(chan[n]) = {} /\ Once(chan[n])
  BY <1>1 DEF NewNeighbor, DDsOf, Once
<1>3. NewNeighbor.state = DOWN
  BY DEF NewNeighbor
<1>4. Exch(NewNeighbor, NewNeighbor, {}, {})
  <2> DEFINE a == NewNeighbor
  <2>1. a.state # EXSTART /\ ~(a.state >= EXCHANGE) /\ \A s : ~Up(a, s)
    BY <1>3, StateOrder DEF Up
  <2> HIDE DEF a
  <2>2. MasterFit(a) /\ SlaveFit(a) /\ MasterWaits(a, a, {})
    BY <2>1 DEF MasterFit, SlaveFit, MasterWaits
  <2>3. CallsFirst(a, {}, {}) /\ SlaveBehind(a, a, {}, {}) /\ AnswersInOrder(a, {})
        /\ PollsInOrder(a, {}) /\ InStep(a, a, {})
    BY <2>1 DEF CallsFirst, Called, SlaveBehind, AnswersInOrder, PollsInOrder, InStep
  <2>q. QED
    BY <2>2, <2>3 DEF Exch, a
<1>q. QED
  BY <1>1, <1>2, <1>4, Routers DEF ExchInv

(* An initial DD that was in the link twice is not forgotten. *)
LEMMA TwiceStays == TypeOK /\ twice /\ [Next]_vars => twice'
<1> SUFFICES ASSUME TypeOK, twice, [Next]_vars PROVE twice'
  OBVIOUS
<1>1. CASE Next
  <2>1. PICK n \in Node : Receive(n) \/ SendHello(n) \/ DDRetransmit(n)
                           \/ LSRRetransmit(n) \/ Environment(n)
    BY <1>1 DEF Next
  <2>2. twice' = twice \/ DDRetransmit(n) \/ Duplicate(n)
    BY <2>1 DEF Receive, ReceiveHello, ReceiveDD, ReceiveLSR, ReceiveLSU, SendHello,
         LSRRetransmit, Environment, LearnElsewhere, Election, InactivityTimeout,
         Restart, Lose, Reorder
  <2>q. QED
    BY <2>2 DEF DDRetransmit, Duplicate
<1>2. CASE UNCHANGED vars
  BY <1>2 DEF vars
<1>q. QED
  BY <1>1, <1>2

LEMMA NextExch ==
    ASSUME Distinct
    PROVE  IInv /\ (~twice => ExchInv) /\ NumbersLeft /\ [Next]_vars => (~twice' => ExchInv')
<1> SUFFICES ASSUME IInv, ~twice => ExchInv, NumbersLeft, [Next]_vars, ~twice'
             PROVE  ExchInv'
  OBVIOUS
<1>0. ExchInv
  BY TwiceStays DEF IInv
<1>1. CASE Next
  <2>1. PICK n \in Node : Receive(n) \/ SendHello(n) \/ DDRetransmit(n)
                           \/ LSRRetransmit(n) \/ Environment(n)
    BY <1>1 DEF Next
  <2>q. QED
    BY <1>0, <2>1, ReceiveHelloExch, ReceiveDDExch, ReceiveLSRExch, ReceiveLSUExch,
       SendHelloExch, DDRetransmitExch, LSRRetransmitExch, EnvironmentExch DEF Receive
<1>2. CASE UNCHANGED vars
  BY <1>0, <1>2 DEF vars, ExchInv
<1>q. QED
  BY <1>1, <1>2

(* Two Full ends went through one exchange, step by step: the master is    *)
(* one number ahead of the slave and each was told everything the other    *)
(* listed when it began (_process_dd_exstart, _process_dd_exchange), under *)
(* loss, repetition, reordering, expiry, restarts, elections and slow      *)
(* answers, unless an initial DD was in the link twice.  NumbersLeft says  *)
(* that there is always a number left to draw.                             *)
THEOREM SameExchangeAlways ==
    ASSUME Distinct
    PROVE  Spec /\ []NumbersLeft => []SameExchange
<1>1. IInv /\ (~twice => ExchInv) => SameExchange
  <2> SUFFICES ASSUME IInv, ExchInv, ~twice, \A n \in Node : nbr[n].state = FULL
               PROVE  /\ nbr[2].seq = nbr[1].seq + 1
                      /\ \A n \in Node : nbr[n].told = nbr[Peer(n)].listed
    BY DEF SameExchange
  <2>1. nbr[1].state = FULL /\ nbr[2].state = FULL /\ nbr[2].summary = {}
        /\ nbr[1].seq \in Int /\ nbr[2].seq \in Int
    <3>1. nbr[1] \in Neighbor /\ nbr[2] \in Neighbor /\ Sound(2, nbr[2])
      BY Routers, ExchHere
    <3>q. QED
      BY <3>1, Routers, StateOrder, NeighborFields DEF Sound, ArmedToRetry
  <2>2. /\ nbr[2].seq = nbr[1].seq + 1 /\ nbr[2].told = nbr[1].listed
        /\ nbr[1].told = nbr[2].listed
    BY <2>1, DistinctApart, FullSame DEF ExchInv
  <2>q. QED
    BY <2>2, Routers
<1>2. Init => (~twice => ExchInv)
  BY InitExch
<1>q. QED
  BY <1>1, <1>2, NextExch, Invariance, PTL DEF Spec
=============================================================================
