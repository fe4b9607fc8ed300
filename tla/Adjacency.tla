----------------------------- MODULE Adjacency -----------------------------
(***************************************************************************)
(* The life of one OSPF adjacency: the two OspfNeighbor objects (one in    *)
(* each router) at the ends of a link, the packets between them, and the   *)
(* part of each link state database that the adjacency synchronises.       *)
(*                                                                         *)
(* Every handler of the daemon runs to completion inside one callback of   *)
(* the asyncio loop, so each action below is one callback: a received      *)
(* packet, a timer that fires, a DR election, an LSA from elsewhere.        *)
(* Handlers are operators on an "effect", the neighbour record together    *)
(* with the packets emitted so far, because the code nests them: a Hello   *)
(* may raise 2-WayReceived, which changes the state, which re-runs the DR  *)
(* election, which raises AdjOK? on the same neighbour.                    *)
(*                                                                         *)
(* An LSA instance is a natural number, 0 when the LSA is not held, and    *)
(* compare_lsa is <; module LsaOrder shows that the code's comparison is   *)
(* such an order.  The retransmission list and acknowledgements belong to  *)
(* flooding and are not part of this module.                               *)
(***************************************************************************)
EXTENDS Integers, Sequences, FiniteSets

CONSTANTS
    Key,          \* LSA keys, as numbers: dict order is key order
    InitDb,       \* InitDb[n][k]: the instance of k that router n starts with
    OwnKey,       \* OwnKey[n]: the Router LSA that router n originates
    Feed,         \* Feed[n]: the LSAs that n may learn on other interfaces
    MaxInst,      \* bound: the last instance of an LSA
    InitSeq,      \* the DD sequence numbers os.urandom may return
    Collisions,   \* TRUE: os.urandom may return a number still in use
    Span,         \* two random numbers are at least this far apart
    MaxDDSeq,     \* the largest sequence number a DD packet can carry
    MaxHeaders,   \* LSA headers that fit in a DD packet (from the MTU)
    MaxItems,     \* items in a Link State Request
    PointToPoint, \* TRUE: P2P, P2MP or virtual; FALSE: broadcast or NBMA
    Burst,        \* TRUE: an LSA may arrive within MinLSArrival of the last
    Fault,        \* the kinds of fault that may happen
    MaxFaults     \* bound: faults in a behaviour

(* Two routers whose router IDs compare as these numbers do.               *)
Node == {1, 2}
Peer(n) == 3 - n

DOWN == 0
INIT == 2
TWOWAY == 3
EXSTART == 4
EXCHANGE == 5
LOADING == 6
FULL == 7

ASSUME ConstantsAssumption ==
    /\ Key \subseteq Nat
    /\ InitDb \in [Node -> [Key -> Nat]]
    /\ OwnKey \in [Node -> Key] /\ Feed \in [Node -> SUBSET Key]
    /\ MaxInst \in Nat
    /\ MaxDDSeq \in Nat
    /\ InitSeq \subseteq 0..MaxDDSeq /\ InitSeq # {}
    /\ MaxHeaders \in Nat \ {0} /\ MaxItems \in Nat \ {0}
    /\ PointToPoint \in BOOLEAN /\ Burst \in BOOLEAN
    /\ Collisions \in BOOLEAN /\ Span \in Nat
    /\ MaxFaults \in Nat

VARIABLES
    nbr,     \* nbr[n]: n's OspfNeighbor object for its peer
    wanted,  \* wanted[n]: what _should_form_adjacency returns at n
    db,      \* db[n][k]: the instance of LSA k in n's database, 0 if none
    chan,    \* chan[n]: the packets on their way to n, oldest first
    faults,  \* the number of faults so far
    twice    \* history: an initial DD was sent into a link that held DDs

vars == <<nbr, wanted, db, chan, faults, twice>>

-----------------------------------------------------------------------------
(* Packets.  A DD carries the three flags, the sequence number and a set   *)
(* of LSA headers; the options field never differs and is left out.        *)

Hello(sees) == [type |-> "Hello", sees |-> sees]
DD(i, m, ms, s, hs) ==
    [type |-> "DD", I |-> i, M |-> m, MS |-> ms, seq |-> s, hdrs |-> hs]
LSR(ks) == [type |-> "LSR", keys |-> ks]
LSU(hs) == [type |-> "LSU", lsas |-> hs]

Header == [key : Key, inst : Nat]
None == [type |-> "None"]

SeqNum == 0..MaxDDSeq
DDPacket == [type : {"DD"}, I : BOOLEAN, M : BOOLEAN, MS : BOOLEAN,
             seq : SeqNum, hdrs : SUBSET Header]
Packet == [type : {"Hello"}, sees : BOOLEAN]
          \cup DDPacket
          \cup [type : {"LSR"}, keys : SUBSET Key]
          \cup [type : {"LSU"}, lsas : SUBSET Header]

(* What _is_duplicate_dd compares of two DD packets.                       *)
Stamp(dd) == <<dd.seq, dd.I, dd.M, dd.MS>>

(* The k entries of a dict or deque that come first.                       *)
FirstOf(S, k) == {h \in S : Cardinality({g \in S : g.key < h.key}) < k}

Headers(d) == {[key |-> k, inst |-> d[k]] : k \in {j \in Key : d[j] > 0}}

-----------------------------------------------------------------------------
(* The neighbour object.  known says that the interface holds the object;  *)
(* lastRx is what is kept of last_received_dd, lastTx is _last_sent_dd.    *)
(* Three history fields are not in the code: told is every header the peer *)
(* has described in this exchange, struck the LSAs whose request went      *)
(* without what it asked for, and listed is the summary list as            *)
(* NegotiationDone built it.                                               *)
NewNeighbor ==
    [known |-> FALSE, state |-> DOWN, master |-> FALSE, seq |-> 0,
     summary |-> {}, request |-> {}, lastRx |-> None, lastTx |-> None,
     inactivity |-> FALSE, ddTimer |-> FALSE, rxmtTimer |-> FALSE,
     told |-> {}, struck |-> {}, listed |-> {}, out |-> <<>>]

Emit(e, p) == [e EXCEPT !.out = Append(@, p)]
SendDD(e, p) == [e EXCEPT !.lastTx = p, !.out = Append(@, p)]
Done(e) == [e EXCEPT !.out = <<>>]

ClearListsKeepsLastDD(e) ==   \* mutant: last_received_dd is not reset
    [e EXCEPT !.summary = {}, !.request = {}, !.told = {}, !.struck = {},
              !.listed = {}]
ClearLists(e) ==
    [e EXCEPT !.summary = {}, !.request = {}, !.lastRx = None,
              !.told = {}, !.struck = {}, !.listed = {}]

StopTimers(e) == [e EXCEPT !.ddTimer = FALSE, !.rxmtTimer = FALSE]

StartUnarmed(e, s) ==   \* mutant: the DD timer is not started
    SendDD([e EXCEPT !.seq = s, !.master = TRUE, !.summary = {},
                     !.request = {}, !.told = {}, !.struck = {}],
           DD(TRUE, TRUE, TRUE, s, {}))
StartDDExchange(e, s) ==
    LET e1 == [e EXCEPT !.seq = s, !.master = TRUE, !.summary = {},
                        !.request = {}, !.ddTimer = TRUE, !.told = {},
                        !.struck = {}]
    IN SendDD(e1, DD(TRUE, TRUE, TRUE, s, {}))

(* The event handlers of the state machine. *)
HelloReceived(e) ==
    [e EXCEPT !.known = TRUE, !.inactivity = TRUE,
              !.state = IF @ = DOWN THEN INIT ELSE @]

TwoWayReceived(e, should, s) ==
    IF should
      THEN StartDDExchange([e EXCEPT !.state = EXSTART], s)
      ELSE [e EXCEPT !.state = TWOWAY]

AdjOKOnlyUp(e, should, s) ==   \* mutant: an adjacency never comes down
    IF e.state = TWOWAY /\ should
      THEN StartDDExchange([e EXCEPT !.state = EXSTART], s) ELSE e
AdjOK(e, should, s) ==
    CASE e.state = TWOWAY /\ should ->
           StartDDExchange([e EXCEPT !.state = EXSTART], s)
      [] e.state >= EXSTART /\ ~should ->
           StopTimers(ClearLists([e EXCEPT !.state = TWOWAY]))
      [] OTHER -> e

OneWay(e) == StopTimers(ClearLists([e EXCEPT !.state = INIT]))

GoDownToAttempt(e) ==   \* mutant: KillNbr leads to Attempt
    StopTimers(ClearLists([e EXCEPT !.state = 1, !.inactivity = FALSE]))
GoDown(e) ==
    StopTimers(ClearLists([e EXCEPT !.state = DOWN, !.inactivity = FALSE]))

SeqNumMismatch(e, s) ==
    StartDDExchange(ClearLists([e EXCEPT !.state = EXSTART]), s)

NegotiationDone(e, n) ==
    [e EXCEPT !.state = EXCHANGE, !.summary = Headers(db[n]),
              !.listed = Headers(db[n])]

SendLSRequest(e) ==
    IF e.request = {} THEN e
    ELSE Emit([e EXCEPT !.rxmtTimer = TRUE],
              LSR({h.key : h \in FirstOf(e.request, MaxItems)}))

ExchangeDone(e) ==
    IF e.request # {}
      THEN SendLSRequest([e EXCEPT !.state = LOADING])
      ELSE [e EXCEPT !.state = FULL, !.rxmtTimer = FALSE]

LoadingDone(e) == [e EXCEPT !.state = FULL]

-----------------------------------------------------------------------------
(* Database description.                                                   *)

IsDuplicate(r, dd) == r.lastRx # None /\ r.lastRx = Stamp(dd)

RetransmitNothing(e) == e   \* mutant: _last_sent_dd is never set
Retransmit(e) == IF e.lastTx = None THEN e ELSE Emit(e, e.lastTx)

Remember(e, dd) == [e EXCEPT !.lastRx = Stamp(dd)]

ProcessMissingHeaders(e, n, hs) ==   \* mutant: only missing LSAs are asked for
    [e EXCEPT !.request = @ \cup {h \in hs : db[n][h.key] = 0}, !.told = @ \cup hs]
ProcessHeaders(e, n, hs) ==
    LET newer == {h \in hs : h.inst > db[n][h.key]}
        kept  == {g \in e.request : \A h \in newer : h.key # g.key}
        older == {h \in newer : \E g \in e.request : h.key = g.key /\ h.inst < g.inst}
    IN [e EXCEPT !.request = kept \cup newer, !.told = @ \cup hs,
                 !.struck = @ \cup {h.key : h \in older}]

(* The next batch of the summary list.  DDPacket.serialize packs the       *)
(* sequence number as a signed 32-bit integer and raises when it does not  *)
(* fit: the batch is gone from the list and nothing is sent.               *)
SendBatchSkipsOne(e, ms) ==   \* mutant: one header too many leaves the list
    LET batch == FirstOf(e.summary, MaxHeaders)
        rest  == e.summary \ FirstOf(e.summary, MaxHeaders + 1)
    IN SendDD([e EXCEPT !.summary = rest], DD(FALSE, rest # {}, ms, e.seq, batch))
SendBatch(e, ms) ==
    LET batch == FirstOf(e.summary, MaxHeaders)
        rest  == e.summary \ batch
        e1    == [e EXCEPT !.summary = rest]
    IN IF e.seq > MaxDDSeq THEN e1
       ELSE SendDD(e1, DD(FALSE, rest # {}, ms, e.seq, batch))

IsInitDD(dd) == dd.I /\ dd.M /\ dd.MS /\ dd.hdrs = {}

BecomeSlave(e, n, dd) ==
    SendBatch(NegotiationDone([e EXCEPT !.master = FALSE, !.seq = dd.seq,
                                        !.ddTimer = FALSE], n), FALSE)

BecomeMaster(e, n, dd) ==
    LET e1 == NegotiationDone([e EXCEPT !.master = TRUE,
                                        !.ddTimer = FALSE], n)
        e2 == Remember(ProcessHeaders(e1, n, dd.hdrs), dd)
    IN SendBatch([e2 EXCEPT !.seq = @ + 1], TRUE)

ExStartDDAnyPeer(e, n, dd) ==   \* mutant: router IDs are not compared
    CASE IsInitDD(dd) -> BecomeSlave(e, n, dd)
      [] ~dd.I /\ ~dd.MS /\ dd.seq = e.seq -> BecomeMaster(e, n, dd)
      [] OTHER -> e
ExStartDD(e, n, dd) ==
    CASE IsInitDD(dd) /\ Peer(n) > n -> BecomeSlave(e, n, dd)
      [] ~dd.I /\ ~dd.MS /\ Peer(n) < n /\ dd.seq = e.seq ->
           BecomeMaster(e, n, dd)
      [] OTHER -> e

MasterExchangeDD(e, n, dd, s) ==
    LET e1 == ProcessHeaders(e, n, dd.hdrs)
        e2 == [e1 EXCEPT !.seq = @ + 1]
    IN IF dd.seq # e.seq \/ dd.I \/ dd.MS THEN SeqNumMismatch(e, s)
       ELSE IF ~dd.M /\ e2.summary = {} THEN Remember(ExchangeDone(e2), dd)
       ELSE IF e2.seq > MaxDDSeq THEN SendBatch(e2, TRUE)
       ELSE Remember(SendBatch(e2, TRUE), dd)

SlaveExchangeDD(e, n, dd, s) ==
    LET e1 == ProcessHeaders([e EXCEPT !.seq = dd.seq], n, dd.hdrs)
        e2 == SendBatch(e1, FALSE)
        e3 == IF ~dd.M /\ e2.summary = {} THEN ExchangeDone(e2) ELSE e2
    IN IF dd.seq # e.seq + 1 \/ dd.I
         THEN SeqNumMismatch(e, s) ELSE Remember(e3, dd)

ExchangeDD(e, n, dd, s) ==
    CASE IsDuplicate(e, dd) -> IF e.master THEN e ELSE Retransmit(e)
      [] ~IsDuplicate(e, dd) /\ e.master -> MasterExchangeDD(e, n, dd, s)
      [] OTHER -> SlaveExchangeDD(e, n, dd, s)

(* Loading and Full. *)
LateDD(e, dd, s) ==
    IF IsDuplicate(e, dd)
      THEN IF e.master THEN e ELSE Retransmit(e)
      ELSE SeqNumMismatch(e, s)

ProcessDD(e, n, dd, s) ==
    CASE e.state = EXSTART  -> ExStartDD(e, n, dd)
      [] e.state = EXCHANGE -> ExchangeDD(e, n, dd, s)
      [] e.state \in {LOADING, FULL} -> LateDD(e, dd, s)
      [] OTHER -> e

-----------------------------------------------------------------------------
(* Link state requests and updates.                                        *)

ProcessLSRequest(e, n, ks, s) ==
    CASE e.state < EXCHANGE -> e
      [] e.state >= EXCHANGE /\ \E k \in ks : db[n][k] = 0 ->
           SeqNumMismatch(e, s)
      [] OTHER -> IF ks = {} THEN e
                  ELSE Emit(e, LSU({[key |-> k, inst |-> db[n][k]] : k \in ks}))

(* An update pops its keys from the request list whether or not the LSA    *)
(* was installed; d is the database it leaves.                             *)
ProcessLSUpdate(e, ks, d) ==
    LET e1 == [e EXCEPT !.request = {h \in @ : h.key \notin ks},
                        !.struck = @ \cup {k \in ks : \E h \in e.request :
                                             h.key = k /\ d[k] < h.inst}]
    IN IF e1.state = LOADING /\ e1.request = {} THEN LoadingDone(e1) ELSE e1

-----------------------------------------------------------------------------
(* Callbacks.                                                              *)

Init ==
    /\ nbr = [n \in Node |-> NewNeighbor]
    /\ wanted = [n \in Node |-> PointToPoint]
    /\ db = InitDb
    /\ chan = [n \in Node |-> <<>>]
    /\ faults = 0
    /\ twice = FALSE

(* A fault, if its kind is allowed and the budget is not spent.            *)
Strike(kind) == kind \in Fault /\ faults < MaxFaults /\ faults' = faults + 1

(* The sequence numbers alive in the link, and the choices for a new one   *)
(* in a callback that has drawn some already.  Of 2^31 numbers a random    *)
(* one is all but never near a live one; with Collisions it may be.        *)
LiveSeq == {nbr[n].seq : n \in Node}
           \cup UNION {{chan[n][i].seq : i \in {j \in 1..Len(chan[n]) :
                                                chan[n][j].type = "DD"}} : n \in Node}
Fresh(drawn) ==
    LET live == LiveSeq
    IN {s \in InitSeq \ drawn : \A t \in live : t < s \/ t >= s + Span}
SeqChoice(drawn) ==
    LET fresh == Fresh(drawn)
    IN IF Collisions \/ fresh = {} THEN InitSeq ELSE {CHOOSE s \in fresh : TRUE}

(* What a DR election may leave _should_form_adjacency at.  Elections run  *)
(* with every change of a neighbour; how often they change their mind is   *)
(* bounded like a fault.                                                   *)
Outcome == IF PointToPoint THEN {TRUE} ELSE BOOLEAN
Swings(k) ==
    /\ faults' = faults + k
    /\ k > 0 => faults + k <= MaxFaults
Swing(v, w) == IF v = w THEN 0 ELSE 1

Deliver(n, out) ==
    chan' = [chan EXCEPT ![n] = Tail(@), ![Peer(n)] = @ \o out]
Transmit(n, out) == chan' = [chan EXCEPT ![Peer(n)] = @ \o out]

Arrived(n, type) == chan[n] # <<>> /\ Head(chan[n]).type = type

Crossed(e, f) == (e.state >= TWOWAY) # (f.state >= TWOWAY)

SendHello(n) ==
    /\ \A i \in 1..Len(chan[Peer(n)]) : chan[Peer(n)][i].type # "Hello"
    /\ Transmit(n, <<Hello(nbr[n].state >= INIT)>>)
    /\ UNCHANGED <<nbr, wanted, db, faults, twice>>

(* process_hello: two elections may run in it, one because the neighbour   *)
(* crossed 2-Way, one because its DR or BDR claim changed.                 *)
ReceiveHello(n) ==
    /\ Arrived(n, "Hello")
    /\ \E w1, w2 \in Outcome, s1 \in SeqChoice({}) : \E s2 \in SeqChoice({s1}) :
         LET sees == Head(chan[n]).sees
             e0 == nbr[n]
             e1 == HelloReceived(e0)
             e2 == CASE sees /\ e1.state = INIT ->
                          TwoWayReceived(e1, wanted[n], s1)
                     [] ~sees /\ e1.state >= TWOWAY -> OneWay(e1)
                     [] OTHER -> e1
             e3 == IF Crossed(e0, e2) THEN AdjOK(e2, w1, s1) ELSE e2
             e4 == AdjOK(e3, w2, s2)
         IN /\ Crossed(e0, e2) \/ w1 = wanted[n]
            /\ nbr' = [nbr EXCEPT ![n] = Done(e4)]
            /\ wanted' = [wanted EXCEPT ![n] = w2]
            /\ Swings(Swing(wanted[n], w1) + Swing(w1, w2))
            /\ Deliver(n, e4.out)
    /\ UNCHANGED <<db, twice>>

ReceiveDD(n) ==
    /\ Arrived(n, "DD")
    /\ \E w \in Outcome, s1, s2 \in SeqChoice({}) :
         LET dd == Head(chan[n])
             e0 == nbr[n]
             e1 == IF e0.state = INIT
                     THEN AdjOK(TwoWayReceived(e0, wanted[n], s1), w, s1)
                     ELSE e0
             e2 == ProcessDD(e1, n, dd, s2)
         IN /\ Crossed(e0, e1) \/ w = wanted[n]
            /\ nbr' = [nbr EXCEPT ![n] = Done(e2)]
            /\ wanted' = [wanted EXCEPT ![n] = w]
            /\ Swings(Swing(wanted[n], w))
            /\ Deliver(n, e2.out)
    /\ UNCHANGED <<db, twice>>

ReceiveLSR(n) ==
    /\ Arrived(n, "LSR")
    /\ \E s \in SeqChoice({}) :
         LET e == ProcessLSRequest(nbr[n], n, Head(chan[n]).keys, s)
         IN /\ nbr' = [nbr EXCEPT ![n] = Done(e)]
            /\ Deliver(n, e.out)
    /\ UNCHANGED <<wanted, db, faults, twice>>

(* What receive_lsu installs of an update: the newer LSAs, except those     *)
(* that MinLSArrival refuses.                                              *)
InstallDifferent(n, lsas, refused) ==   \* mutant: any other instance is newer
    {h \in lsas : h.inst # db[n][h.key]}
Installable(n, lsas, refused) ==
    {h \in lsas : h.inst > db[n][h.key] /\ ~(h.key \in refused /\ db[n][h.key] > 0)}

(* receive_lsu does not look at the neighbour's state.  A newer LSA is     *)
(* installed unless the one it replaces arrived less than MinLSArrival     *)
(* ago; an older one is answered with the database copy (one packet here   *)
(* for all of them).  A newer copy of an own LSA is installed and stays:   *)
(* refresh_lsa either finds no larger sequence number or has its LSA       *)
(* refused by MinLSArrival.                                                *)
ReceiveLSU(n) ==
    /\ Arrived(n, "LSU")
    /\ \E refused \in IF Burst THEN SUBSET Key ELSE {{}} :
         LET lsas   == Head(chan[n]).lsas
             newer  == Installable(n, lsas, refused)
             older  == {h \in lsas : h.inst < db[n][h.key]}
             answer == {[key |-> h.key, inst |-> db[n][h.key]] : h \in older}
             d  == [k \in Key |-> IF nbr[n].known /\ \E h \in newer : h.key = k
                                    THEN (CHOOSE h \in newer : h.key = k).inst
                                    ELSE db[n][k]]
             e0 == nbr[n]
             e1 == IF answer = {} THEN e0 ELSE Emit(e0, LSU(answer))
             e2 == ProcessLSUpdate(e1, {h.key : h \in lsas}, d)
             e3 == IF e0.known THEN e2 ELSE e0
         IN /\ nbr' = [nbr EXCEPT ![n] = Done(e3)]
            /\ db' = [db EXCEPT ![n] = d]
            /\ Deliver(n, e3.out)
    /\ UNCHANGED <<wanted, faults, twice>>

(* RxmtInterval is far longer than a round trip: a retransmission finds    *)
(* the link quiet, unless the network or the peer was slow.                *)
LinkQuiet == \A n \in Node : \A i \in 1..Len(chan[n]) : chan[n][i].type = "Hello"
DDsDone == \A n \in Node : \A i \in 1..Len(chan[n]) : chan[n][i].type # "DD"
OnTime == (LinkQuiet /\ UNCHANGED faults) \/ (~LinkQuiet /\ Strike("slow"))

(* _dd_rxmt_timeout *)
DDRetransmit(n) ==
    /\ nbr[n].ddTimer
    /\ nbr[n].state \in {EXSTART, EXCHANGE}
    /\ OnTime
    /\ Transmit(n, Retransmit(nbr[n]).out)
    /\ twice' = (twice \/ ~DDsDone)
    /\ UNCHANGED <<nbr, wanted, db>>

(* _rxmt_timeout *)
LSRRetransmit(n) ==
    /\ nbr[n].rxmtTimer
    /\ nbr[n].state = LOADING /\ nbr[n].request # {}
    /\ OnTime
    /\ LET e == SendLSRequest(nbr[n])
       IN nbr' = [nbr EXCEPT ![n] = Done(e)] /\ Transmit(n, e.out)
    /\ UNCHANGED <<wanted, db, twice>>

(* A newer instance arrives on another interface, is installed, and is     *)
(* flooded to this neighbour if it is at least in Exchange.                *)
LearnElsewhere(n) ==
    /\ \E k \in Feed[n], i \in 1..MaxInst :
         /\ i > db[n][k]
         /\ db' = [db EXCEPT ![n][k] = i]
         /\ Transmit(n, IF nbr[n].state >= EXCHANGE
                          THEN <<LSU({[key |-> k, inst |-> i]})>> ELSE <<>>)
    /\ UNCHANGED <<nbr, wanted, faults, twice>>

-----------------------------------------------------------------------------
(* Faults.                                                                 *)

(* An election caused by another neighbour, or by the wait timer. *)
Election(n) ==
    /\ ~PointToPoint
    /\ Strike("election")
    /\ \E s \in SeqChoice({}) :
         LET w == ~wanted[n]
             e == AdjOK(nbr[n], w, s)
         IN /\ nbr' = [nbr EXCEPT ![n] = Done(e)]
            /\ wanted' = [wanted EXCEPT ![n] = w]
            /\ Transmit(n, e.out)
    /\ UNCHANGED <<db, twice>>

(* No Hello for RouterDeadInterval. *)
InactivityTimeout(n) ==
    /\ nbr[n].inactivity
    /\ \E w \in Outcome :
         /\ nbr[n].state >= TWOWAY \/ w = wanted[n]
         /\ wanted' = [wanted EXCEPT ![n] = w]
         /\ "expire" \in Fault /\ Swings(1 + Swing(wanted[n], w))
    /\ nbr' = [nbr EXCEPT ![n] = GoDown(nbr[n])]
    /\ UNCHANGED <<db, chan, twice>>

(* The daemon stops and starts: only its own LSA is in the new database.   *)
Restart(n) ==
    /\ Strike("restart")
    /\ nbr' = [nbr EXCEPT ![n] = NewNeighbor]
    /\ wanted' = [wanted EXCEPT ![n] = PointToPoint]
    /\ db' = [db EXCEPT ![n] = [k \in Key |-> IF k = OwnKey[n] THEN 1 ELSE 0]]
    /\ UNCHANGED <<chan, twice>>

(* The network, at the head of a channel: the packet is lost, delivered    *)
(* twice, or overtaken by the ones behind it.                              *)
Lose(n) ==
    /\ chan[n] # <<>>
    /\ Strike("lose")
    /\ chan' = [chan EXCEPT ![n] = Tail(@)]
    /\ UNCHANGED <<nbr, wanted, db, twice>>

Duplicate(n) ==
    /\ chan[n] # <<>>
    /\ Strike("duplicate")
    /\ chan' = [chan EXCEPT ![n] = Append(@, Head(@))]
    /\ twice' = (twice \/ (Arrived(n, "DD") /\ Head(chan[n]).I))
    /\ UNCHANGED <<nbr, wanted, db>>

Reorder(n) ==
    /\ Len(chan[n]) > 1
    /\ Strike("reorder")
    /\ chan' = [chan EXCEPT ![n] = Append(Tail(@), Head(@))]
    /\ UNCHANGED <<nbr, wanted, db, twice>>

-----------------------------------------------------------------------------
Receive(n) == ReceiveHello(n) \/ ReceiveDD(n) \/ ReceiveLSR(n) \/ ReceiveLSU(n)

Environment(n) ==
    \/ LearnElsewhere(n) \/ Election(n) \/ InactivityTimeout(n) \/ Restart(n)
    \/ Lose(n) \/ Duplicate(n) \/ Reorder(n)

Next ==
    \E n \in Node :
       Receive(n) \/ SendHello(n) \/ DDRetransmit(n) \/ LSRRetransmit(n)
       \/ Environment(n)

Spec == Init /\ [][Next]_vars

(* The event loop serves every socket and every armed timer.               *)
Fairness ==
    \A n \in Node : /\ WF_vars(Receive(n)) /\ WF_vars(SendHello(n))
                    /\ SF_vars(DDRetransmit(n)) /\ SF_vars(LSRRetransmit(n))

FairSpec == Spec /\ Fairness

-----------------------------------------------------------------------------
(* Properties.                                                             *)

State == {DOWN, INIT, TWOWAY, EXSTART, EXCHANGE, LOADING, FULL}
Counter == 0..MaxDDSeq + 1   \* a master counts one past its last packet
Stamps == {None} \cup (SeqNum \X BOOLEAN \X BOOLEAN \X BOOLEAN)
Neighbor ==
    [known : BOOLEAN, state : State, master : BOOLEAN, seq : Counter,
     summary : SUBSET Header, request : SUBSET Header,
     lastRx : Stamps,
     lastTx : {None} \cup DDPacket,
     inactivity : BOOLEAN, ddTimer : BOOLEAN, rxmtTimer : BOOLEAN,
     told : SUBSET Header, struck : SUBSET Key, listed : SUBSET Header,
     out : Seq(Packet)]

(* Types: in particular no packet ever carries a sequence number that does *)
(* not fit its field.                                                      *)
TypeOK ==
    /\ nbr \in [Node -> Neighbor]
    /\ wanted \in [Node -> BOOLEAN]
    /\ db \in [Node -> [Key -> Nat]]
    /\ chan \in [Node -> Seq(Packet)]
    /\ faults \in Nat
    /\ twice \in BOOLEAN

(* Of two routers that exchange descriptions, the one with the larger      *)
(* router ID is the master, whatever was lost, repeated or restarted       *)
(* before: never two masters, never two slaves (_process_dd_exstart).      *)
RoleFollowsId(n, r) == r.state >= EXCHANGE => r.master = (n > Peer(n))
OneMaster == \A n \in Node : RoleFollowsId(n, nbr[n])

(* A neighbour below ExStart holds nothing of an earlier exchange: no      *)
(* list, no last_received_dd, no timer that could act on the next one      *)
(* (_clear_lists and the timer stops in every handler that leaves).        *)
LeavesNothing(r) ==
    r.state < EXSTART =>
      /\ r.summary = {} /\ r.request = {} /\ r.lastRx = None
      /\ ~r.ddTimer /\ ~r.rxmtTimer
NothingLeftBehind == \A n \in Node : LeavesNothing(nbr[n])

(* A router that waits for an answer is armed to ask again: in ExStart the *)
(* DD timer runs and the packet it repeats is the initial DD with the      *)
(* current number; in Loading the request list is not empty and its timer  *)
(* runs; and nothing is left to describe or to request afterwards.         *)
ArmedToRetry(r) ==
    /\ r.state = EXSTART =>
         r.ddTimer /\ r.master /\ r.lastTx = DD(TRUE, TRUE, TRUE, r.seq, {})
    /\ r.state = LOADING => r.rxmtTimer /\ r.request # {}
    /\ r.state >= LOADING => r.summary = {}
    /\ r.state = FULL => r.request = {}
NobodyWaitsUnarmed == \A n \in Node : ArmedToRetry(nbr[n])

(* The neighbour is past 2-Way exactly when the last election wants the    *)
(* adjacency, although elections run in the middle of the handlers.        *)
StateMatchesElection(r, w) ==
    /\ r.state = TWOWAY => ~w
    /\ r.state >= EXSTART => w
AdjacencyMatchesElection == \A n \in Node : StateMatchesElection(nbr[n], wanted[n])

(* A Full neighbour: every LSA the peer described in the exchange is in    *)
(* the database, at least as new as described, or was struck from the      *)
(* request list unseen.  So what _process_dd_headers asks for is asked for *)
(* until an update names it, through lost and repeated requests, batches,  *)
(* LSAs learnt elsewhere and refused ones: no way to Full forgets one.     *)
(* Struck are those that an update named without bringing them, because    *)
(* MinLSArrival refused it or it was of an older exchange                  *)
(* (process_ls_update), or whose request a late description replaced.      *)
Remembers(r, d) ==
    r.state = FULL => \A h \in r.told : d[h.key] >= h.inst \/ h.key \in r.struck
NothingForgotten == \A n \in Node : Remembers(nbr[n], db[n])

(* What one expects of Full, struck or not.  It fails: an update that      *)
(* MinLSArrival refuses is struck all the same.                            *)
FullMeansSynchronised ==
    \A n \in Node : nbr[n].state = FULL =>
       \A h \in nbr[n].told : db[n][h.key] >= h.inst

(* Two Full ends are at the same point of the same exchange: the master is *)
(* one number ahead of the slave, which echoes it, and each was told all   *)
(* that the other listed when its exchange began (_process_dd_exstart,     *)
(* _process_dd_exchange), whatever was lost, overtaken, repeated or        *)
(* restarted, unless an initial DD was in the link twice: its second copy  *)
(* makes the slave begin again with the same number.                       *)
SameExchange ==
    ~twice /\ (\A n \in Node : nbr[n].state = FULL) =>
      /\ nbr[2].seq = nbr[1].seq + 1
      /\ \A n \in Node : nbr[n].told = nbr[Peer(n)].listed

(* Exchanges do not pile up: although elections raise AdjOK? again and     *)
(* again and a packet out of turn is answered with a new exchange          *)
(* (_adj_ok_adjformed, _seq_num_mismatch), so few are alive in the link    *)
(* that a callback finds a number far from them all, even a second one.    *)
NumbersLeft == \A s \in InitSeq : Fresh({s}) # {}

(* While the daemon runs, its database only moves to newer instances: a    *)
(* late, repeated or reordered update never undoes a newer one.            *)
NeverOlder ==
    [][\A n \in Node : Restart(n) \/ \A k \in Key : db'[n][k] >= db[n][k]]_vars

(* Both ends come to Full and stay there, once the faults are over.        *)
EventuallyFull == <>[](\A n \in Node : nbr[n].state = FULL)

(* _dd_rxmt_timeout says "Retransmit DD packet (ExStart/Exchange)": a      *)
(* router does not stay in Exchange for ever because one packet was lost.  *)
ExchangeEnds == \A n \in Node : nbr[n].state = EXCHANGE ~> nbr[n].state # EXCHANGE
=============================================================================
