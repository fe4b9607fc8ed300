-------------------------------- MODULE Lan --------------------------------
(***************************************************************************)
(* A broadcast network: one OspfInterface in each attached router, its     *)
(* state machine, the Hellos between the interfaces, and the election of   *)
(* the Designated Router and its backup.                                   *)
(*                                                                         *)
(* A callback of the event loop nests handlers: a Hello moves a neighbour, *)
(* which raises NeighborChange on the interface, which runs the election,  *)
(* which raises AdjOK? on every neighbour.  Handlers are operators from    *)
(* one value of a router's interface record to the next, and an action     *)
(* applies one callback to the end.                                        *)
(*                                                                         *)
(* Routers are numbers: the router ID and the interface address at once,   *)
(* which compare alike.  A neighbour past 2-Way is Adjacent here; module   *)
(* Adjacency is the inside of that state.                                  *)
(***************************************************************************)
EXTENDS Integers, FiniteSets

CONSTANTS
    Router,     \* the routers attached to the network
    Priority,   \* Priority[r]: 0 when r must not become DR or backup
    AtStart,    \* the routers that are up from the beginning
    Overlap,    \* bound: the routers whose Hellos may be on the wire at once
    Fault,      \* the kinds of fault that may happen
    MaxFaults   \* bound: faults in a behaviour

ASSUME LanAssumption ==
    /\ Router \subseteq Nat \ {0} /\ IsFiniteSet(Router)
    /\ Priority \in [Router -> Nat]
    /\ AtStart \subseteq Router
    /\ Overlap \in Nat \ {0}
    /\ MaxFaults \in Nat

VARIABLES
    intf,    \* intf[r]: r's interface and its neighbours
    hello,   \* hello[r][m]: the Hello of r on its way to m, or NoHello
    faults   \* the number of faults so far

vars == <<intf, hello, faults>>

(* States of an interface and of a neighbour; 0 is no router (0.0.0.0).    *)
IfDown == 0
Waiting == 2
DROther == 4
Backup == 5
DR == 6
Down == 0
Init1Way == 2
TwoWay == 3
Adjacent == 4

Nobody == 0
Others(r) == Router \ {r}
NoHello == [sent |-> FALSE]

Claim == Router \cup {Nobody}
NeighborView == [state : {Down, Init1Way, TwoWay, Adjacent}, dr : Claim, bdr : Claim]
Interface == [state : {IfDown, Waiting, DROther, Backup, DR}, dr : Claim, bdr : Claim,
              nbr : [Router -> NeighborView]]

-----------------------------------------------------------------------------
(* The election (dr_election.py).                                          *)

Better(c, d) == Priority[c] > Priority[d] \/ (Priority[c] = Priority[d] /\ c > d)
Best(S) == IF S = {} THEN Nobody
           ELSE CHOOSE c \in S : \A d \in S \ {c} : Better(c, d)

(* The candidates: the router itself and its neighbours from 2-Way on.     *)
Candidates(r, i) ==
    {m \in Router : Priority[m] > 0 /\ (m = r \/ i.nbr[m].state >= TwoWay)}

Claims(r, i) ==
    [m \in Router |-> IF m = r THEN [dr |-> i.dr, bdr |-> i.bdr]
                      ELSE [dr |-> i.nbr[m].dr, bdr |-> i.nbr[m].bdr]]

(* Mutants of Pass: the promoted backup stays backup as well; the backup   *)
(* is promoted as soon as anybody is free, over a router that claims to be DR. *)
PassKeepsBackup(cands, claim) ==
    LET free    == {c \in cands : claim[c].dr # c}
        backups == {c \in free : claim[c].bdr = c}
        bdr     == Best(IF backups # {} THEN backups ELSE free)
    IN [dr |-> IF cands # free THEN Best(cands \ free) ELSE bdr, bdr |-> bdr]
PassPromotesAlways(cands, claim) ==
    LET free    == {c \in cands : claim[c].dr # c}
        backups == {c \in free : claim[c].bdr = c}
        bdr     == Best(IF backups # {} THEN backups ELSE free)
    IN IF free = {} THEN [dr |-> Best(cands \ free), bdr |-> Nobody]
       ELSE [dr |-> bdr, bdr |-> Best(free \ {bdr})]

(* One pass.  When nobody claims to be DR the backup is promoted and the   *)
(* next one becomes backup.                                                *)
Pass(cands, claim) ==
    LET free    == {c \in cands : claim[c].dr # c}
        backups == {c \in free : claim[c].bdr = c}
        bdr     == Best(IF backups # {} THEN backups ELSE free)
        next    == IF backups \ {bdr} # {} THEN backups \ {bdr} ELSE free \ {bdr}
    IN IF cands # free THEN [dr |-> Best(cands \ free), bdr |-> bdr]
       ELSE [dr |-> bdr, bdr |-> Best(next)]

(* A second pass when the first changes what the router itself is.         *)
Elect(r, i) ==
    LET cands  == Candidates(r, i)
        first  == Pass(cands, Claims(r, i))
        second == Pass(cands, IF r \in cands THEN [Claims(r, i) EXCEPT ![r] = first]
                              ELSE Claims(r, i))
        stays  == (i.dr = r) = (first.dr = r) /\ (i.bdr = r) = (first.bdr = r)
    IN CASE cands = {} -> [dr |-> Nobody, bdr |-> Nobody]
         [] cands # {} /\ stays -> first
         [] OTHER -> second

-----------------------------------------------------------------------------
(* The interface and its neighbours.                                       *)

(* _should_form_adjacency *)
ShouldForm(r, i, m) == i.dr \in {r, m} \/ i.bdr \in {r, m}

(* AdjOK? on every neighbour from 2-Way on. *)
AdjOKAll(r, i) ==
    [i EXCEPT !.nbr = [m \in Router |->
        IF @[m].state < TwoWay THEN @[m]
        ELSE [@[m] EXCEPT !.state = IF ShouldForm(r, i, m) THEN Adjacent ELSE TwoWay]]]

TakeRole(r, i, won) ==
    [i EXCEPT !.dr = won.dr, !.bdr = won.bdr,
              !.state = CASE won.dr = r -> DR
                          [] won.dr # r /\ won.bdr = r -> Backup
                          [] OTHER -> DROther]

(* Mutant: no AdjOK? after an election. *)
RunElectionAlone ==
    [t \in Router \X Interface |-> TakeRole(t[1], t[2], Elect(t[1], t[2]))]

(* _run_dr_election: a function, for its argument is the value of a whole  *)
(* nest of handlers.                                                       *)
RunElection ==
    [t \in Router \X Interface |->
        LET r   == t[1]
            i   == t[2]
            won == Elect(r, i)
            e   == TakeRole(r, i, won)
        IN IF won = [dr |-> i.dr, bdr |-> i.bdr] THEN e ELSE AdjOKAll(r, e)]

NeighborChange(r, i) ==
    IF i.state \in {DROther, Backup, DR} THEN RunElection[<<r, i>>] ELSE i

(* A change of a neighbour's state, and the election when it crosses 2-Way. *)
MoveNeighbor(r, i, m, s) ==
    LET e == [i EXCEPT !.nbr[m].state = s]
    IN IF (i.nbr[m].state >= TwoWay) = (s >= TwoWay) THEN e ELSE NeighborChange(r, e)

TwoWayReceived(r, i, m) ==
    MoveNeighbor(r, i, m, IF ShouldForm(r, i, m) THEN Adjacent ELSE TwoWay)

BackupSeen(i, m, h) ==
    i.state = Waiting /\ (h.bdr = m \/ (h.dr = m /\ h.bdr = Nobody))

(* Mutant: a neighbour's new claim raises no NeighborChange. *)
ProcessHelloQuietly(r, i0, m, h) ==
    LET i1  == [i0 EXCEPT !.nbr[m] =
                   [state |-> IF @.state = Down THEN Init1Way ELSE @.state,
                    dr |-> h.dr, bdr |-> h.bdr]]
        i2  == CASE r \in h.sees /\ i1.nbr[m].state = Init1Way -> TwoWayReceived(r, i1, m)
                 [] r \notin h.sees /\ i1.nbr[m].state >= TwoWay ->
                      MoveNeighbor(r, i1, m, Init1Way)
                 [] OTHER -> i1
    IN IF BackupSeen(i2, m, h) THEN RunElection[<<r, i2>>] ELSE i2

ProcessHello(r, i0, m, h) ==
    LET old == i0.nbr[m]
        i1  == [i0 EXCEPT !.nbr[m] =
                   [state |-> IF @.state = Down THEN Init1Way ELSE @.state,
                    dr |-> h.dr, bdr |-> h.bdr]]
        i2  == CASE r \in h.sees /\ i1.nbr[m].state = Init1Way -> TwoWayReceived(r, i1, m)
                 [] r \notin h.sees /\ i1.nbr[m].state >= TwoWay ->
                      MoveNeighbor(r, i1, m, Init1Way)
                 [] OTHER -> i1
        i3  == IF BackupSeen(i2, m, h) THEN RunElection[<<r, i2>>] ELSE i2
    IN IF i3.nbr[m].state >= TwoWay /\ (old.dr # h.dr \/ old.bdr # h.bdr)
         THEN NeighborChange(r, i3) ELSE i3

(* _go_down tells the interface, and so does event() around it: the        *)
(* election runs twice.                                                    *)
KillNeighbor(r, i, m) ==
    LET e == MoveNeighbor(r, i, m, Down)
    IN IF i.nbr[m].state >= TwoWay THEN NeighborChange(r, e) ELSE e

(* Mutant: taken for a passive interface. *)
InterfaceUpPassive(r, i) == [i EXCEPT !.state = 1]

InterfaceUp(r, i) ==
    IF Priority[r] = 0 THEN RunElection[<<r, i>>] ELSE [i EXCEPT !.state = Waiting]

-----------------------------------------------------------------------------
(* Callbacks.                                                              *)

Fresh == [state |-> IfDown, dr |-> Nobody, bdr |-> Nobody,
          nbr |-> [m \in Router |-> [state |-> Down, dr |-> Nobody, bdr |-> Nobody]]]

Up(r) == intf[r].state # IfDown

HelloOf(r, i) ==
    [sent |-> TRUE, dr |-> i.dr, bdr |-> i.bdr,
     sees |-> {m \in Others(r) : i.nbr[m].state >= Init1Way}]

Init ==
    /\ intf = [r \in Router |-> IF r \in AtStart THEN InterfaceUp(r, Fresh) ELSE Fresh]
    /\ hello = [r \in Router |-> [m \in Router |-> NoHello]]
    /\ faults = 0

Strike(kind) == kind \in Fault /\ faults < MaxFaults /\ faults' = faults + 1

(* A Hello is delivered within milliseconds and sent every ten seconds: it *)
(* reaches everyone before the sender's next, and few are on the wire.     *)
Delivered(r) == \A m \in Router : hello[r][m] = NoHello
MayHello(r) ==
    Delivered(r) /\ Cardinality({m \in Router : ~Delivered(m)}) < Overlap

Multicast(r, i) ==
    hello' = [hello EXCEPT ![r] =
                [m \in Router |-> IF m # r /\ Up(m) THEN HelloOf(r, i) ELSE NoHello]]

(* The interface comes up and sends its first Hello at once. *)
Start(r) ==
    /\ ~Up(r) /\ MayHello(r)
    /\ LET i == InterfaceUp(r, intf[r])
       IN intf' = [intf EXCEPT ![r] = i] /\ Multicast(r, i)
    /\ UNCHANGED faults

SendHello(r) ==
    /\ Up(r) /\ MayHello(r)
    /\ Multicast(r, intf[r])
    /\ UNCHANGED <<intf, faults>>

ReceiveHello(r, m) ==
    /\ hello[m][r] # NoHello
    /\ intf' = [intf EXCEPT ![r] = ProcessHello(r, @, m, hello[m][r])]
    /\ hello' = [hello EXCEPT ![m][r] = NoHello]
    /\ UNCHANGED faults

(* A DD packet from a router that is Adjacent to this one implies 2-Way.   *)
ReceiveDD(r, m) ==
    /\ Up(r) /\ Up(m) /\ m # r
    /\ intf[m].nbr[r].state = Adjacent /\ intf[r].nbr[m].state = Init1Way
    /\ intf' = [intf EXCEPT ![r] = TwoWayReceived(r, @, m)]
    /\ UNCHANGED <<hello, faults>>

(* The wait timer runs for RouterDeadInterval, several Hellos long: by     *)
(* then every router that is up is heard, unless the network was slow.     *)
WaitOver(r) ==
    /\ intf[r].state = Waiting
    /\ \A m \in Others(r) : Up(m) => intf[r].nbr[m].state >= TwoWay

WaitTimer(r) ==
    /\ intf[r].state = Waiting
    /\ (WaitOver(r) /\ UNCHANGED faults) \/ Strike("slow")
    /\ intf' = [intf EXCEPT ![r] = RunElection[<<r, @>>]]
    /\ UNCHANGED hello

(* No Hello for RouterDeadInterval: the neighbour is gone, or its Hellos   *)
(* were all lost.                                                          *)
Gone(r, m) ==
    Up(r) /\ ~Up(m) /\ intf[r].nbr[m].state # Down /\ hello[m][r] = NoHello

InactivityTimer(r, m) ==
    /\ \/ Gone(r, m) /\ UNCHANGED faults
       \/ Up(r) /\ Up(m) /\ intf[r].nbr[m].state # Down /\ Strike("expire")
    /\ intf' = [intf EXCEPT ![r] = KillNeighbor(r, @, m)]
    /\ UNCHANGED hello

(* The daemon dies: its sockets are gone and nobody is told. *)
Crash(r) ==
    /\ Up(r) /\ Strike("crash")
    /\ intf' = [intf EXCEPT ![r] = Fresh]
    /\ hello' = [m \in Router |-> [hello[m] EXCEPT ![r] = NoHello]]

LoseHello(r, m) ==
    /\ hello[r][m] # NoHello /\ Strike("lose")
    /\ hello' = [hello EXCEPT ![r][m] = NoHello]
    /\ UNCHANGED intf

Next ==
    \E r \in Router :
       \/ Start(r) \/ SendHello(r) \/ WaitTimer(r) \/ Crash(r)
       \/ \E m \in Others(r) : \/ ReceiveHello(r, m) \/ ReceiveDD(r, m)
                               \/ InactivityTimer(r, m) \/ LoseHello(r, m)

Spec == Init /\ [][Next]_vars

(* Timers fire and sockets are read.  The Hello timer fires again and      *)
(* again, however often its Hello finds the wire busy: strong fairness.    *)
(* Nothing makes a router start, and nothing makes a fault happen.         *)
(* The other callbacks end the condition that enables them, so that their  *)
(* weak fairness says that the condition does not last for ever; it is     *)
(* written so, for TLC takes too long to see whether they are enabled.     *)
Fairness ==
    \A r \in Router :
       /\ SF_vars(SendHello(r))
       /\ []<>~WaitOver(r)
       /\ \A m \in Others(r) : []<>(hello[m][r] = NoHello) /\ []<>~Gone(r, m)

FairSpec == Spec /\ Fairness

-----------------------------------------------------------------------------
(* Properties.                                                             *)

HelloPacket == [sent : {TRUE}, dr : Claim, bdr : Claim, sees : SUBSET Router]

TypeOK ==
    /\ intf \in [Router -> Interface]
    /\ hello \in [Router -> [Router -> HelloPacket \cup {NoHello}]]
    /\ faults \in Nat

(* No router holds one and the same router for DR and for backup: the      *)
(* promotion of a backup, the second pass and claims that arrive one by    *)
(* one never leave a network with a DR that is its own backup.             *)
RolesDistinct == \A r \in Router : intf[r].dr # Nobody => intf[r].dr # intf[r].bdr

(* A router has an adjacency with exactly the neighbours that its last     *)
(* election calls for, although AdjOK? is raised only by an election that  *)
(* changed something, and 2-WayReceived decides before the election that   *)
(* it triggers.                                                            *)
AdjacenciesFit ==
    \A r \in Router : \A m \in Others(r) :
       intf[r].nbr[m].state >= TwoWay =>
          (intf[r].nbr[m].state = Adjacent <=> ShouldForm(r, intf[r], m))

(* A DR steps down only for a router that claims to be DR itself and whose *)
(* claim is better: never because a better router merely joined, and never *)
(* for a claim that the neighbour has withdrawn since.                     *)
DRYields ==
    [][\A r \in Router :
          intf[r].state = DR /\ intf'[r].state \notin {DR, IfDown} =>
             LET m == intf'[r].dr
             IN /\ m \in Others(r) /\ Better(m, r)
                /\ intf'[r].nbr[m].state >= TwoWay /\ intf'[r].nbr[m].dr = m]_vars

(* A DR stays DR until its daemon dies: the first election of a network    *)
(* settles who is DR, and a router that joins later takes over nothing.    *)
DRKept == [][\A r \in Router : intf[r].state = DR => intf'[r].state \in {DR, IfDown}]_vars

(* Once the faults are over, the routers that are up agree on a DR, if any *)
(* may be one, and on a backup, and both are up.                           *)
Eligible(r) == Up(r) /\ Priority[r] > 0
EventuallyAgreed ==
    <>[](\A r \in Router : Up(r) =>
           /\ intf[r].state # Waiting
           /\ (\E s \in Router : Eligible(s)) => intf[r].dr # Nobody
           /\ {intf[r].dr, intf[r].bdr} \ {Nobody} \subseteq {s \in Router : Eligible(s)}
           /\ \A s \in Router : Up(s) => intf[r].dr = intf[s].dr /\ intf[r].bdr = intf[s].bdr)
=============================================================================
