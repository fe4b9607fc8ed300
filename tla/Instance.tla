------------------------------ MODULE Instance ------------------------------
(***************************************************************************)
(* One OspfInstance: its start and shutdown, the scheduling of SPF, and    *)
(* the origination of the Router LSA of every area and the Network LSA of  *)
(* every interface, with their debounce and MinLSInterval.                 *)
(*                                                                         *)
(* Time passes in seconds.  A call_later is the number of seconds that are *)
(* left of it, and the time of an event is the number of seconds since,    *)
(* up to the number that matters; so time has no bound.  What happens on   *)
(* an interface is the business of Lan and Adjacency: here an interface    *)
(* goes from one state they allow to any other.                            *)
(***************************************************************************)
EXTENDS Timers, FiniteSets

CONSTANTS
    Area,           \* areas, positive numbers
    First,          \* the area that comes first in the configuration
    Intf,           \* interfaces, positive numbers
    AreaOf,         \* AreaOf[i]: the area of interface i
    PointToPoint,   \* the interfaces of this type; the others are broadcast
    Passive,        \* the passive interfaces
    Barred,         \* the interfaces with priority 0
    MayFail,        \* the interfaces whose socket may fail to open
    Near,           \* Near[i]: the routers on interface i
    SpfDelay,       \* spf_delay
    SpfHold,        \* spf_hold
    Debounce,       \* the delay of schedule_router_lsa
    MinLSInterval,
    InitialSeq,     \* INITIAL_SEQ_NUM, as an unsigned word
    MaxSeq,         \* MAX_SEQ_NUM
    LastSeq,        \* bound: the last sequence number in the network, 0 if no other
                    \* router sends the LSAs of this one
    Uptimes         \* what time.monotonic() may be when the process starts

Nobody == 0
Me == -1
Off == -1
Owner == Area \cup Intf
Kind == {"hello", "wait", "rxmt"}

ASSUME InstanceAssumption ==
    /\ Area \subseteq Nat \ {0} /\ Intf \subseteq Nat \ {0} /\ Area \cap Intf = {}
    /\ First \in Area
    /\ AreaOf \in [Intf -> Area]
    /\ PointToPoint \subseteq Intf /\ Passive \subseteq Intf /\ Barred \subseteq Intf
    /\ MayFail \subseteq Intf
    /\ Near \in [Intf -> SUBSET (Nat \ {0})]
    /\ SpfDelay \in Nat /\ SpfHold \in Nat /\ Debounce \in Nat /\ MinLSInterval \in Nat
    /\ InitialSeq \in Nat /\ MaxSeq \in Nat /\ LastSeq \in Nat
    /\ Uptimes \subseteq Nat /\ Uptimes # {}

VARIABLES
    phase,      \* "new", "up" or "down"
    intf,       \* intf[i]: state, DR and Full neighbours of interface i
    lsa,        \* lsa[o]: the Router LSA held of area o, the Network LSA of interface o
    since,      \* seconds since _last_origination of a key
    due,        \* due[o]: the pending origination
    spfIn,      \* the pending SPF run
    sinceSpf,   \* seconds since _last_spf_time
    timer,      \* timer[<<i, k>>]: the timers of interface i and its neighbours
    excused,    \* history: what happened since an LSA was last originated that may have
                \* left it behind: an attempt was refused, the DR alone has changed, or a
                \* neighbour has sent another instance of it
    dirtyFor    \* history: seconds since the first LSA that SPF has not seen

vars == <<phase, intf, lsa, since, due, spfIn, sinceSpf, timer, excused, dirtyFor>>

Least(a, b) == IF a < b THEN a ELSE b
Most(a, b) == IF a > b THEN a ELSE b

-----------------------------------------------------------------------------
(* Interfaces.                                                             *)

Absent == [state |-> "Absent", dr |-> Nobody, full |-> {}]
Fresh(i) ==
    [Absent EXCEPT !.state = CASE i \in Passive -> "Loopback"
                               [] i \in PointToPoint \ Passive -> "PointToPoint"
                               [] i \in Barred \ (PointToPoint \cup Passive) -> "DROther"
                               [] OTHER -> "Waiting"]

(* What interface i may be once it is up: a broadcast interface that has   *)
(* held an election, where only the DR and its backup become adjacent to   *)
(* others than these two, or a point-to-point one.                         *)
Possible(i) ==
    CASE i \in Passive -> {}
      [] i \in PointToPoint \ Passive ->
           [state : {"PointToPoint"}, dr : {Nobody}, full : SUBSET Near[i]]
      [] OTHER ->
           {g \in [state : {"DR", "Backup", "DROther"}, dr : Near[i] \cup {Me, Nobody}, full : SUBSET Near[i]] :
              /\ g.state = "DR" <=> g.dr = Me
              /\ g.state = "Backup" => g.dr # Nobody
              /\ g.state = "DROther" => \E b \in Near[i] \cup {Nobody} : g.full \subseteq {g.dr, b}
              /\ i \in Barred => g.state = "DROther"
              /\ g.dr = Nobody => g.full = {}}

(* One neighbour becomes Full, or some are lost, with an election or not. *)
Moves(i, f) ==
    {g \in Possible(i) :
        \/ g.full \subseteq f.full
        \/ g.state = f.state /\ g.dr = f.dr /\ \E n \in Near[i] : g.full = f.full \cup {n}}

(* The links of a Router LSA and the routers of a Network LSA. *)
Link(f) ==
    CASE f.state = "Absent" -> [kind |-> "none", to |-> {}]
      [] f.state = "Loopback" -> [kind |-> "host", to |-> {}]
      [] f.state = "PointToPoint" -> [kind |-> "p2p", to |-> f.full]
      [] f.state \in {"Waiting", "DR", "Backup", "DROther"} ->
           IF f.full # {} /\ f.dr # Nobody THEN [kind |-> "transit", to |-> {f.dr}]
           ELSE [kind |-> "stub", to |-> {}]
Attached(f) == [kind |-> "network", to |-> f.full \cup {Me}]

IntfsOf(a) == {i \in Intf : AreaOf[i] = a}
Body(I, o) ==
    IF o \in Area THEN [i \in IntfsOf(o) |-> Link(I[i])] ELSE [i \in {o} |-> Attached(I[i])]
(* Only a DR with a Full neighbour originates a Network LSA. *)
Originates(I, o) == o \in Area \/ (I[o].state = "DR" /\ I[o].full # {})

-----------------------------------------------------------------------------
(* Origination. *)

NoLsa == [seq |-> -1]
Held(o) == lsa[o] # NoLsa

(* All areas share the key of the Router LSA. *)
KeyOf(o) == IF o \in Area THEN 0 ELSE o
NextSeq(o) == IF Held(o) THEN lsa[o].seq + 1 ELSE InitialSeq

(* _originate: too soon after the last one, or out of sequence numbers,    *)
(* and nothing is done.                                                    *)
Refuses(o) ==
    \/ since[KeyOf(o)] < MinLSInterval
    \/ Held(o) /\ NextSeq(o) > MaxSeq

Originate(o) ==
    IF ~Originates(intf, o) \/ Refuses(o)
      THEN UNCHANGED <<lsa, since>>
      ELSE /\ lsa' = [lsa EXCEPT ![o] = [seq |-> NextSeq(o), body |-> Body(intf, o)]]
           /\ since' = [since EXCEPT ![KeyOf(o)] = 0]

(* _originate_router_lsa, _originate_network_lsa *)
Attempt(o) ==
    /\ due[o] = 0
    /\ due' = [due EXCEPT ![o] = Off]
    /\ Originate(o)
    /\ excused' = IF Originates(intf, o) /\ Refuses(o) THEN excused \cup {o} ELSE excused \ {o}
    /\ UNCHANGED <<phase, intf, spfIn, sinceSpf, timer, dirtyFor>>

(* Mutant: the loss of an adjacency above 2-Way is not reported. *)
RescheduledByState(i, f, moved) ==
    IF intf[i].state = f.state /\ intf[i].full # {} THEN {}
    ELSE {AreaOf[i]} \cup IF f.state = "DR" THEN {i} ELSE {}
(* _state_changed, neighbor_state_changed: moved says that a neighbour     *)
(* went from one state below Full to another.  The DR alone is no reason.  *)
Rescheduled(i, f, moved) ==
    IF moved \/ intf[i].state # f.state \/ intf[i].full # f.full
      THEN {AreaOf[i]} \cup IF f.state = "DR" THEN {i} ELSE {}
      ELSE {}

Change(i) ==
    \E f \in Moves(i, intf[i]) \cup {intf[i]} : \E moved \in BOOLEAN :
       /\ phase = "up" /\ i \notin Passive /\ intf[i] # Absent
       /\ f # intf[i] \/ moved
       /\ intf' = [intf EXCEPT ![i] = f]
       /\ due' = [o \in Owner |->
                    IF o \in Rescheduled(i, f, moved) /\ due[o] = Off THEN Debounce ELSE due[o]]
       /\ timer' = IF f.state = "Waiting" THEN timer ELSE [timer EXCEPT ![<<i, "wait">>] = Stopped]
       /\ excused' = IF f.state = intf[i].state /\ f.full = intf[i].full /\ Link(f) # Link(intf[i])
                       THEN excused \cup {AreaOf[i]} ELSE excused
       /\ UNCHANGED <<phase, lsa, since, spfIn, sinceSpf, dirtyFor>>

(* A neighbour sends an instance of an own LSA that is newer than the one  *)
(* held, of this life or a former one, or flushes it.  refresh_lsa finds   *)
(* no larger sequence number.                                              *)
Former(o) == [i \in IF o \in Area THEN IntfsOf(o) ELSE {o} |-> [kind |-> "former", to |-> {}]]
OwnReturns(o) ==
    /\ phase = "up" /\ LastSeq > 0
    /\ \E i \in Intf : Near[i] # {} /\ AreaOf[i] = IF o \in Area THEN o ELSE AreaOf[o]
    /\ \/ \E s \in InitialSeq..LastSeq :
            /\ s > lsa[o].seq /\ s + 1 > MaxSeq
            /\ lsa' = [lsa EXCEPT ![o] = [seq |-> s, body |-> Former(o)]]
       \/ Held(o) /\ lsa' = [lsa EXCEPT ![o] = NoLsa]
    /\ excused' = excused \cup {o}
    /\ UNCHANGED <<phase, intf, since, due, spfIn, sinceSpf, timer, dirtyFor>>

-----------------------------------------------------------------------------
(* SPF. *)

DelayOnly == SpfDelay   \* mutant: the hold time is not added
SpfWait == Most(SpfDelay, SpfHold - sinceSpf)

(* An LSA of another router is installed, and schedule_spf called. *)
Install ==
    /\ phase = "up"
    /\ spfIn' = IF spfIn = Off THEN SpfWait ELSE spfIn
    /\ dirtyFor' = IF dirtyFor = Off THEN 0 ELSE dirtyFor
    /\ UNCHANGED <<phase, intf, lsa, since, due, sinceSpf, timer, excused>>

RunSpf ==
    /\ spfIn = 0
    /\ spfIn' = Off /\ sinceSpf' = 0
    /\ dirtyFor' = Off
    /\ UNCHANGED <<phase, intf, lsa, since, due, timer, excused>>

-----------------------------------------------------------------------------
(* Timers, and the clock. *)

(* The requests of a neighbour are retransmitted: _send_ls_request starts  *)
(* the timer, its own callback calls that as well, and other packets stop  *)
(* it.                                                                     *)
Rxmt(i) ==
    /\ phase = "up" /\ intf[i].state \notin {"Absent", "Loopback", "Waiting"}
    /\ \/ timer' = [timer EXCEPT ![<<i, "rxmt">>] = StartTimer(@)]
       \/ timer' = [timer EXCEPT ![<<i, "rxmt">>] = StopTimer(@)]
    /\ UNCHANGED <<phase, intf, lsa, since, due, spfIn, sinceSpf, excused, dirtyFor>>

FireTimer(i) ==
    /\ \/ /\ timer[<<i, "rxmt">>].live > 0
          /\ \/ timer' = [timer EXCEPT ![<<i, "rxmt">>] = Fire(@, StartTimer(Fired(@)))]
             \/ timer' = [timer EXCEPT ![<<i, "rxmt">>] = Fire(@, Fired(@))]
       \/ /\ timer[<<i, "hello">>].live > 0
          /\ timer' = [timer EXCEPT ![<<i, "hello">>] = Fire(@, Fired(@))]
    /\ UNCHANGED <<phase, intf, lsa, since, due, spfIn, sinceSpf, excused, dirtyFor>>

Later(n) == IF n = Off THEN Off ELSE n - 1
Tick ==
    /\ phase = "up"
    /\ spfIn # 0 /\ \A o \in Owner : due[o] # 0
    /\ due' = [o \in Owner |-> Later(due[o])]
    /\ spfIn' = Later(spfIn)
    /\ sinceSpf' = Least(sinceSpf + 1, SpfHold)
    /\ since' = [k \in {0} \cup Intf |-> Least(since[k] + 1, MinLSInterval)]
    /\ dirtyFor' = IF dirtyFor = Off THEN Off ELSE dirtyFor + 1
    /\ UNCHANGED <<phase, intf, lsa, timer, excused>>

-----------------------------------------------------------------------------
(* Start and shutdown. *)

NoTimers == [t \in Intf \X Kind |-> Stopped]

Init ==
    /\ phase = "new"
    /\ intf = [i \in Intf |-> Absent]
    /\ lsa = [o \in Owner |-> NoLsa]
    /\ since = [k \in {0} \cup Intf |-> 0]
    /\ due = [o \in Owner |-> Off]
    /\ spfIn = Off /\ sinceSpf = 0
    /\ timer = NoTimers
    /\ excused = {}
    /\ dirtyFor = Off

(* A new process.  The interfaces that open come up, which schedules their *)
(* areas' Router LSAs; then the Router LSA of every area is originated, of *)
(* which only the first is not too soon after another.                     *)
Start ==
    \E failed \in SUBSET MayFail, u \in Uptimes :
       LET I == [i \in Intf |-> IF i \in failed THEN Absent ELSE Fresh(i)]
       IN /\ phase # "up" /\ phase' = "up"
          /\ intf' = I
          /\ due' = [o \in Owner |-> IF \E i \in Intf \ failed : o = AreaOf[i] THEN Debounce ELSE Off]
          /\ lsa' = [o \in Owner |-> IF o = First /\ u >= MinLSInterval
                                       THEN [seq |-> InitialSeq, body |-> Body(I, o)] ELSE NoLsa]
          /\ since' = [k \in {0} \cup Intf |->
                         IF k = 0 /\ u >= MinLSInterval THEN 0 ELSE Least(u, MinLSInterval)]
          /\ spfIn' = Off /\ sinceSpf' = Least(u, SpfHold)
          /\ timer' = [t \in Intf \X Kind |->
                         CASE t[2] = "hello" /\ I[t[1]].state \notin {"Absent", "Loopback"} -> StartTimer(Stopped)
                           [] t[2] = "wait" /\ I[t[1]].state = "Waiting" -> Once
                           [] OTHER -> Stopped]
          /\ excused' = {a \in Area : a # First \/ u < MinLSInterval}
          /\ dirtyFor' = Off

(* The handles are cancelled, then each interface stops its timers and     *)
(* destroys its neighbours, which reports no change of theirs.             *)
ShutdownKeepsNetwork ==   \* mutant: pending Network LSAs are not cancelled
    /\ phase = "up" /\ phase' = "down"
    /\ due' = [o \in Owner |-> IF o \in Area THEN Off ELSE due[o]]
    /\ spfIn' = Off
    /\ timer' = [t \in Intf \X Kind |-> StopTimer(timer[t])]
    /\ intf' = [i \in Intf |-> [intf[i] EXCEPT !.full = {}]]
    /\ UNCHANGED <<lsa, since, sinceSpf, excused, dirtyFor>>
Shutdown ==
    /\ phase = "up" /\ phase' = "down"
    /\ due' = [o \in Owner |-> Off]
    /\ spfIn' = Off
    /\ timer' = [t \in Intf \X Kind |-> StopTimer(timer[t])]
    /\ intf' = [i \in Intf |-> [intf[i] EXCEPT !.full = {}]]
    /\ UNCHANGED <<lsa, since, sinceSpf, excused, dirtyFor>>

Next ==
    \/ Start \/ Shutdown \/ Tick \/ Install \/ RunSpf
    \/ \E o \in Owner : Attempt(o) \/ OwnReturns(o)
    \/ \E i \in Intf : Change(i) \/ Rxmt(i) \/ FireTimer(i)

Spec == Init /\ [][Next]_vars

(* The clock goes on, and what is due is done. *)
Fairness == WF_vars(Tick) /\ WF_vars(RunSpf) /\ \A o \in Owner : WF_vars(Attempt(o))
FairSpec == Spec /\ Fairness

-----------------------------------------------------------------------------
(* Properties.                                                             *)

(* The types; and no timer has two handles: it would fire twice as often,  *)
(* and stop would take only one of them.                                   *)
TypeOK ==
    /\ phase \in {"new", "up", "down"}
    /\ DOMAIN intf = Intf
    /\ \A i \in Intf : intf[i] \in {Absent, Fresh(i)} \cup Possible(i)
    /\ DOMAIN lsa = Owner
    /\ since \in [{0} \cup Intf -> 0..MinLSInterval]
    /\ due \in [Owner -> {Off} \cup 0..Debounce]
    /\ spfIn \in {Off} \cup 0..Most(SpfDelay, SpfHold)
    /\ sinceSpf \in 0..SpfHold
    /\ timer \in [Intf \X Kind -> [running : BOOLEAN, live : 0..1]]
    /\ excused \subseteq Owner
    /\ dirtyFor \in {Off} \cup Nat

(* "minimum seconds between SPF runs" and "seconds to wait after a         *)
(* topology change": however LSAs and runs follow each other, a run never  *)
(* comes before spf_hold, and no LSA waits longer than the larger of       *)
(* spf_delay and spf_hold.                                                 *)
SpfInTime ==
    /\ spfIn # Off => sinceSpf + spfIn >= SpfHold
    /\ phase = "up" /\ dirtyFor # Off =>
         spfIn # Off /\ dirtyFor + spfIn <= Most(SpfDelay, SpfHold)

(* "Trigger LSA re-origination": as long as no attempt is pending, an LSA  *)
(* of this router holds what its interfaces are now, whatever came and     *)
(* went while one was.  Three things leave it behind: an attempt that is   *)
(* refused, a change of the DR alone, which is no reason to schedule one,  *)
(* and another instance that a neighbour sends.                            *)
Describes(o) == Held(o) /\ lsa[o].body = Body(intf, o)
LsasDescribe ==
    phase = "up" =>
       \A o \in Owner \ excused : due[o] = Off /\ Originates(intf, o) => Describes(o)

(* After the shutdown nothing that the instance scheduled is left.         *)
QuietAfterShutdown ==
    phase # "up" =>
       /\ \A o \in Owner : due[o] = Off
       /\ spfIn = Off
       /\ \A i \in Intf, k \in Kind : timer[<<i, k>>].live = 0

(* "Schedule Router LSA re-origination" (instance.py), "Trigger LSA         *)
(* re-origination" (interface.py): the Router LSA of every area describes *)
(* the interfaces once these change no more.                               *)
LsaFollows ==
    \/ []<><<\E i \in Intf : Change(i)>>_vars
    \/ []<><<Start>>_vars
    \/ <>[](phase = "up" => \A a \in Area : Describes(a))

(* A Router LSA that differs from what the interfaces are now is to be     *)
(* originated again, also when only the DR has changed.                    *)
LinksScheduled ==
    phase = "up" => \A a \in Area :
       Held(a) /\ lsa[a].body # Body(intf, a) /\ lsa[a].body # Former(a) => due[a] # Off

(* originate_network_lsa: "Only originated by the DR".                     *)
NetworkLsaByDR ==
    \A i \in Intf : phase = "up" /\ Held(i) => intf[i].state = "DR"
=============================================================================
