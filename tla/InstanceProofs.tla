--------------------------- MODULE InstanceProofs ---------------------------
(***************************************************************************)
(* Proofs about module Instance, for all areas, interfaces, neighbours and *)
(* delays.                                                                 *)
(*                                                                         *)
(* The four properties hold together: a timer has one handle because a     *)
(* periodic timer that is not running has none, a run of SPF is in time    *)
(* because its delay was computed from the time of the last one, and what  *)
(* is quiet after a shutdown stays so because every other action needs a   *)
(* handle or a running process.                                            *)
(***************************************************************************)
EXTENDS Instance, TLAPS

(* A periodic timer that is stopped has no handle with the event loop. *)
PeriodicIdle ==
    \A i \in Intf : \A k \in {"hello", "rxmt"} : ~timer[<<i, k>>].running => timer[<<i, k>>].live = 0

IInv == TypeOK /\ PeriodicIdle /\ SpfInTime /\ LsasDescribe /\ QuietAfterShutdown

-----------------------------------------------------------------------------
(* The timers of util/timer.py. *)

TimerType == [running : BOOLEAN, live : 0..1]
(* The timer of a state in which every handle is accounted for. *)
Sound(t) == t \in TimerType /\ (~t.running => t.live = 0)

LEMMA SoundTimers ==
    ASSUME NEW t \in TimerType, Sound(t)
    PROVE  /\ Sound(StartTimer(t)) /\ Sound(StopTimer(t))
           /\ StopTimer(t).live = 0
<1>1. PICK r \in BOOLEAN, n \in 0..1 : t = [running |-> r, live |-> n]
  BY DEF TimerType
<1>2. ~r => n = 0
  BY <1>1 DEF Sound
<1>3. CASE r
  BY <1>1, <1>3 DEF Sound, TimerType, StartTimer, StopTimer, Handle
<1>4. CASE ~r
  <2>1. StartTimer(t) = [running |-> TRUE, live |-> 1]
    BY <1>1, <1>2, <1>4 DEF StartTimer, Schedule, Handle
  <2>2. StopTimer(t) = [running |-> FALSE, live |-> 0]
    BY <1>1, <1>2, <1>4 DEF StopTimer, Handle
  <2> QED
    BY <2>1, <2>2 DEF Sound, TimerType
<1> QED
  BY <1>3, <1>4

(* The one-shot timer of a state, or a periodic one. *)
LEMMA StopsAny ==
    ASSUME NEW t \in TimerType
    PROVE  Sound(StopTimer(t)) /\ StopTimer(t).live = 0
  BY DEF Sound, TimerType, StopTimer, Handle

(* A callback that leaves its own timer alone or starts it again.          *)
LEMMA SoundFire ==
    ASSUME NEW t \in TimerType, Sound(t), t.live > 0
    PROVE  Sound(Fire(t, StartTimer(Fired(t)))) /\ Sound(Fire(t, Fired(t)))
<1>1. t = [running |-> TRUE, live |-> 1]
  BY DEF TimerType, Sound
<1>2. /\ StartTimer([running |-> TRUE, live |-> 0]) = [running |-> TRUE, live |-> 0]
      /\ Schedule([running |-> TRUE, live |-> 0]) = t
  BY <1>1 DEF StartTimer, Schedule, Handle
<1>3. Fire(t, StartTimer(Fired(t))) = t /\ Fire(t, Fired(t)) = t
  BY <1>1, <1>2 DEF Fire, Fired, Handle
<1> QED
  BY <1>3

LEMMA SoundNew == Sound(Stopped) /\ Sound(StartTimer(Stopped)) /\ Once \in TimerType
  BY DEF Sound, TimerType, Stopped, StartTimer, Schedule, Once, Handle

-----------------------------------------------------------------------------
(* The delays. *)

LEMMA WaitBounds ==
    ASSUME sinceSpf \in 0..SpfHold
    PROVE  /\ SpfWait \in 0..Most(SpfDelay, SpfHold)
           /\ sinceSpf + SpfWait >= SpfHold
  BY InstanceAssumption DEF InstanceAssumption, SpfWait, Most

LEMMA LeastType == ASSUME NEW m \in Nat, NEW n \in Nat PROVE Least(m, n) \in 0..n
  BY DEF Least

-----------------------------------------------------------------------------
(* The parts of the type invariant that an action may touch. *)

IntfOK == DOMAIN intf = Intf /\ \A i \in Intf : intf[i] \in {Absent, Fresh(i)} \cup Possible(i)
ClockOK ==
    /\ since \in [{0} \cup Intf -> 0..MinLSInterval]
    /\ due \in [Owner -> {Off} \cup 0..Debounce]
    /\ spfIn \in {Off} \cup 0..Most(SpfDelay, SpfHold)
    /\ sinceSpf \in 0..SpfHold
    /\ dirtyFor \in {Off} \cup Nat
TimersOK == timer \in [Intf \X Kind -> TimerType]

(* What the LSAs have to describe depends on nothing else.                 *)
LEMMA SameLsas ==
    ASSUME LsasDescribe, phase' = "up" => phase = "up", UNCHANGED <<intf, lsa, excused>>,
           \A o \in Owner : due'[o] = Off => due[o] = Off
    PROVE  LsasDescribe'
<1>1. \A o \in Owner : /\ Originates(intf, o)' = Originates(intf, o)
                       /\ Describes(o)' = Describes(o)
  BY DEF Originates, Describes, Held, Body, IntfsOf
<1> QED
  BY <1>1 DEF LsasDescribe

-----------------------------------------------------------------------------
(* Initial states. *)

LEMMA InitInv == Init => IInv
<1> SUFFICES ASSUME Init PROVE IInv
  OBVIOUS
<1> USE DEF Init, NoTimers
<1>1. IntfOK
  BY DEF IntfOK
<1>2. ClockOK
  BY InstanceAssumption DEF InstanceAssumption, ClockOK, Off
<1>3. TimersOK /\ PeriodicIdle
  BY SoundNew DEF TimersOK, PeriodicIdle, Sound, Kind
<1>4. TypeOK
  BY <1>1, <1>2, <1>3 DEF TypeOK, IntfOK, ClockOK, TimersOK, TimerType
<1>5. SpfInTime /\ LsasDescribe
  BY DEF SpfInTime, LsasDescribe
<1>6. QuietAfterShutdown
  BY DEF QuietAfterShutdown, Stopped, Handle, Off
<1> QED
  BY <1>3, <1>4, <1>5, <1>6 DEF IInv

-----------------------------------------------------------------------------
(* Actions that touch neither the timers of an interface nor its state. *)

LEMMA AttemptInv == ASSUME IInv, NEW o \in Owner, Attempt(o) PROVE IInv'
<1> USE DEF Attempt
<1>1. phase = "up" /\ phase' = "up"
  BY DEF IInv, TypeOK, QuietAfterShutdown, Off
<1>2. since' \in [{0} \cup Intf -> 0..MinLSInterval]
  <2>1. CASE ~Originates(intf, o) \/ Refuses(o)
    BY <2>1 DEF IInv, TypeOK, Originate
  <2>2. CASE ~(~Originates(intf, o) \/ Refuses(o))
    BY <2>2, InstanceAssumption DEF InstanceAssumption, IInv, TypeOK, Originate
  <2> QED
    BY <2>1, <2>2
<1>3. ClockOK'
  BY <1>2 DEF IInv, TypeOK, ClockOK
<1>4. TypeOK'
  <2>1. DOMAIN lsa' = Owner /\ excused' \subseteq Owner
    BY DEF IInv, TypeOK, Originate
  <2> QED
    BY <1>1, <1>3, <2>1 DEF IInv, TypeOK, ClockOK
<1>5. PeriodicIdle'
  BY DEF IInv, PeriodicIdle
<1>6. SpfInTime'
  BY DEF IInv, SpfInTime
<1>7. LsasDescribe'
  <2> SUFFICES ASSUME NEW p \in Owner, p \notin excused', due'[p] = Off, Originates(intf, p)
               PROVE  lsa'[p] # NoLsa /\ lsa'[p].body = Body(intf, p)
    BY DEF LsasDescribe, Describes, Held, Originates, Body
  <2>1. CASE p = o
    <3>1. ~Refuses(o)
      BY <2>1
    <3>2. lsa'[o] = [seq |-> NextSeq(o), body |-> Body(intf, o)]
      BY <2>1, <3>1 DEF Originate, IInv, TypeOK
    <3>3. DOMAIN lsa'[o] = {"seq", "body"} /\ DOMAIN NoLsa = {"seq"}
      BY <3>2 DEF NoLsa
    <3> QED
      BY <2>1, <3>2, <3>3
  <2>2. CASE p # o
    <3>1. due[p] = Off /\ p \notin excused
      BY <2>2 DEF IInv, TypeOK
    <3>2. lsa'[p] = lsa[p]
      BY <2>2 DEF Originate, IInv, TypeOK
    <3> QED
      BY <1>1, <3>1, <3>2 DEF IInv, LsasDescribe, Describes, Held
  <2> QED
    BY <2>1, <2>2
<1>8. QuietAfterShutdown'
  BY <1>1 DEF QuietAfterShutdown
<1> QED
  BY <1>4, <1>5, <1>6, <1>7, <1>8 DEF IInv

(* Others send an own LSA back: only the database changes. *)
LEMMA OwnReturnsInv == ASSUME IInv, NEW o \in Owner, OwnReturns(o) PROVE IInv'
<1>1. PICK l : lsa' = [lsa EXCEPT ![o] = l]
  BY DEF OwnReturns
<1>2. excused' = excused \cup {o} /\ UNCHANGED <<phase, intf, since, due, spfIn, sinceSpf, timer, dirtyFor>>
  BY DEF OwnReturns
<1>3. LsasDescribe'
  <2> SUFFICES ASSUME phase = "up", NEW p \in Owner, p \notin excused', due[p] = Off, Originates(intf, p)
               PROVE  lsa'[p] # NoLsa /\ lsa'[p].body = Body(intf, p)
    BY <1>2 DEF LsasDescribe, Describes, Held, Originates, Body
  <2>1. p # o /\ p \notin excused
    BY <1>2
  <2>2. lsa'[p] = lsa[p]
    BY <1>1, <2>1 DEF IInv, TypeOK
  <2> QED
    BY <2>1, <2>2 DEF IInv, LsasDescribe, Describes, Held
<1>4. TypeOK'
  BY <1>1, <1>2 DEF IInv, TypeOK
<1>5. PeriodicIdle' /\ SpfInTime' /\ QuietAfterShutdown'
  BY <1>2 DEF IInv, PeriodicIdle, SpfInTime, QuietAfterShutdown
<1> QED
  BY <1>3, <1>4, <1>5 DEF IInv

LEMMA InstallInv == ASSUME IInv, Install PROVE IInv'
<1> USE DEF Install
<1>1. SpfWait \in 0..Most(SpfDelay, SpfHold) /\ sinceSpf + SpfWait >= SpfHold
  BY WaitBounds DEF IInv, TypeOK
<1>2. TypeOK'
  BY <1>1 DEF IInv, TypeOK
<1>3. SpfInTime'
  BY <1>1, InstanceAssumption DEF InstanceAssumption, IInv, TypeOK, SpfInTime, Off, Most
<1>4. PeriodicIdle' /\ LsasDescribe' /\ QuietAfterShutdown'
  BY SameLsas DEF IInv, PeriodicIdle, QuietAfterShutdown
<1> QED
  BY <1>2, <1>3, <1>4 DEF IInv

LEMMA RunSpfInv == ASSUME IInv, RunSpf PROVE IInv'
<1> USE DEF RunSpf
<1>1. TypeOK'
  BY InstanceAssumption DEF InstanceAssumption, IInv, TypeOK
<1>2. SpfInTime'
  BY DEF SpfInTime
<1>3. PeriodicIdle' /\ LsasDescribe' /\ QuietAfterShutdown'
  BY SameLsas DEF IInv, PeriodicIdle, QuietAfterShutdown
<1> QED
  BY <1>1, <1>2, <1>3 DEF IInv

LEMMA TickInv == ASSUME IInv, Tick PROVE IInv'
<1> USE DEF Tick
<1>1. /\ Least(sinceSpf + 1, SpfHold) \in 0..SpfHold
      /\ \A k \in {0} \cup Intf : Least(since[k] + 1, MinLSInterval) \in 0..MinLSInterval
  BY InstanceAssumption DEF InstanceAssumption, IInv, TypeOK, Least
<1>2. \A o \in Owner : Later(due[o]) \in {Off} \cup 0..Debounce /\ (due[o] # Off => Later(due[o]) # Off)
  BY InstanceAssumption DEF InstanceAssumption, IInv, TypeOK, Later, Off
<1>3. /\ Later(spfIn) \in {Off} \cup 0..Most(SpfDelay, SpfHold)
      /\ spfIn # Off => Later(spfIn) = spfIn - 1 /\ Later(spfIn) # Off
      /\ spfIn = Off => Later(spfIn) = Off
  BY InstanceAssumption DEF InstanceAssumption, IInv, TypeOK, Later, Off, Most
<1>4. TypeOK'
  <2>1. dirtyFor' \in {Off} \cup Nat
    BY DEF IInv, TypeOK, Off
  <2>2. ClockOK'
    BY <1>1, <1>2, <1>3, <2>1 DEF ClockOK
  <2> QED
    BY <2>2 DEF IInv, TypeOK, ClockOK
<1>5. SpfInTime'
  <2>1. spfIn' # Off => sinceSpf' + spfIn' >= SpfHold
    BY <1>3, InstanceAssumption DEF InstanceAssumption, IInv, TypeOK, SpfInTime, Off, Least, Most
  <2>2. phase' = "up" /\ dirtyFor' # Off =>
          spfIn' # Off /\ dirtyFor' + spfIn' <= Most(SpfDelay, SpfHold)
    BY <1>3, InstanceAssumption DEF InstanceAssumption, IInv, TypeOK, SpfInTime, Off, Most
  <2> QED
    BY <2>1, <2>2 DEF SpfInTime
<1>6. LsasDescribe'
  BY <1>2, SameLsas DEF IInv, TypeOK
<1>7. PeriodicIdle' /\ QuietAfterShutdown'
  BY DEF IInv, PeriodicIdle, QuietAfterShutdown
<1> QED
  BY <1>4, <1>5, <1>6, <1>7 DEF IInv

-----------------------------------------------------------------------------
(* Actions of an interface and its timers. *)

(* A timer of interface i becomes t: the other timers stay as they are.    *)
LEMMA OneTimer ==
    ASSUME IInv, NEW i \in Intf, NEW k \in {"hello", "rxmt"}, NEW t \in TimerType, Sound(t),
           phase = "up", phase' = "up",
           timer' = [timer EXCEPT ![<<i, k>>] = t],
           UNCHANGED <<intf, lsa, since, due, spfIn, sinceSpf, excused, dirtyFor>>
    PROVE  IInv'
<1>1. <<i, k>> \in Intf \X Kind
  BY DEF Kind
<1>2. timer' \in [Intf \X Kind -> TimerType]
  BY <1>1 DEF IInv, TypeOK, TimerType
<1>3. TypeOK'
  BY <1>2 DEF IInv, TypeOK, TimerType
<1>4. PeriodicIdle'
  <2> SUFFICES ASSUME NEW j \in Intf, NEW l \in {"hello", "rxmt"}, ~timer[<<j, l>>].running'
               PROVE  timer[<<j, l>>].live' = 0
    BY DEF PeriodicIdle
  <2>1. <<j, l>> \in Intf \X Kind
    BY DEF Kind
  <2>2. CASE <<j, l>> = <<i, k>>
    BY <2>1, <2>2 DEF IInv, TypeOK, Sound
  <2>3. CASE <<j, l>> # <<i, k>>
    BY <2>1, <2>3 DEF IInv, TypeOK, PeriodicIdle
  <2> QED
    BY <2>2, <2>3
<1>5. SpfInTime' /\ LsasDescribe' /\ QuietAfterShutdown'
  BY SameLsas DEF IInv, SpfInTime, QuietAfterShutdown
<1> QED
  BY <1>3, <1>4, <1>5 DEF IInv

LEMMA PeriodicSound ==
    ASSUME IInv, NEW i \in Intf, NEW k \in {"hello", "rxmt"}
    PROVE  timer[<<i, k>>] \in TimerType /\ Sound(timer[<<i, k>>])
<1>1. <<i, k>> \in Intf \X Kind
  BY DEF Kind
<1> QED
  BY <1>1 DEF IInv, TypeOK, PeriodicIdle, TimerType, Sound

LEMMA RxmtInv == ASSUME IInv, NEW i \in Intf, Rxmt(i) PROVE IInv'
<1> DEFINE t == timer[<<i, "rxmt">>]
<1>1. t \in TimerType /\ Sound(t)
  BY PeriodicSound
<1>2. Sound(StartTimer(t)) /\ Sound(StopTimer(t))
  BY <1>1, SoundTimers
<1>3. \/ timer' = [timer EXCEPT ![<<i, "rxmt">>] = StartTimer(t)]
      \/ timer' = [timer EXCEPT ![<<i, "rxmt">>] = StopTimer(t)]
  BY DEF Rxmt
<1>4. StartTimer(t) \in TimerType /\ StopTimer(t) \in TimerType
  BY <1>2 DEF Sound
<1>5. phase = "up" /\ phase' = "up" /\ UNCHANGED <<intf, lsa, since, due, spfIn, sinceSpf, excused, dirtyFor>>
  BY DEF Rxmt
<1> HIDE DEF t
<1> QED
  BY <1>2, <1>3, <1>4, <1>5, OneTimer

LEMMA FireTimerInv == ASSUME IInv, NEW i \in Intf, FireTimer(i) PROVE IInv'
<1>1. PICK k \in {"hello", "rxmt"} :
        /\ timer[<<i, k>>].live > 0
        /\ \/ timer' = [timer EXCEPT ![<<i, k>>] = Fire(timer[<<i, k>>], StartTimer(Fired(timer[<<i, k>>])))]
           \/ timer' = [timer EXCEPT ![<<i, k>>] = Fire(timer[<<i, k>>], Fired(timer[<<i, k>>]))]
  BY DEF FireTimer
<1> DEFINE t == timer[<<i, k>>]
<1>2. t \in TimerType /\ Sound(t)
  BY PeriodicSound
<1>3. /\ Sound(Fire(t, StartTimer(Fired(t)))) /\ Sound(Fire(t, Fired(t)))
      /\ Fire(t, StartTimer(Fired(t))) \in TimerType /\ Fire(t, Fired(t)) \in TimerType
  <2>1. Sound(Fire(t, StartTimer(Fired(t)))) /\ Sound(Fire(t, Fired(t)))
    BY <1>1, <1>2, SoundFire
  <2> QED
    BY <2>1 DEF Sound
<1>4. phase = "up" /\ phase' = "up" /\ UNCHANGED <<intf, lsa, since, due, spfIn, sinceSpf, excused, dirtyFor>>
  <2>1. phase # "up" => timer[<<i, k>>].live = 0
    BY DEF IInv, QuietAfterShutdown, Kind
  <2>2. phase = "up"
    BY <1>1, <2>1
  <2> QED
    BY <2>2 DEF FireTimer
<1> QED
  BY <1>1, <1>3, <1>4, OneTimer

(* A change that schedules no LSA o and is no change of the DR alone leaves *)
(* what LSA o is to hold, or is one after which o is not originated.       *)
LEMMA ChangeCovers ==
    ASSUME IInv, NEW i \in Intf, NEW f, NEW moved \in BOOLEAN, NEW o \in Owner,
           o \notin Rescheduled(i, f, moved),
           f.state = intf[i].state /\ f.full = intf[i].full => Link(f) = Link(intf[i]) \/ o # AreaOf[i],
           intf' = [intf EXCEPT ![i] = f], Originates(intf', o)
    PROVE  Originates(intf, o) /\ Body(intf', o) = Body(intf, o)
<1>1. \A j \in Intf : intf'[j] = IF j = i THEN f ELSE intf[j]
  BY DEF IInv, TypeOK
<1>2. CASE o \in Area
  <2>1. \A j \in IntfsOf(o) : Link(intf'[j]) = Link(intf[j])
    <3> SUFFICES ASSUME i \in IntfsOf(o) PROVE Link(f) = Link(intf[i])
      BY <1>1 DEF IntfsOf
    <3>1. AreaOf[i] = o
      BY DEF IntfsOf
    <3>2. f.state = intf[i].state /\ f.full = intf[i].full
      BY <3>1 DEF Rescheduled
    <3> QED
      BY <3>1, <3>2
  <2>2. Body(intf', o) = [j \in IntfsOf(o) |-> Link(intf'[j])] /\ Body(intf, o) = [j \in IntfsOf(o) |-> Link(intf[j])]
    BY <1>2 DEF Body
  <2>3. Body(intf', o) = Body(intf, o)
    BY <2>1, <2>2
  <2> QED
    BY <1>2, <2>3 DEF Originates
<1>3. CASE o \notin Area
  <2>1. o \in Intf
    BY <1>3 DEF Owner
  <2>2. intf'[o].state = "DR" /\ intf'[o].full # {}
    BY <1>3 DEF Originates
  <2>3. intf'[o].state = intf[o].state /\ intf'[o].full = intf[o].full
    BY <1>1, <2>1, <2>2 DEF Rescheduled
  <2>4. Originates(intf, o)
    BY <2>2, <2>3 DEF Originates
  <2>5. Attached(intf'[o]) = Attached(intf[o])
    BY <2>3 DEF Attached
  <2>6. Body(intf', o) = [j \in {o} |-> Attached(intf'[j])] /\ Body(intf, o) = [j \in {o} |-> Attached(intf[j])]
    BY <1>3 DEF Body
  <2>7. Body(intf', o) = Body(intf, o)
    BY <2>5, <2>6
  <2> QED
    BY <2>4, <2>7
<1> QED
  BY <1>2, <1>3

LEMMA ChangeInv == ASSUME IInv, NEW i \in Intf, Change(i) PROVE IInv'
<1>1. PICK f \in Moves(i, intf[i]) \cup {intf[i]}, moved \in BOOLEAN :
        /\ phase = "up" /\ i \notin Passive /\ intf[i] # Absent
        /\ f # intf[i] \/ moved
        /\ intf' = [intf EXCEPT ![i] = f]
        /\ due' = [o \in Owner |->
                     IF o \in Rescheduled(i, f, moved) /\ due[o] = Off THEN Debounce ELSE due[o]]
        /\ timer' = IF f.state = "Waiting" THEN timer ELSE [timer EXCEPT ![<<i, "wait">>] = Stopped]
        /\ excused' = IF f.state = intf[i].state /\ f.full = intf[i].full /\ Link(f) # Link(intf[i])
                        THEN excused \cup {AreaOf[i]} ELSE excused
        /\ UNCHANGED <<phase, lsa, since, spfIn, sinceSpf, dirtyFor>>
  BY DEF Change
<1>2. TypeOK'
  <2>1. IntfOK'
    BY <1>1 DEF IInv, TypeOK, IntfOK, Moves
  <2>2. timer' \in [Intf \X Kind -> TimerType]
    BY <1>1, SoundNew DEF IInv, TypeOK, Sound, TimerType
  <2>3. due' \in [Owner -> {Off} \cup 0..Debounce]
    BY <1>1, InstanceAssumption DEF InstanceAssumption, IInv, TypeOK
  <2>4. excused' \subseteq Owner
    BY <1>1, InstanceAssumption DEF InstanceAssumption, IInv, TypeOK, Owner
  <2> QED
    BY <1>1, <2>1, <2>2, <2>3, <2>4 DEF IInv, TypeOK, IntfOK, TimerType
<1>3. PeriodicIdle'
  <2> SUFFICES ASSUME NEW j \in Intf, NEW k \in {"hello", "rxmt"}
               PROVE  timer'[<<j, k>>] = timer[<<j, k>>]
    BY DEF IInv, PeriodicIdle
  <2> QED
    BY <1>1 DEF IInv, TypeOK, Kind
<1>4. LsasDescribe'
  <2> SUFFICES ASSUME NEW o \in Owner, o \notin excused', due'[o] = Off, Originates(intf', o)
               PROVE  lsa[o] # NoLsa /\ lsa[o].body = Body(intf', o)
    BY <1>1 DEF LsasDescribe, Describes, Held, Originates, Body
  <2>1. due[o] = Off /\ o \notin Rescheduled(i, f, moved)
    BY <1>1, InstanceAssumption DEF InstanceAssumption, Off
  <2>2. o \notin excused
    BY <1>1
  <2>3. f.state = intf[i].state /\ f.full = intf[i].full => Link(f) = Link(intf[i]) \/ o # AreaOf[i]
    BY <1>1
  <2>4. Originates(intf, o) /\ Body(intf', o) = Body(intf, o)
    BY <1>1, <2>1, <2>3, ChangeCovers
  <2> QED
    BY <1>1, <2>1, <2>2, <2>4 DEF IInv, LsasDescribe, Describes, Held
<1>5. SpfInTime' /\ QuietAfterShutdown'
  BY <1>1 DEF IInv, SpfInTime, QuietAfterShutdown
<1> QED
  BY <1>2, <1>3, <1>4, <1>5 DEF IInv

-----------------------------------------------------------------------------
(* Start and shutdown. *)

LEMMA StartInv == ASSUME IInv, Start PROVE IInv'
<1>1. PICK failed \in SUBSET MayFail, u \in Uptimes :
        LET I == [i \in Intf |-> IF i \in failed THEN Absent ELSE Fresh(i)]
        IN /\ phase' = "up"
           /\ intf' = I
           /\ due' = [o \in Owner |-> IF \E i \in Intf \ failed : o = AreaOf[i] THEN Debounce ELSE Off]
           /\ lsa' = [o \in Owner |-> IF o = First /\ u >= MinLSInterval
                                         THEN [seq |-> InitialSeq, body |-> Body(I, o)] ELSE NoLsa]
           /\ since' = [k \in {0} \cup Intf |->
                          IF k = 0 /\ u >= MinLSInterval THEN 0 ELSE Least(u, MinLSInterval)]
           /\ spfIn' = Off /\ sinceSpf' = Least(u, SpfHold)
           /\ timer' = [t \in Intf \X Kind |->
                          CASE t[2] = "hello" /\ I[t[1]].state \notin {"Absent", "Loopback"} -> StartTimer(Stopped)
                            [] t[2] = "wait" /\ I[t[1]].state = "Waiting" -> Once
                            [] OTHER -> Stopped]
           /\ excused' = {a \in Area : a # First \/ u < MinLSInterval}
           /\ dirtyFor' = Off
  BY DEF Start
<1>2. \A n \in Nat : Least(u, n) \in 0..n
  BY InstanceAssumption, LeastType DEF InstanceAssumption
<1>3. ClockOK'
  BY <1>1, <1>2, InstanceAssumption DEF InstanceAssumption, ClockOK
<1>4. IntfOK'
  BY <1>1 DEF IntfOK
<1>5. /\ timer' \in [Intf \X Kind -> TimerType]
      /\ \A i \in Intf : \A k \in {"hello", "rxmt"} : Sound(timer'[<<i, k>>])
  <2>1. /\ Sound(Stopped) /\ Sound(StartTimer(Stopped)) /\ Once \in TimerType
        /\ Stopped \in TimerType /\ StartTimer(Stopped) \in TimerType
    BY SoundNew DEF Sound
  <2>2. \A t \in Intf \X Kind : timer'[t] \in {StartTimer(Stopped), Once, Stopped}
    BY <1>1
  <2>3. \A i \in Intf : \A k \in {"hello", "rxmt"} : timer'[<<i, k>>] \in {StartTimer(Stopped), Stopped}
    BY <1>1 DEF Kind
  <2>4. \A t \in Intf \X Kind : timer'[t] \in TimerType
    BY <2>1, <2>2
  <2>5. DOMAIN timer' = Intf \X Kind /\ timer' = [t \in Intf \X Kind |-> timer'[t]]
    BY <1>1
  <2>6. timer' \in [Intf \X Kind -> TimerType]
    BY <2>4, <2>5
  <2>7. \A i \in Intf : \A k \in {"hello", "rxmt"} : Sound(timer'[<<i, k>>])
    BY <2>1, <2>3
  <2> QED
    BY <2>6, <2>7
<1>6. TypeOK'
  <2>1. DOMAIN lsa' = Owner /\ excused' \subseteq Owner
    BY <1>1 DEF Owner
  <2> QED
    BY <1>1, <1>3, <1>4, <1>5, <2>1 DEF TypeOK, IntfOK, ClockOK, TimerType
<1>7. PeriodicIdle'
  BY <1>5 DEF PeriodicIdle, Sound
<1>8. LsasDescribe'
  <2> SUFFICES ASSUME NEW o \in Owner, o \notin excused', Originates(intf', o)
               PROVE  lsa'[o] # NoLsa /\ lsa'[o].body = Body(intf', o)
    BY DEF LsasDescribe, Describes, Held, Originates, Body
  <2>1. o \in Area
    <3>1. \A i \in Intf : intf'[i].state # "DR"
      BY <1>1 DEF Absent, Fresh
    <3> QED
      BY <3>1 DEF Originates, Owner
  <2>2. lsa'[o] = [seq |-> InitialSeq, body |-> Body(intf', o)]
    <3>1. u \in Nat /\ MinLSInterval \in Nat
      BY InstanceAssumption DEF InstanceAssumption
    <3>2. o = First /\ u >= MinLSInterval
      BY <1>1, <2>1, <3>1
    <3>3. lsa'[o] = IF o = First /\ u >= MinLSInterval
                      THEN [seq |-> InitialSeq, body |-> Body(intf', o)] ELSE NoLsa
      BY <1>1
    <3> QED
      BY <3>2, <3>3
  <2>3. DOMAIN lsa'[o] = {"seq", "body"} /\ DOMAIN NoLsa = {"seq"}
    BY <2>2 DEF NoLsa
  <2> QED
    BY <2>2, <2>3
<1>9. SpfInTime' /\ QuietAfterShutdown'
  BY <1>1 DEF SpfInTime, QuietAfterShutdown
<1> QED
  BY <1>6, <1>7, <1>8, <1>9 DEF IInv

(* Losing its Full neighbours leaves an interface in a possible state.     *)
LEMMA EmptyPossible ==
    ASSUME NEW i \in Intf, NEW g \in {Absent, Fresh(i)} \cup Possible(i)
    PROVE  [g EXCEPT !.full = {}] \in {Absent, Fresh(i)} \cup Possible(i)
<1> DEFINE h == [g EXCEPT !.full = {}]
<1>1. CASE g \in {Absent, Fresh(i)}
  <2>1. h = g
    BY <1>1 DEF Absent, Fresh
  <2> QED
    BY <2>1
<1>2. CASE g \in Possible(i) /\ i \in PointToPoint \ Passive
  BY <1>2 DEF Possible
<1>3. CASE g \in Possible(i) /\ i \notin PointToPoint \cup Passive
  <2>1. /\ g \in [state : {"DR", "Backup", "DROther"}, dr : Near[i] \cup {Me, Nobody}, full : SUBSET Near[i]]
        /\ g.state = "DR" <=> g.dr = Me
        /\ g.state = "Backup" => g.dr # Nobody
        /\ i \in Barred => g.state = "DROther"
    BY <1>3 DEF Possible
  <2>2. /\ h \in [state : {"DR", "Backup", "DROther"}, dr : Near[i] \cup {Me, Nobody}, full : SUBSET Near[i]]
        /\ h.state = g.state /\ h.dr = g.dr /\ h.full = {}
    BY <2>1
  <2>3. \E b \in Near[i] \cup {Nobody} : h.full \subseteq {h.dr, b}
    BY <2>2
  <2> HIDE DEF h
  <2>4. h \in Possible(i)
    BY <1>3, <2>1, <2>2, <2>3 DEF Possible
  <2> QED
    BY <2>4 DEF h
<1>4. CASE g \in Possible(i) /\ i \in Passive
  BY <1>4 DEF Possible
<1> QED
  BY <1>1, <1>2, <1>3, <1>4

LEMMA ShutdownInv == ASSUME IInv, Shutdown PROVE IInv'
<1> USE DEF Shutdown
<1>1. IntfOK'
  BY EmptyPossible DEF IInv, TypeOK, IntfOK
<1>2. /\ timer' \in [Intf \X Kind -> TimerType]
      /\ \A t \in Intf \X Kind : Sound(timer'[t]) /\ timer'[t].live = 0
  <2>1. \A t \in Intf \X Kind : Sound(StopTimer(timer[t])) /\ StopTimer(timer[t]).live = 0
    BY StopsAny DEF IInv, TypeOK, TimerType
  <2> QED
    BY <2>1 DEF Sound
<1>3. ClockOK'
  BY DEF IInv, TypeOK, ClockOK
<1>4. TypeOK'
  BY <1>1, <1>2, <1>3 DEF IInv, TypeOK, IntfOK, ClockOK, TimerType
<1>5. PeriodicIdle'
  BY <1>2 DEF PeriodicIdle, Kind
<1>6. SpfInTime' /\ LsasDescribe'
  BY DEF SpfInTime, LsasDescribe
<1>7. QuietAfterShutdown'
  BY <1>2 DEF QuietAfterShutdown
<1> QED
  BY <1>4, <1>5, <1>6, <1>7 DEF IInv

-----------------------------------------------------------------------------
(* The theorems. *)

LEMMA NextInv == IInv /\ [Next]_vars => IInv'
<1> SUFFICES ASSUME IInv, [Next]_vars PROVE IInv'
  OBVIOUS
<1>1. CASE UNCHANGED vars
  <2>1. LsasDescribe'
    BY <1>1, SameLsas DEF vars, IInv
  <2> QED
    BY <1>1, <2>1 DEF vars, IInv, TypeOK, PeriodicIdle, SpfInTime, QuietAfterShutdown
<1>2. CASE Next
  BY <1>2, StartInv, ShutdownInv, TickInv, InstallInv, RunSpfInv, AttemptInv, OwnReturnsInv,
     ChangeInv, RxmtInv, FireTimerInv DEF Next
<1> QED
  BY <1>1, <1>2

LEMMA Invariance == Spec => []IInv
  BY InitInv, NextInv, PTL DEF Spec

(* No timer of an interface or a neighbour ever has two handles, whatever  *)
(* its callback and the packets do with it: PeriodicTimer and OneShotTimer *)
(* of timer.py as interface.py and neighbor.py use them.                   *)
THEOREM TypeCorrect == Spec => []TypeOK
<1>1. IInv => TypeOK
  BY DEF IInv
<1> QED
  BY <1>1, Invariance, PTL

(* schedule_spf: for every spf_delay and spf_hold, two runs are spf_hold   *)
(* apart, and no LSA waits longer than the larger of the two.              *)
THEOREM SpfInTimeAlways == Spec => []SpfInTime
<1>1. IInv => SpfInTime
  BY DEF IInv
<1> QED
  BY <1>1, Invariance, PTL

(* schedule_router_lsa, schedule_network_lsa and _originate: an LSA that   *)
(* is not pending holds what the interfaces are, unless its last attempt   *)
(* was refused, the DR alone has changed, or a neighbour has replaced it.  *)
THEOREM LsasDescribeAlways == Spec => []LsasDescribe
<1>1. IInv => LsasDescribe
  BY DEF IInv
<1> QED
  BY <1>1, Invariance, PTL

(* shutdown: no callback of the instance is left behind it.                *)
THEOREM QuietAfterShutdownAlways == Spec => []QuietAfterShutdown
<1>1. IInv => QuietAfterShutdown
  BY DEF IInv
<1> QED
  BY <1>1, Invariance, PTL
=============================================================================
