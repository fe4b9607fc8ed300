-------------------------------- MODULE Lsdb --------------------------------
(***************************************************************************)
(* The link state database: what install keeps and what it refuses, and    *)
(* how an LSA ages while it is held.                                       *)
(*                                                                         *)
(* Each area has a partition, and the AS External LSAs have one; an LSA of *)
(* the same key may be in several areas.  The time of its last arrival is  *)
(* one for all of them.                                                    *)
(*                                                                         *)
(* An LSA is not aged in place.  It remembers its age when it was          *)
(* installed, current_age is computed from the clock, and only serialize,  *)
(* which every transmission calls, writes it to the header, the age that   *)
(* compare_lsa reads.                                                      *)
(***************************************************************************)
EXTENDS LsaOrder, FiniteSets

CONSTANTS
    Area,           \* areas
    Global,         \* the partition of the LSAs that belong to no area
    Key,            \* LSA keys
    External,       \* the keys of LSAs of the types 5 and 11
    Wire,           \* the headers that may arrive
    MinLSArrival,   \* seconds between two instances of an LSA
    MaxLsas,        \* MAX_LSDB_SIZE_PER_AREA, and MAX_LSDB_EXTERNAL_SIZE
    MaxTime         \* bound: length of a behaviour in seconds

ASSUME LsdbAssumption ==
    /\ External \subseteq Key /\ Global \notin Area
    /\ Wire \subseteq LsaHeader
    /\ MinLSArrival \in Nat /\ MaxLsas \in Nat /\ MaxTime \in Nat

(* A place in a partition. *)
Slot == (Area \X (Key \ External)) \cup ({Global} \X External)
PartOf(s) == s[1]
LsaOf(s) == s[2]

VARIABLES
    now,        \* time.monotonic()
    db,         \* db[s]: the LSA held in slot s, or None
    arrival,    \* arrival[k]: _last_arrival, Never before the first
    considered  \* history: the instances that install compared and
                \* MinLSArrival did not refuse, since the slot was empty

vars == <<now, db, arrival, considered>>

None == [held |-> FALSE]
Never == -MinLSArrival
Held(s) == db[s].held
Count(p) == Cardinality({s \in Slot : PartOf(s) = p /\ Held(s)})

CurrentAge(lsa) ==
    LET age == lsa.installedAge + now - lsa.installTime
    IN IF age < MaxAge THEN age ELSE MaxAge

Init ==
    /\ now = 0
    /\ db = [s \in Slot |-> None]
    /\ arrival = [k \in Key |-> Never]
    /\ considered = [s \in Slot |-> {}]

-----------------------------------------------------------------------------
(* install, in the order of its checks. *)

Full(s) == ~Held(s) /\ Count(PartOf(s)) >= MaxLsas
NotNewer(s, h) == Held(s) /\ ~Newer(h, db[s].header)
TooSoon(s) == Held(s) /\ now - arrival[LsaOf(s)] < MinLSArrival

Refused(s, h) == Full(s) \/ NotNewer(s, h) \/ TooSoon(s)

InstallUnmarked(s, h) ==   \* mutant: the clock is not read
    /\ ~Full(s)
    /\ db' = [db EXCEPT ![s] = [held |-> TRUE, header |-> h]]
    /\ arrival' = [arrival EXCEPT ![LsaOf(s)] = now]
    /\ considered' = [considered EXCEPT ![s] = @ \cup {h}]
    /\ UNCHANGED now

(* A refused LSA leaves no trace. *)
Refuse(s, h) ==
    /\ Refused(s, h)
    /\ considered' = IF Full(s) \/ (~NotNewer(s, h) /\ TooSoon(s)) THEN considered
                     ELSE [considered EXCEPT ![s] = @ \cup {h}]
    /\ UNCHANGED <<now, db, arrival>>

InstallNotMarked(s, h) ==   \* mutant: mark_installed is not called again
    /\ ~Refused(s, h)
    /\ db' = [db EXCEPT ![s] = [held |-> TRUE, header |-> h,
                                installedAge |-> IF Held(s) THEN @.installedAge ELSE h.age,
                                installTime |-> IF Held(s) THEN @.installTime ELSE now]]
    /\ arrival' = [arrival EXCEPT ![LsaOf(s)] = now]
    /\ considered' = [considered EXCEPT ![s] = @ \cup {h}]
    /\ UNCHANGED now
Install(s, h) ==
    /\ ~Refused(s, h)
    /\ db' = [db EXCEPT ![s] = [held |-> TRUE, header |-> h,
                                installedAge |-> h.age, installTime |-> now]]
    /\ arrival' = [arrival EXCEPT ![LsaOf(s)] = now]
    /\ considered' = [considered EXCEPT ![s] = @ \cup {h}]
    /\ UNCHANGED now

(* Lsa.serialize: the LSA is flooded or sent to a neighbour. *)
Serialize(s) ==
    /\ Held(s)
    /\ db' = [db EXCEPT ![s].header.age = CurrentAge(db[s])]
    /\ UNCHANGED <<now, arrival, considered>>

(* remove leaves _last_arrival in place. *)
Remove(s) ==
    /\ Held(s)
    /\ db' = [db EXCEPT ![s] = None]
    /\ considered' = [considered EXCEPT ![s] = {}]
    /\ UNCHANGED <<now, arrival>>

Tick ==
    /\ now < MaxTime
    /\ now' = now + 1
    /\ UNCHANGED <<db, arrival, considered>>

Next ==
    \/ Tick
    \/ \E s \in Slot : \/ Serialize(s) \/ Remove(s)
                      \/ \E h \in Wire : Install(s, h) \/ Refuse(s, h)

Spec == Init /\ [][Next]_vars

-----------------------------------------------------------------------------
(* Properties.                                                             *)

Entry == [held : {TRUE}, header : LsaHeader, installedAge : Nat, installTime : Nat]

TypeOK ==
    /\ now \in Nat
    /\ db \in [Slot -> Entry \cup {None}]
    /\ arrival \in [Key -> Int]
    /\ considered \in [Slot -> SUBSET LsaHeader]

(* Whatever the order in which copies arrive, the one held is as recent as *)
(* any that was compared with it: sequence numbers across the sign change  *)
(* and checksums order instances without a cycle, and the ages that        *)
(* serialize writes meanwhile do not disturb that order.                   *)
Ahead(a, b) ==
    \/ Signed(a.seq) > Signed(b.seq)
    \/ a.seq = b.seq /\ a.sum > b.sum
HeldIsNewest ==
    \A s \in Slot : \A h \in considered[s] : Held(s) /\ ~Ahead(h, db[s].header)

(* The header never claims more than the real age of the LSA, nor less     *)
(* than its age when it was installed.                                     *)
AgeIsBehind ==
    \A s \in Slot : Held(s) /\ db[s].installedAge <= MaxAge =>
       db[s].installedAge <= db[s].header.age /\ db[s].header.age <= CurrentAge(db[s])

(* "minimum seconds between accepting same LSA" (const.py): MinLSArrival    *)
(* keeps an area from a newer instance only if one has just arrived there.  *)
RefusedForOwnArrival ==
    \A s \in Slot : Held(s) /\ TooSoon(s) => now - db[s].installTime < MinLSArrival

(* The class promises "If ages differ by > MaxAgeDiff (15 min), younger    *)
(* wins": of two copies alike in sequence number and checksum, install     *)
(* does not take the much younger one for the instance that it holds.      *)
MuchYounger(h, lsa) ==
    /\ h.seq = lsa.header.seq /\ h.sum = lsa.header.sum
    /\ CurrentAge(lsa) < MaxAge /\ CurrentAge(lsa) - h.age > MaxAgeDiff
YoungerWins ==
    \A s \in Slot : \A h \in Wire :
       Held(s) /\ MuchYounger(h, db[s]) => Newer(h, db[s].header)
=============================================================================
