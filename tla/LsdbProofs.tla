----------------------------- MODULE LsdbProofs -----------------------------
(***************************************************************************)
(* The order of instances, and what the database keeps,   *)
(* for every range of sequence numbers and every set of arriving headers.  *)
(***************************************************************************)
EXTENDS Lsdb, TLAPS

(* compare_lsa and the order of sequence numbers and checksums: who is     *)
(* ahead is more recent whatever the ages, and nobody ahead of the more    *)
(* recent one exists between the two.                                      *)
LEMMA AheadIsNewer ==
    ASSUME NEW a \in LsaHeader, NEW b \in LsaHeader
    PROVE  /\ Ahead(a, b) => Newer(a, b)
           /\ Newer(a, b) => ~Ahead(b, a)
<1>1. /\ a.seq \in 0..2 * Half - 1 /\ b.seq \in 0..2 * Half - 1
      /\ a.sum \in Int /\ b.sum \in Int /\ a.age \in Nat /\ b.age \in Nat
  BY OrderAssumption DEF LsaHeader
<1>2. a.seq # b.seq => Signed(a.seq) # Signed(b.seq)
  BY <1>1, OrderAssumption DEF Signed
<1>3. Signed(a.seq) \in Int /\ Signed(b.seq) \in Int
  BY <1>1, OrderAssumption DEF Signed
<1>4. Ahead(a, b) => Newer(a, b)
  BY <1>1, <1>2, <1>3 DEF Ahead, Newer, Compare
<1>5. Newer(a, b) => ~Ahead(b, a)
  <2>1. CASE a.seq # b.seq
    BY <1>1, <1>2, <1>3, <2>1 DEF Ahead, Newer, Compare
  <2>2. CASE a.seq = b.seq /\ a.sum # b.sum
    BY <1>1, <1>3, <2>2 DEF Ahead, Newer, Compare
  <2>3. CASE a.seq = b.seq /\ a.sum = b.sum
    BY <1>1, <1>3, <2>3 DEF Ahead
  <2> QED
    BY <2>1, <2>2, <2>3
<1> QED
  BY <1>4, <1>5

(* Not being ahead is transitive: the signed order has no cycle, however   *)
(* the unsigned words wrap.                                                *)
LEMMA NotAheadTransitive ==
    ASSUME NEW a \in LsaHeader, NEW b \in LsaHeader, NEW c \in LsaHeader,
           ~Ahead(a, b), ~Ahead(b, c)
    PROVE  ~Ahead(a, c)
<1>1. /\ a.seq \in 0..2 * Half - 1 /\ b.seq \in 0..2 * Half - 1 /\ c.seq \in 0..2 * Half - 1
      /\ a.sum \in Int /\ b.sum \in Int /\ c.sum \in Int
  BY OrderAssumption DEF LsaHeader
<1> QED
  BY <1>1, OrderAssumption DEF Ahead, Signed

(* An age that serialize writes does not move an instance in the order.    *)
LEMMA AgeDoesNotMatter ==
    ASSUME NEW a, NEW b, NEW c, c.seq = b.seq, c.sum = b.sum
    PROVE  Ahead(a, c) <=> Ahead(a, b)
BY DEF Ahead

-----------------------------------------------------------------------------
(* The types.                                                              *)

LEMMA AgeIsNat ==
    ASSUME TypeOK, NEW s \in Slot, Held(s), \A j \in Slot : Held(j) => db[j].installTime <= now
    PROVE  CurrentAge(db[s]) \in Nat /\ CurrentAge(db[s]) <= MaxAge
<1>1. db[s] \in Entry
  BY DEF TypeOK, Held, None
<1>2. db[s].installedAge \in Nat /\ db[s].installTime \in Nat /\ now \in Nat
  BY <1>1 DEF TypeOK, Entry
<1> QED
  BY <1>2, OrderAssumption DEF CurrentAge

(* No LSA was installed in the future.                                     *)
Past == \A s \in Slot : Held(s) => db[s].installTime <= now

IInv == TypeOK /\ Past /\ HeldIsNewest /\ AgeIsBehind

LEMMA InitIInv == Init => IInv
<1> SUFFICES ASSUME Init PROVE IInv
  OBVIOUS
<1>1. \A s \in Slot : ~Held(s) /\ considered[s] = {}
  BY DEF Init, Held, None
<1>2. Never \in Int
  BY LsdbAssumption DEF Never
<1> QED
  BY <1>1, <1>2 DEF Init, IInv, TypeOK, Past, HeldIsNewest, AgeIsBehind

(* A key that a step does not touch keeps its part of the invariant.       *)
LEMMA OthersKept ==
    ASSUME IInv, NEW s \in Slot, now' = now,
           db'[s] = db[s], considered'[s] = considered[s]
    PROVE  /\ Held(s)' => db'[s].installTime <= now'
           /\ \A h \in considered'[s] : Held(s)' /\ ~Ahead(h, db'[s].header)
           /\ Held(s)' /\ db'[s].installedAge <= MaxAge =>
                /\ db'[s].installedAge <= db'[s].header.age
                /\ db'[s].header.age <= CurrentAge(db[s])'
BY DEF IInv, Past, HeldIsNewest, AgeIsBehind, Held, CurrentAge

LEMMA StepIInv == IInv /\ [Next]_vars => IInv'
<1> SUFFICES ASSUME IInv, [Next]_vars PROVE IInv'
  OBVIOUS
<1> USE DEF IInv
<1>t. /\ now \in Nat /\ db \in [Slot -> Entry \cup {None}] /\ arrival \in [Key -> Int]
      /\ considered \in [Slot -> SUBSET LsaHeader]
  BY DEF TypeOK
<1>e. \A s \in Slot : Held(s) => db[s] \in Entry
  BY <1>t DEF Held, None
<1>f. \A s \in Slot : Held(s) => /\ db[s].header \in LsaHeader /\ db[s].header.age \in Nat
                                /\ db[s].installedAge \in Nat /\ db[s].installTime \in Nat
  BY <1>e DEF Entry, LsaHeader
<1>1. ASSUME NEW s \in Slot, NEW h \in Wire, Install(s, h) PROVE IInv'
  <2> DEFINE new == [held |-> TRUE, header |-> h, installedAge |-> h.age, installTime |-> now]
  <2>1. h \in LsaHeader /\ h.age \in Nat
    BY LsdbAssumption DEF LsaHeader
  <2>2. new \in Entry
    BY <1>t, <2>1 DEF Entry
  <2>3. /\ db' = [db EXCEPT ![s] = new] /\ now' = now
        /\ considered' = [considered EXCEPT ![s] = @ \cup {h}]
        /\ arrival' = [arrival EXCEPT ![LsaOf(s)] = now]
    BY <1>1 DEF Install
  <2>4. TypeOK'
    <3>1. db' \in [Slot -> Entry \cup {None}]
      BY <1>t, <2>2, <2>3
    <3>2. arrival' \in [Key -> Int]
      <4>1. LsaOf(s) \in Key
        BY LsdbAssumption DEF Slot, LsaOf
      <4> QED
        BY <1>t, <2>3, <4>1
    <3>3. considered' \in [Slot -> SUBSET LsaHeader]
      BY <1>t, <2>1, <2>3
    <3> QED
      BY <1>t, <2>3, <3>1, <3>2, <3>3 DEF TypeOK
  <2>5. db'[s] = new /\ Held(s)' /\ considered'[s] = considered[s] \cup {h}
    BY <1>t, <2>3 DEF Held
  <2>6. \A g \in considered'[s] : Held(s)' /\ ~Ahead(g, db'[s].header)
    <3> SUFFICES ASSUME NEW g \in considered'[s] PROVE ~Ahead(g, h)
      BY <2>5
    <3>1. CASE g = h
      BY <2>1, <3>1, OrderAssumption DEF Ahead, Signed, LsaHeader
    <3>2. CASE g \in considered[s]
      <4>1. g \in LsaHeader /\ Held(s) /\ ~Ahead(g, db[s].header)
        BY <1>t, <3>2 DEF HeldIsNewest
      <4>2. Newer(h, db[s].header)
        BY <1>1, <4>1 DEF Install, Refused, NotNewer
      <4>3. db[s].header \in LsaHeader
        BY <1>f, <4>1
      <4>4. ~Ahead(db[s].header, h)
        BY <2>1, <4>2, <4>3, AheadIsNewer
      <4> QED
        BY <2>1, <4>1, <4>3, <4>4, NotAheadTransitive
    <3> QED
      BY <2>5, <3>1, <3>2
  <2>7. /\ db'[s].installTime <= now'
        /\ db'[s].installedAge <= MaxAge =>
             /\ db'[s].installedAge <= db'[s].header.age
             /\ db'[s].header.age <= CurrentAge(db[s])'
    BY <1>t, <2>1, <2>3, <2>5, OrderAssumption DEF CurrentAge
  <2>8. \A j \in Slot \ {s} : db'[j] = db[j] /\ considered'[j] = considered[j]
    BY <1>t, <2>3
  <2> QED
    BY <2>3, <2>4, <2>5, <2>6, <2>7, <2>8, OthersKept DEF Past, HeldIsNewest, AgeIsBehind
<1>2. ASSUME NEW s \in Slot, NEW h \in Wire, Refuse(s, h) PROVE IInv'
  <2>1. h \in LsaHeader
    BY LsdbAssumption
  <2>2. UNCHANGED <<now, db, arrival>>
    BY <1>2 DEF Refuse
  <2>3. CASE considered' = considered
    BY <2>2, <2>3, OthersKept DEF TypeOK, Past, HeldIsNewest, AgeIsBehind, Held, CurrentAge
  <2>4. CASE /\ considered' = [considered EXCEPT ![s] = @ \cup {h}]
             /\ ~(Full(s) \/ (~NotNewer(s, h) /\ TooSoon(s)))
    <3>1. Held(s) /\ ~Newer(h, db[s].header)
      BY <1>2, <2>4 DEF Refuse, Refused, NotNewer
    <3>2. ~Ahead(h, db[s].header)
      BY <1>f, <2>1, <3>1, AheadIsNewer
    <3>3. TypeOK'
      BY <1>t, <2>1, <2>2, <2>4 DEF TypeOK
    <3>4. Past' /\ AgeIsBehind'
      BY <2>2 DEF Past, AgeIsBehind, Held, CurrentAge
    <3>5. HeldIsNewest'
      BY <1>t, <2>2, <2>4, <3>1, <3>2 DEF HeldIsNewest, Held
    <3> QED
      BY <3>3, <3>4, <3>5
  <2> QED
    BY <1>2, <2>3, <2>4 DEF Refuse
<1>3. ASSUME NEW s \in Slot, Serialize(s) PROVE IInv'
  <2> DEFINE hdr == [db[s].header EXCEPT !.age = CurrentAge(db[s])]
  <2>1. Held(s) /\ UNCHANGED <<now, arrival, considered>>
    BY <1>3 DEF Serialize
  <2>2. db' = [db EXCEPT ![s] = [db[s] EXCEPT !.header = hdr]]
    BY <1>3, <1>t DEF Serialize
  <2>3. CurrentAge(db[s]) \in Nat /\ CurrentAge(db[s]) <= MaxAge
    BY <2>1, AgeIsNat DEF Past
  <2>4. hdr \in LsaHeader /\ hdr.seq = db[s].header.seq /\ hdr.sum = db[s].header.sum
        /\ hdr.age = CurrentAge(db[s])
    BY <1>f, <2>1, <2>3 DEF LsaHeader
  <2>5. db[s] \in Entry
    BY <1>e, <2>1
  <2>6. [db[s] EXCEPT !.header = hdr] \in Entry
    BY <2>4, <2>5 DEF Entry
  <2>7. /\ db'[s].header = hdr /\ db'[s].installedAge = db[s].installedAge
        /\ db'[s].installTime = db[s].installTime /\ Held(s)'
    BY <1>t, <2>1, <2>2, <2>5 DEF Entry, Held
  <2>8. TypeOK'
    BY <1>t, <2>1, <2>2, <2>6 DEF TypeOK
  <2>9. \A g \in considered'[s] : Held(s)' /\ ~Ahead(g, db'[s].header)
    BY <2>1, <2>4, <2>7, AgeDoesNotMatter DEF HeldIsNewest
  <2>10. CurrentAge(db[s])' = CurrentAge(db[s])
    BY <2>1, <2>7 DEF CurrentAge
  <2>11. /\ db'[s].installTime <= now'
         /\ db'[s].installedAge <= MaxAge =>
              /\ db'[s].installedAge <= db'[s].header.age
              /\ db'[s].header.age <= CurrentAge(db[s])'
    <3>1. db[s].installTime <= now
      BY <2>1 DEF Past
    <3>2. db[s].installedAge <= MaxAge => db[s].installedAge <= CurrentAge(db[s])
      BY <1>f, <1>t, <2>1, <3>1, OrderAssumption DEF CurrentAge
    <3> QED
      BY <2>1, <2>3, <2>4, <2>7, <2>10, <3>1, <3>2
  <2>12. \A j \in Slot \ {s} : db'[j] = db[j] /\ considered'[j] = considered[j]
    BY <1>t, <2>1, <2>2
  <2> QED
    BY <2>1, <2>8, <2>9, <2>11, <2>12, OthersKept DEF Past, HeldIsNewest, AgeIsBehind
<1>4. ASSUME NEW s \in Slot, Remove(s) PROVE IInv'
  <2>1. /\ db' = [db EXCEPT ![s] = None] /\ considered' = [considered EXCEPT ![s] = {}]
        /\ UNCHANGED <<now, arrival>>
    BY <1>4 DEF Remove
  <2>2. TypeOK'
    BY <1>t, <2>1 DEF TypeOK
  <2>3. ~Held(s)' /\ considered'[s] = {}
    BY <1>t, <2>1 DEF Held, None
  <2>4. \A j \in Slot \ {s} : db'[j] = db[j] /\ considered'[j] = considered[j]
    BY <1>t, <2>1
  <2> QED
    BY <2>1, <2>2, <2>3, <2>4, OthersKept DEF Past, HeldIsNewest, AgeIsBehind
<1>5. ASSUME Tick PROVE IInv'
  <2>1. now' = now + 1 /\ UNCHANGED <<db, arrival, considered>>
    BY <1>5 DEF Tick
  <2>2. TypeOK' /\ Past' /\ HeldIsNewest'
    BY <1>f, <1>t, <2>1 DEF TypeOK, Past, HeldIsNewest, Held
  <2>3. ASSUME NEW s \in Slot, Held(s) PROVE CurrentAge(db[s]) <= CurrentAge(db[s])'
    BY <1>f, <1>t, <2>1, <2>3, OrderAssumption DEF CurrentAge
  <2>4. ASSUME NEW s \in Slot, Held(s)
        PROVE CurrentAge(db[s]) \in Int /\ CurrentAge(db[s])' \in Int
    BY <1>f, <1>t, <2>1, <2>4, OrderAssumption DEF CurrentAge
  <2>5. AgeIsBehind'
    BY <1>f, <2>1, <2>3, <2>4 DEF AgeIsBehind, Held
  <2> QED
    BY <2>2, <2>5
<1>6. CASE UNCHANGED vars
  BY <1>6 DEF vars, TypeOK, Past, HeldIsNewest, AgeIsBehind, Held, CurrentAge
<1> QED
  BY <1>1, <1>2, <1>3, <1>4, <1>5, <1>6 DEF Next

-----------------------------------------------------------------------------
(* The parts of the invariant together, through install, remove and time.  *)
THEOREM Invariance == Spec => []IInv
BY InitIInv, StepIInv, PTL DEF Spec

(* install keeps the most recent instance, whatever the order in which     *)
(* copies arrive and however sequence numbers wrap to the negative.        *)
THEOREM HeldIsNewestAlways == Spec => []HeldIsNewest
BY Invariance, PTL DEF IInv

(* The age in the header, which serialize writes and compare_lsa reads,    *)
(* lies between the age at installation and the age now.                   *)
THEOREM AgeIsBehindAlways == Spec => []AgeIsBehind
BY Invariance, PTL DEF IInv

(* The types of the database and of its history.                           *)
THEOREM TypeCorrect == Spec => []TypeOK
BY Invariance, PTL DEF IInv
=============================================================================
