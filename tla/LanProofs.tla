----------------------------- MODULE LanProofs -----------------------------
(***************************************************************************)
(* Invariance proofs for Lan, for any number of routers, any priorities    *)
(* and any kinds and number of faults.                                     *)
(*                                                                         *)
(* The proofs follow the nesting of the handlers: the election picks from  *)
(* its candidates (Best, Pass, Elect), running it keeps an interface Sound *)
(* (RunElection, NeighborChange), and so does every callback around it.    *)
(***************************************************************************)
EXTENDS Lan, FiniteSetTheorems, WellFoundedInduction, TLAPS

(* What the invariants say of one interface.                               *)
Distinct(i) == i.dr # Nobody => i.dr # i.bdr
Fits(r, i) ==
    \A m \in Others(r) :
       i.nbr[m].state >= TwoWay => (i.nbr[m].state = Adjacent <=> ShouldForm(r, i, m))

(* A router that takes itself for the DR was elected.                      *)
Elected(r, i) == i.state = DR => i.dr = r /\ Priority[r] > 0

Sound(r, i) == i \in Interface /\ Distinct(i) /\ Fits(r, i) /\ Elected(r, i)

IInv == TypeOK /\ \A r \in Router : Sound(r, intf[r])

-----------------------------------------------------------------------------
(* Constants.                                                              *)

LEMMA StateValues ==
    /\ IfDown = 0 /\ Waiting = 2 /\ DROther = 4 /\ Backup = 5 /\ DR = 6
    /\ Down = 0 /\ Init1Way = 2 /\ TwoWay = 3 /\ Adjacent = 4 /\ Nobody = 0
  BY DEF IfDown, Waiting, DROther, Backup, DR, Down, Init1Way, TwoWay, Adjacent, Nobody

LEMMA RouterType == \A r \in Router : r \in Nat /\ r # Nobody /\ Priority[r] \in Nat
  BY LanAssumption DEF Nobody

-----------------------------------------------------------------------------
(* The best of a set.                                                      *)

LEMMA BetterTotal ==
    ASSUME NEW c \in Router, NEW d \in Router, c # d
    PROVE  Better(c, d) \/ Better(d, c)
  BY RouterType DEF Better

LEMMA BetterTransitive ==
    ASSUME NEW b \in Router, NEW c \in Router, NEW d \in Router, Better(b, c), Better(c, d)
    PROVE  Better(b, d) /\ b # d
  BY RouterType DEF Better

(* By induction over finite sets: a smallest set without a best member     *)
(* gets one from the set without one of its members.                       *)
LEMMA BestExists ==
    ASSUME NEW S \in SUBSET Router, S # {}
    PROVE  \E c \in S : \A d \in S \ {c} : Better(c, d)
<1> DEFINE HasBest(A) == \E c \in A : \A d \in A \ {c} : Better(c, d)
           T == {A \in SUBSET Router : A # {} /\ ~HasBest(A)}
           Less == StrictSubsetOrdering(Router)
<1>1. IsWellFoundedOn(Less, SUBSET Router)
  BY LanAssumption, FS_StrictSubsetOrderingWellFounded, FS_FiniteSubsetsOfFinite
<1>2. SUFFICES ASSUME T # {} PROVE FALSE
  OBVIOUS
<1> HIDE DEF Less
<1>3. PICK A \in T : \A B \in T : ~(<<B, A>> \in Less)
  <2>1. T \subseteq SUBSET Router
    OBVIOUS
  <2> HIDE DEF T
  <2>q. QED
    BY <1>1, <1>2, <2>1, WFMin
<1>4. PICK x \in A : TRUE
  OBVIOUS
<1> DEFINE B == A \ {x}
<1>5. B \in SUBSET Router /\ B \notin T
  <2>1. <<B, A>> \in Less
    BY <1>4 DEF Less, StrictSubsetOrdering
  <2>q. QED
    BY <1>3, <2>1
<1>6. CASE B = {}
  <2>1. \A d \in A \ {x} : Better(x, d)
    BY <1>6
  <2>q. QED
    BY <1>3, <1>4, <2>1
<1>7. CASE B # {}
  <2>1. PICK b \in B : \A d \in B \ {b} : Better(b, d)
    BY <1>5, <1>7
  <2>2. x \in Router /\ b \in Router /\ b # x
    BY <1>4, <1>5
  <2>3. CASE Better(b, x)
    <3>1. \A d \in A \ {b} : Better(b, d)
      BY <2>1, <2>3
    <3>q. QED
      BY <1>3, <2>1, <3>1
  <2>4. CASE Better(x, b)
    <3>1. ASSUME NEW d \in A \ {x} PROVE Better(x, d)
      BY <2>1, <2>2, <2>4, BetterTransitive
    <3>q. QED
      BY <1>3, <1>4, <3>1
  <2>q. QED
    BY <2>2, <2>3, <2>4, BetterTotal
<1>q. QED
  BY <1>6, <1>7

LEMMA BestIn ==
    ASSUME NEW S \in SUBSET Router
    PROVE  /\ S = {} => Best(S) = Nobody
           /\ S # {} => /\ Best(S) \in S
                        /\ \A d \in S \ {Best(S)} : Better(Best(S), d)
           /\ Best(S) \in S \cup {Nobody}
  BY BestExists DEF Best

-----------------------------------------------------------------------------
(* The election.                                                           *)

Claiming(cands, claim) == {c \in cands : claim[c].dr = c}

(* One pass elects two routers, the DR among those who claim to be it when *)
(* there is one.                                                           *)
LEMMA PassElects ==
    ASSUME NEW cands \in SUBSET Router, NEW claim
    PROVE  LET p == Pass(cands, claim)
               G == Claiming(cands, claim)
           IN /\ p = [dr |-> p.dr, bdr |-> p.bdr]
              /\ p.dr \in cands \cup {Nobody} /\ p.bdr \in cands \cup {Nobody}
              /\ Distinct(p)
              /\ G # {} => /\ p.dr = Best(G)
                           /\ p.bdr \notin G
<1> DEFINE free    == {c \in cands : claim[c].dr # c}
           backups == {c \in free : claim[c].bdr = c}
           first   == IF backups # {} THEN backups ELSE free
           bdr     == Best(first)
           next    == IF backups \ {bdr} # {} THEN backups \ {bdr} ELSE free \ {bdr}
           G == Claiming(cands, claim)
           p == Pass(cands, claim)
<1>1. G = cands \ free /\ free \subseteq cands /\ G \cap free = {}
  BY DEF Claiming
<1>2. bdr \in free \cup {Nobody}
  BY BestIn
<1>3. Nobody \notin Router
  BY RouterType
<1>4. p = IF cands # free THEN [dr |-> Best(G), bdr |-> bdr]
          ELSE [dr |-> bdr, bdr |-> Best(next)]
  BY <1>1 DEF Pass
<1> HIDE DEF p
<1>5. CASE G # {}
  <2>1. p = [dr |-> Best(G), bdr |-> bdr]
    BY <1>1, <1>4, <1>5
  <2>2. Best(G) \in G
    BY <1>1, <1>5, BestIn
  <2> HIDE DEF G, bdr, free
  <2>3. p.dr \in G /\ p.bdr \in free \cup {Nobody} /\ p.dr = Best(G)
    BY <1>2, <2>1, <2>2
  <2>q. QED
    BY <1>1, <1>3, <2>1, <2>3 DEF p, G, Distinct
<1>6. CASE G = {}
  <2>1. p = [dr |-> bdr, bdr |-> Best(next)]
    BY <1>1, <1>4, <1>6
  <2>2. next \in SUBSET Router /\ next \subseteq free \ {bdr}
    BY <1>1
  <2> HIDE DEF next, bdr, free
  <2>3. Best(next) \in (free \ {bdr}) \cup {Nobody}
    BY <2>2, BestIn
  <2>4. p.dr = bdr /\ p.bdr = Best(next)
    BY <2>1
  <2> HIDE DEF G
  <2>q. QED
    BY <1>1, <1>2, <1>6, <2>1, <2>3, <2>4 DEF p, G, Distinct
<1>q. QED
  BY <1>5, <1>6

(* Both passes. *)
LEMMA ElectElects ==
    ASSUME NEW r \in Router, NEW i
    PROVE  LET w == Elect(r, i)
               C == Candidates(r, i)
           IN /\ w = [dr |-> w.dr, bdr |-> w.bdr]
              /\ w.dr \in C \cup {Nobody} /\ w.bdr \in C \cup {Nobody}
              /\ Distinct(w)
<1> DEFINE C == Candidates(r, i)
           claim1 == Claims(r, i)
           first == Pass(C, claim1)
           claim2 == IF r \in C THEN [claim1 EXCEPT ![r] = first] ELSE claim1
           second == Pass(C, claim2)
           none == [dr |-> Nobody, bdr |-> Nobody]
<1>1. C \in SUBSET Router
  BY DEF Candidates
<1>2. Elect(r, i) \in {none, first, second}
  BY DEF Elect
<1>3. none.dr = Nobody /\ none.bdr = Nobody /\ none = [dr |-> none.dr, bdr |-> none.bdr]
  OBVIOUS
<1> HIDE DEF C, claim1, claim2, none
<1>4. \A q \in {first, second} : /\ q = [dr |-> q.dr, bdr |-> q.bdr]
                                 /\ q.dr \in C \cup {Nobody} /\ q.bdr \in C \cup {Nobody}
                                 /\ Distinct(q)
  BY <1>1, PassElects
<1> HIDE DEF first, second
<1>q. QED
  BY <1>2, <1>3, <1>4 DEF C, Distinct

LEMMA CandidatesOf ==
    ASSUME NEW r \in Router, NEW i, NEW c \in Candidates(r, i)
    PROVE  /\ c \in Router /\ Priority[c] > 0
           /\ c # r => i.nbr[c].state >= TwoWay
  BY DEF Candidates

(* r has given way to a router that claims to be DR and is better.         *)
Yielded(r, i) ==
    LET m == i.dr
    IN m \in Others(r) /\ Better(m, r) /\ i.nbr[m].state >= TwoWay /\ i.nbr[m].dr = m

(* A DR is elected again, or a better router that claims to be DR.         *)
LEMMA ElectYields ==
    ASSUME NEW r \in Router, NEW i \in Interface, Distinct(i), Priority[r] > 0,
           i.dr = r \/ Yielded(r, i)
    PROVE  LET m == Elect(r, i).dr
           IN m = r \/ (/\ m \in Others(r) /\ Better(m, r)
                        /\ i.nbr[m].state >= TwoWay /\ i.nbr[m].dr = m)
<1> DEFINE C == Candidates(r, i)
           claim1 == Claims(r, i)
           first == Pass(C, claim1)
           claim2 == [claim1 EXCEPT ![r] = first]
           second == Pass(C, claim2)
           G1 == Claiming(C, claim1)
           G2 == Claiming(C, claim2)
           stays == (i.dr = r) = (first.dr = r) /\ (i.bdr = r) = (first.bdr = r)
<1>1. C \in SUBSET Router /\ r \in C
  BY DEF Candidates
<1>2. Elect(r, i) = IF stays THEN first ELSE second
  BY <1>1 DEF Elect
<1>3. /\ claim1[r].dr = i.dr /\ \A m \in Others(r) : claim1[m].dr = i.nbr[m].dr
      /\ claim2[r].dr = first.dr /\ \A m \in Others(r) : claim2[m].dr = i.nbr[m].dr
  BY DEF Claims, Others
<1> HIDE DEF claim1, claim2
<1>4. G1 \in SUBSET Router /\ G2 \in SUBSET Router
  BY <1>1 DEF Claiming
<1>5. G1 \ {r} = G2 \ {r}
  BY <1>1, <1>3 DEF Claiming, Others
<1>6. \A m \in G1 \ {r} : m \in Others(r) /\ i.nbr[m].state >= TwoWay /\ i.nbr[m].dr = m
  BY <1>1, <1>3, CandidatesOf DEF Claiming, Others
<1>7. G1 # {}
  <2>1. CASE i.dr = r
    BY <1>1, <1>3, <2>1 DEF Claiming
  <2>2. CASE Yielded(r, i)
    <3> DEFINE m == i.dr
    <3>1. m \in Router /\ m # r /\ Better(m, r) /\ i.nbr[m].state >= TwoWay /\ i.nbr[m].dr = m
      BY <2>2 DEF Yielded, Others
    <3>2. Priority[m] > 0
      BY <3>1, RouterType DEF Better
    <3>3. m \in C
      BY <3>1, <3>2 DEF Candidates
    <3>q. QED
      BY <1>3, <3>1, <3>3 DEF Claiming, Others
  <2>q. QED
    BY <2>1, <2>2
<1> HIDE DEF C
<1>8. first.dr = Best(G1) /\ first.bdr \notin G1
  BY <1>1, <1>7, PassElects
<1>9. Best(G1) \in G1 /\ \A d \in G1 \ {Best(G1)} : Better(Best(G1), d)
  BY <1>4, <1>7, BestIn
(* The one that the first pass elects is better than r, or it is r.        *)
<1>10. first.dr = r \/ (first.dr \in G1 \ {r} /\ Better(first.dr, r))
  <2>1. CASE i.dr = r
    <3>1. r \in G1
      BY <1>1, <1>3, <2>1 DEF Claiming
    <3>q. QED
      BY <1>8, <1>9, <3>1
  <2>2. CASE Yielded(r, i)
    <3> DEFINE m == i.dr
    <3>1. m \in Router /\ m # r /\ Better(m, r) /\ i.nbr[m].state >= TwoWay /\ i.nbr[m].dr = m
      BY <2>2 DEF Yielded, Others
    <3>2. Priority[m] > 0
      BY <3>1, RouterType DEF Better
    <3>3. m \in C
      BY <3>1, <3>2 DEF Candidates, C
    <3>4. m \in G1
      BY <1>3, <3>1, <3>3 DEF Claiming, Others
    <3>5. r \notin G1
      BY <1>3, <3>1 DEF Claiming
    <3>6. first.dr = m \/ Better(first.dr, m)
      BY <1>8, <1>9, <3>4
    <3>7. first.dr \in Router
      BY <1>4, <1>8, <1>9
    <3>8. Better(first.dr, r)
      BY <3>1, <3>6, <3>7, BetterTransitive
    <3>q. QED
      BY <1>8, <1>9, <3>5, <3>8
  <2>q. QED
    BY <2>1, <2>2
<1>11. CASE first.dr = r
  <2>1. i.dr = r
    <3>1. r \in G1
      BY <1>8, <1>9, <1>11
    <3>q. QED
      BY <1>3, <3>1 DEF Claiming
  <2>2. i.bdr # r /\ first.bdr # r
    BY <1>8, <1>9, <1>11, <2>1, RouterType DEF Distinct
  <2>3. stays
    BY <1>11, <2>1, <2>2
  <2>q. QED
    BY <1>2, <1>11, <2>3
<1>12. CASE first.dr # r
  <2>1. G2 = G1 \ {r} /\ first.dr \in G2
    BY <1>3, <1>5, <1>10, <1>12 DEF Claiming
  <2>2. second.dr = Best(G2) /\ Best(G2) \in G2
           /\ \A d \in G2 \ {Best(G2)} : Better(Best(G2), d)
    BY <1>1, <1>4, <2>1, PassElects, BestIn
  <2>3. second.dr = first.dr \/ Better(second.dr, first.dr)
    BY <2>1, <2>2
  <2>4. second.dr \in Router /\ first.dr \in Router /\ Better(first.dr, r)
    BY <1>4, <1>10, <1>12, <2>1, <2>2
  <2>5. Better(second.dr, r)
    BY <2>3, <2>4, BetterTransitive
  <2>6. Elect(r, i).dr \in {first.dr, second.dr}
    BY <1>2
  <2>q. QED
    BY <1>6, <2>1, <2>2, <2>4, <2>5, <2>6
<1>q. QED
  BY <1>11, <1>12
-----------------------------------------------------------------------------
(* The handlers.  Each keeps an interface Sound; and from one that is DR   *)
(* each comes to one that Stays: it is DR still, or has yielded.           *)

Stays(r, i) == i.state = DR \/ (i.state \in {DROther, Backup} /\ Yielded(r, i))

LEMMA TakeRoleDoes ==
    ASSUME NEW r \in Router, NEW i \in Interface
    PROVE  LET w == Elect(r, i)
               e == TakeRole(r, i, w)
           IN /\ e \in Interface /\ Distinct(e) /\ Elected(r, e)
              /\ e.nbr = i.nbr /\ e.dr = w.dr /\ e.bdr = w.bdr
              /\ e.state \in {DROther, Backup, DR} /\ (e.state = DR <=> w.dr = r)
<1> DEFINE w == Elect(r, i)
           e == TakeRole(r, i, w)
<1>1. /\ w.dr \in Candidates(r, i) \cup {Nobody} /\ w.bdr \in Candidates(r, i) \cup {Nobody}
      /\ Distinct(w)
  BY ElectElects
<1>2. w.dr \in Claim /\ w.bdr \in Claim /\ (w.dr = r => Priority[r] > 0)
  BY <1>1, CandidatesOf, RouterType DEF Claim
<1> HIDE DEF w
<1>3. /\ e.nbr = i.nbr /\ e.dr = w.dr /\ e.bdr = w.bdr
      /\ e.state = CASE w.dr = r -> DR
                     [] w.dr # r /\ w.bdr = r -> Backup
                     [] OTHER -> DROther
  BY DEF TakeRole, Interface
<1>4. e.state \in {DROther, Backup, DR} /\ (e.state = DR <=> w.dr = r)
  <2>1. CASE w.dr = r
    BY <1>3, <2>1
  <2>2. CASE w.dr # r /\ w.bdr = r
    BY <1>3, <2>2, StateValues
  <2>3. CASE w.dr # r /\ w.bdr # r
    BY <1>3, <2>3, StateValues
  <2>q. QED
    BY <2>1, <2>2, <2>3
<1>5. e \in Interface
  <2>1. e = [i EXCEPT !.dr = w.dr, !.bdr = w.bdr, !.state = e.state]
    BY <1>3 DEF TakeRole, Interface
  <2> HIDE DEF e
  <2>q. QED
    BY <1>2, <1>4, <2>1 DEF Interface
<1> HIDE DEF e
<1>6. Distinct(e) /\ Elected(r, e)
  BY <1>1, <1>2, <1>3, <1>4 DEF Distinct, Elected
<1>q. QED
  BY <1>3, <1>4, <1>5, <1>6 DEF w, e

LEMMA AdjOKAllDoes ==
    ASSUME NEW r \in Router, NEW i \in Interface
    PROVE  LET f == AdjOKAll(r, i)
           IN /\ f \in Interface /\ Fits(r, f)
              /\ f.state = i.state /\ f.dr = i.dr /\ f.bdr = i.bdr
              /\ \A m \in Router : /\ f.nbr[m].dr = i.nbr[m].dr
                                   /\ (f.nbr[m].state >= TwoWay) <=> (i.nbr[m].state >= TwoWay)
<1> DEFINE f == AdjOKAll(r, i)
           v(m) == IF i.nbr[m].state < TwoWay THEN i.nbr[m]
                   ELSE [i.nbr[m] EXCEPT
                           !.state = IF ShouldForm(r, i, m) THEN Adjacent ELSE TwoWay]
<1>1. f = [i EXCEPT !.nbr = [m \in Router |-> v(m)]]
  BY DEF AdjOKAll, Interface
<1>2. ASSUME NEW m \in Router
      PROVE  /\ v(m) \in NeighborView /\ v(m).dr = i.nbr[m].dr
             /\ (v(m).state >= TwoWay) <=> (i.nbr[m].state >= TwoWay)
             /\ v(m).state >= TwoWay => (v(m).state = Adjacent <=> ShouldForm(r, i, m))
  <2>1. i.nbr[m] \in NeighborView /\ i.nbr[m].state \in {0, 2, 3, 4}
    BY StateValues DEF Interface, NeighborView
  <2>q. QED
    BY <2>1, StateValues DEF NeighborView
<1> HIDE DEF v, f
<1>3. /\ f.state = i.state /\ f.dr = i.dr /\ f.bdr = i.bdr
      /\ \A m \in Router : f.nbr[m] = v(m)
  BY <1>1 DEF Interface
<1>4. f \in Interface
  BY <1>1, <1>2 DEF Interface
<1>5. Fits(r, f)
  BY <1>2, <1>3 DEF Fits, ShouldForm, Others
<1>q. QED
  BY <1>2, <1>3, <1>4, <1>5 DEF f

LEMMA RunElectionDoes ==
    ASSUME NEW r \in Router, NEW i \in Interface,
           Fits(r, i) \/ i.dr # Elect(r, i).dr \/ i.bdr # Elect(r, i).bdr
    PROVE  LET f == RunElection[<<r, i>>]
           IN /\ Sound(r, f) /\ f.state \in {DROther, Backup, DR}
              /\ f.dr = Elect(r, i).dr /\ (f.state = DR <=> f.dr = r)
              /\ \A m \in Router : /\ f.nbr[m].dr = i.nbr[m].dr
                                   /\ (f.nbr[m].state >= TwoWay) <=> (i.nbr[m].state >= TwoWay)
<1> DEFINE w == Elect(r, i)
           e == TakeRole(r, i, w)
           a == AdjOKAll(r, e)
           f == RunElection[<<r, i>>]
<1>1. /\ e \in Interface /\ Distinct(e) /\ Elected(r, e)
      /\ e.nbr = i.nbr /\ e.dr = w.dr /\ e.bdr = w.bdr
      /\ e.state \in {DROther, Backup, DR} /\ (e.state = DR <=> w.dr = r)
  BY TakeRoleDoes
<1>2. f = IF w = [dr |-> i.dr, bdr |-> i.bdr] THEN e ELSE a
  BY DEF RunElection
<1>3. w = [dr |-> w.dr, bdr |-> w.bdr]
  BY ElectElects
<1> HIDE DEF w, e
<1>4. /\ a \in Interface /\ Fits(r, a)
      /\ a.state = e.state /\ a.dr = e.dr /\ a.bdr = e.bdr
      /\ \A m \in Router : /\ a.nbr[m].dr = e.nbr[m].dr
                           /\ (a.nbr[m].state >= TwoWay) <=> (e.nbr[m].state >= TwoWay)
  BY <1>1, AdjOKAllDoes
<1> HIDE DEF a, f
<1>5. CASE w = [dr |-> i.dr, bdr |-> i.bdr]
  <2>1. f = e /\ e.dr = i.dr /\ e.bdr = i.bdr
    BY <1>1, <1>2, <1>5
  <2>2. Fits(r, e)
    <3>1. Fits(r, i)
      BY <1>1, <2>1 DEF w
    <3>q. QED
      BY <1>1, <2>1, <3>1 DEF Fits, ShouldForm
  <2>q. QED
    BY <1>1, <2>1, <2>2 DEF Sound, f, w
<1>6. CASE w # [dr |-> i.dr, bdr |-> i.bdr]
  <2>1. f = a
    BY <1>2, <1>6
  <2>2. Sound(r, a)
    BY <1>1, <1>4 DEF Sound, Distinct, Elected
  <2>q. QED
    BY <1>1, <1>4, <2>1, <2>2 DEF f, w
<1>q. QED
  BY <1>5, <1>6

LEMMA RunElectionStays ==
    ASSUME NEW r \in Router, NEW i, Sound(r, i), Stays(r, i), Priority[r] > 0
    PROVE  Stays(r, RunElection[<<r, i>>])
<1> DEFINE f == RunElection[<<r, i>>]
           m == Elect(r, i).dr
<1>1. /\ Sound(r, f) /\ f.state \in {DROther, Backup, DR}
      /\ f.dr = m /\ (f.state = DR <=> f.dr = r)
      /\ \A q \in Router : /\ f.nbr[q].dr = i.nbr[q].dr
                           /\ (f.nbr[q].state >= TwoWay) <=> (i.nbr[q].state >= TwoWay)
  BY RunElectionDoes DEF Sound
<1>2. m = r \/ (/\ m \in Others(r) /\ Better(m, r)
                /\ i.nbr[m].state >= TwoWay /\ i.nbr[m].dr = m)
  BY ElectYields DEF Stays, Sound, Elected
<1> HIDE DEF f, m
<1>3. CASE m = r
  BY <1>1, <1>3 DEF Stays, f
<1>4. CASE m # r
  BY <1>1, <1>2, <1>4 DEF Stays, Yielded, Others, f
<1>q. QED
  BY <1>3, <1>4

LEMMA NeighborChangeSound ==
    ASSUME NEW r \in Router, NEW i, Sound(r, i)
    PROVE  LET f == NeighborChange(r, i)
           IN Sound(r, f) /\ (Stays(r, i) /\ Priority[r] > 0 => Stays(r, f))
  BY RunElectionDoes, RunElectionStays DEF NeighborChange, Sound

(* Setting the state of a neighbour.                                       *)
Moved(i, m, s) == [i EXCEPT !.nbr[m].state = s]

LEMMA SetNeighbor ==
    ASSUME NEW r \in Router, NEW i, Sound(r, i), NEW m \in Others(r),
           NEW s \in {Down, Init1Way, TwoWay, Adjacent},
           s >= TwoWay => (s = Adjacent <=> ShouldForm(r, i, m))
    PROVE  Sound(r, Moved(i, m, s)) /\ Moved(i, m, s).state = i.state
<1> DEFINE e == [i EXCEPT !.nbr[m].state = s]
<1>1. m \in Router /\ i \in Interface /\ i.nbr \in [Router -> NeighborView]
  BY DEF Sound, Others, Interface
<1>2. /\ e.state = i.state /\ e.dr = i.dr /\ e.bdr = i.bdr
      /\ e.nbr = [i.nbr EXCEPT ![m] = [i.nbr[m] EXCEPT !.state = s]]
  <2>1. e = [i EXCEPT !.nbr = [i.nbr EXCEPT ![m] = [i.nbr[m] EXCEPT !.state = s]]]
    OBVIOUS
  <2> HIDE DEF e
  <2>q. QED
    BY <1>1, <2>1 DEF Interface
<1>3. e.nbr \in [Router -> NeighborView]
  BY <1>1, <1>2 DEF NeighborView
<1>4. e \in Interface
  <2>1. e = [i EXCEPT !.nbr = e.nbr]
    BY <1>1, <1>2 DEF Interface
  <2> HIDE DEF e
  <2>q. QED
    BY <1>1, <1>3, <2>1 DEF Interface
<1> HIDE DEF e
<1>5. /\ e.nbr[m].state = s
      /\ \A q \in Router \ {m} : e.nbr[q] = i.nbr[q]
  BY <1>1, <1>2 DEF NeighborView
<1>6. Fits(r, e)
  BY <1>1, <1>2, <1>5 DEF Fits, Sound, ShouldForm, Others
<1>q. QED
  BY <1>1, <1>2, <1>4, <1>6 DEF e, Moved, Sound, Distinct, Elected

LEMMA MoveNeighborSound ==
    ASSUME NEW r \in Router, NEW i, Sound(r, i), NEW m \in Others(r),
           NEW s \in {Down, Init1Way, TwoWay, Adjacent},
           s >= TwoWay => (s = Adjacent <=> ShouldForm(r, i, m))
    PROVE  LET f == MoveNeighbor(r, i, m, s)
           IN Sound(r, f) /\ (i.state = DR => Stays(r, f))
<1> DEFINE e == Moved(i, m, s)
<1>1. Sound(r, e) /\ e.state = i.state
  BY SetNeighbor
<1>2. MoveNeighbor(r, i, m, s) \in {e, NeighborChange(r, e)}
  BY DEF MoveNeighbor, Moved
<1> HIDE DEF e
<1>3. i.state = DR => Priority[r] > 0 /\ Stays(r, e)
  BY <1>1 DEF Sound, Elected, Stays
<1>q. QED
  BY <1>1, <1>2, <1>3, NeighborChangeSound

LEMMA TwoWayReceivedSound ==
    ASSUME NEW r \in Router, NEW i, Sound(r, i), NEW m \in Others(r)
    PROVE  LET f == TwoWayReceived(r, i, m)
           IN Sound(r, f) /\ (i.state = DR => Stays(r, f))
<1> DEFINE s == IF ShouldForm(r, i, m) THEN Adjacent ELSE TwoWay
<1>1. /\ s \in {Down, Init1Way, TwoWay, Adjacent}
      /\ s = Adjacent <=> ShouldForm(r, i, m)
  BY StateValues
<1>2. TwoWayReceived(r, i, m) = MoveNeighbor(r, i, m, s)
  BY DEF TwoWayReceived
<1> HIDE DEF s
<1>q. QED
  BY <1>1, <1>2, MoveNeighborSound

(* The Hello's claim is written down first.                                *)
LEMMA HeardSound ==
    ASSUME NEW r \in Router, NEW i, Sound(r, i), NEW m \in Others(r), NEW h \in HelloPacket
    PROVE  LET e == [i EXCEPT !.nbr[m] =
                       [state |-> IF @.state = Down THEN Init1Way ELSE @.state,
                        dr |-> h.dr, bdr |-> h.bdr]]
           IN Sound(r, e) /\ e.state = i.state
<1> DEFINE v == [state |-> IF i.nbr[m].state = Down THEN Init1Way ELSE i.nbr[m].state,
                 dr |-> h.dr, bdr |-> h.bdr]
           e == [i EXCEPT !.nbr = [i.nbr EXCEPT ![m] = v]]
<1>1. m \in Router /\ i \in Interface /\ i.nbr \in [Router -> NeighborView]
  BY DEF Sound, Others, Interface
<1>2. i.nbr[m].state \in {0, 2, 3, 4} /\ v \in NeighborView
  BY <1>1, StateValues DEF NeighborView, HelloPacket
<1>3. v.state >= TwoWay => v.state = i.nbr[m].state
  BY <1>2, StateValues
<1> HIDE DEF v
<1>4. /\ e.state = i.state /\ e.dr = i.dr /\ e.bdr = i.bdr /\ e \in Interface
      /\ e.nbr[m] = v /\ \A q \in Router \ {m} : e.nbr[q] = i.nbr[q]
  BY <1>1, <1>2 DEF Interface
<1> HIDE DEF e
<1>5. Fits(r, e)
  BY <1>1, <1>3, <1>4 DEF Fits, Sound, ShouldForm, Others
<1>6. Sound(r, e)
  BY <1>1, <1>4, <1>5 DEF Sound, Distinct, Elected
<1>q. QED
  BY <1>4, <1>6 DEF e, v

LEMMA ProcessHelloSound ==
    ASSUME NEW r \in Router, NEW i0, Sound(r, i0), NEW m \in Others(r), NEW h \in HelloPacket
    PROVE  LET f == ProcessHello(r, i0, m, h)
           IN Sound(r, f) /\ (i0.state = DR => Stays(r, f))
<1> DEFINE
      i1 == [i0 EXCEPT !.nbr[m] =
               [state |-> IF @.state = Down THEN Init1Way ELSE @.state,
                dr |-> h.dr, bdr |-> h.bdr]]
      i2 == CASE r \in h.sees /\ i1.nbr[m].state = Init1Way -> TwoWayReceived(r, i1, m)
              [] r \notin h.sees /\ i1.nbr[m].state >= TwoWay -> MoveNeighbor(r, i1, m, Init1Way)
              [] OTHER -> i1
      i3 == IF BackupSeen(i2, m, h) THEN RunElection[<<r, i2>>] ELSE i2
<1>1. Sound(r, i1) /\ i1.state = i0.state
  BY HeardSound
<1> HIDE DEF i1
<1>2. i2 \in {i1, TwoWayReceived(r, i1, m), MoveNeighbor(r, i1, m, Init1Way)}
  BY Zenon
<1>3. ~(Init1Way >= TwoWay) /\ Init1Way \in {Down, Init1Way, TwoWay, Adjacent}
  BY StateValues
<1> HIDE DEF i2
<1>4. Sound(r, i2) /\ (i1.state = DR => Stays(r, i2))
  BY <1>1, <1>2, <1>3, TwoWayReceivedSound, MoveNeighborSound DEF Stays
<1>5. Sound(r, i3) /\ (i1.state = DR => Stays(r, i3))
  <2>1. Stays(r, i2) => ~BackupSeen(i2, m, h)
    BY StateValues DEF Stays, BackupSeen
  <2>q. QED
    BY <1>4, <2>1, RunElectionDoes DEF Sound
<1> HIDE DEF i3
<1>6. ProcessHello(r, i0, m, h) \in {i3, NeighborChange(r, i3)}
  BY DEF ProcessHello, i1, i2, i3
<1>7. i1.state = DR => Priority[r] > 0
  BY <1>1 DEF Sound, Elected
<1>q. QED
  BY <1>1, <1>5, <1>6, <1>7, NeighborChangeSound

LEMMA KillNeighborSound ==
    ASSUME NEW r \in Router, NEW i, Sound(r, i), NEW m \in Others(r)
    PROVE  LET f == KillNeighbor(r, i, m)
           IN Sound(r, f) /\ (i.state = DR => Stays(r, f))
<1> DEFINE e == MoveNeighbor(r, i, m, Down)
<1>1. ~(Down >= TwoWay) /\ Down \in {Down, Init1Way, TwoWay, Adjacent}
  BY StateValues
<1>2. Sound(r, e) /\ (i.state = DR => Stays(r, e))
  BY <1>1, MoveNeighborSound
<1> HIDE DEF e
<1>3. KillNeighbor(r, i, m) \in {e, NeighborChange(r, e)}
  BY DEF KillNeighbor, e
<1>4. i.state = DR => Priority[r] > 0
  BY DEF Sound, Elected
<1>q. QED
  BY <1>2, <1>3, <1>4, NeighborChangeSound

LEMMA InterfaceUpSound ==
    ASSUME NEW r \in Router, NEW i, Sound(r, i)
    PROVE  Sound(r, InterfaceUp(r, i))
<1>1. Sound(r, [i EXCEPT !.state = Waiting])
  BY StateValues DEF Sound, Interface, Distinct, Fits, Elected, ShouldForm
<1>2. Sound(r, RunElection[<<r, i>>])
  BY RunElectionDoes DEF Sound
<1>q. QED
  BY <1>1, <1>2 DEF InterfaceUp

LEMMA FreshSound == \A r \in Router : Sound(r, Fresh) /\ Fresh.state = IfDown
<1>1. Nobody \in Claim /\ Fresh \in Interface
  BY DEF Fresh, Interface, NeighborView, Claim
<1>q. QED
  BY <1>1, StateValues DEF Sound, Fresh, Distinct, Fits, Elected, Others

-----------------------------------------------------------------------------
(* The callbacks.                                                          *)

(* What a callback may do to the interface of r.                           *)
Yields(r, i, f) ==
    i.state = DR /\ f.state \notin {DR, IfDown} => Yielded(r, f)

LEMMA StaysYields ==
    ASSUME NEW r, NEW i, NEW f, i.state = DR => Stays(r, f)
    PROVE  Yields(r, i, f)
  BY DEF Yields, Stays

(* Every callback changes one interface at most, to one that is Sound.     *)
OneInterface ==
    \/ intf' = intf
    \/ \E r \in Router : \E f : /\ intf' = [intf EXCEPT ![r] = f]
                                /\ Sound(r, f) /\ Yields(r, intf[r], f)

LEMMA OneInterfaceSound ==
    ASSUME IInv, OneInterface
    PROVE  /\ intf' \in [Router -> Interface]
           /\ \A r \in Router : Sound(r, intf'[r]) /\ Yields(r, intf[r], intf'[r])
<1>1. /\ intf \in [Router -> Interface]
      /\ \A r \in Router : Sound(r, intf[r]) /\ Yields(r, intf[r], intf[r])
  BY DEF IInv, TypeOK, Yields, Sound, Interface
<1>2. CASE intf' = intf
  BY <1>1, <1>2
<1>3. CASE intf' # intf
  <2>0. PICK r \in Router : \E f : /\ intf' = [intf EXCEPT ![r] = f]
                                   /\ Sound(r, f) /\ Yields(r, intf[r], f)
    BY <1>3 DEF OneInterface
  <2>1. PICK f : /\ intf' = [intf EXCEPT ![r] = f]
                 /\ Sound(r, f) /\ Yields(r, intf[r], f)
    BY <2>0
  <2>q. QED
    BY <1>1, <2>1 DEF Sound
<1>q. QED
  BY <1>2, <1>3

HelloType == [Router -> [Router -> HelloPacket \cup {NoHello}]]

LEMMA HelloOfType ==
    ASSUME NEW r \in Router, NEW i \in Interface
    PROVE  HelloOf(r, i) \in HelloPacket
  BY DEF HelloOf, HelloPacket, Interface, Others

LEMMA MulticastType ==
    ASSUME TypeOK, NEW r \in Router, NEW i \in Interface, Multicast(r, i)
    PROVE  hello' \in HelloType
<1>1. HelloOf(r, i) \in HelloPacket
  BY HelloOfType
<1>2. [m \in Router |-> IF m # r /\ Up(m) THEN HelloOf(r, i) ELSE NoHello]
        \in [Router -> HelloPacket \cup {NoHello}]
  BY <1>1
<1>q. QED
  BY <1>2 DEF Multicast, TypeOK, HelloType

(* One Hello less on the wire. *)
LEMMA HelloGone ==
    ASSUME TypeOK, NEW r \in Router, NEW m \in Router,
           hello' = [hello EXCEPT ![m][r] = NoHello]
    PROVE  hello' \in HelloType
  BY DEF TypeOK, HelloType

LEMMA InitIInv == Init => IInv
<1> SUFFICES ASSUME Init PROVE IInv
  OBVIOUS
<1>1. \A r \in Router : Sound(r, intf[r]) /\ intf \in [Router -> Interface]
  BY FreshSound, InterfaceUpSound DEF Init, Sound
<1>2. hello \in HelloType /\ faults \in Nat
  BY DEF Init, HelloType
<1>q. QED
  BY <1>1, <1>2 DEF IInv, TypeOK, HelloType, Init

LEMMA NextOneInterface ==
    ASSUME IInv, [Next]_vars
    PROVE  OneInterface /\ hello' \in HelloType /\ faults' \in Nat
<1> DEFINE Goal == OneInterface /\ hello' \in HelloType /\ faults' \in Nat
<1>1. /\ intf \in [Router -> Interface] /\ hello \in HelloType /\ faults \in Nat
      /\ TypeOK /\ \A r \in Router : Sound(r, intf[r])
  BY DEF IInv, TypeOK, HelloType
<1>2. ASSUME NEW kind, Strike(kind) PROVE faults' \in Nat
  BY <1>1, <1>2 DEF Strike
<1>3. ASSUME NEW r \in Router, Start(r) PROVE Goal
  <2> DEFINE i == InterfaceUp(r, intf[r])
  <2>1. Sound(r, i) /\ Yields(r, intf[r], i)
    BY <1>1, <1>3, InterfaceUpSound, StateValues DEF Start, Up, Yields
  <2>2. intf' = [intf EXCEPT ![r] = i] /\ Multicast(r, i)
    BY <1>3 DEF Start
  <2> HIDE DEF i
  <2>q. QED
    BY <1>1, <1>3, <2>1, <2>2, MulticastType DEF OneInterface, Start, Sound
<1>4. ASSUME NEW r \in Router, SendHello(r) PROVE Goal
  BY <1>1, <1>4, MulticastType DEF SendHello, OneInterface
<1>5. ASSUME NEW r \in Router, NEW m \in Others(r), ReceiveHello(r, m) PROVE Goal
  <2>1. hello[m][r] \in HelloPacket /\ m \in Router
    BY <1>1, <1>5 DEF ReceiveHello, HelloType, Others
  <2> DEFINE f == ProcessHello(r, intf[r], m, hello[m][r])
  <2>2. Sound(r, f) /\ Yields(r, intf[r], f)
    BY <1>1, <2>1, ProcessHelloSound, StaysYields
  <2>3. intf' = [intf EXCEPT ![r] = f]
    BY <1>5 DEF ReceiveHello
  <2> HIDE DEF f
  <2>q. QED
    BY <1>1, <1>5, <2>1, <2>2, <2>3, HelloGone DEF OneInterface, ReceiveHello
<1>6. ASSUME NEW r \in Router, NEW m \in Others(r), ReceiveDD(r, m) PROVE Goal
  <2> DEFINE f == TwoWayReceived(r, intf[r], m)
  <2>1. Sound(r, f) /\ Yields(r, intf[r], f)
    BY <1>1, TwoWayReceivedSound, StaysYields
  <2>2. intf' = [intf EXCEPT ![r] = f]
    BY <1>6 DEF ReceiveDD
  <2> HIDE DEF f
  <2>q. QED
    BY <1>1, <1>6, <2>1, <2>2 DEF OneInterface, ReceiveDD
<1>7. ASSUME NEW r \in Router, WaitTimer(r) PROVE Goal
  <2> DEFINE f == RunElection[<<r, intf[r]>>]
  <2>1. Sound(r, f)
    BY <1>1, RunElectionDoes DEF Sound
  <2>2. Yields(r, intf[r], f)
    BY <1>7, StateValues DEF WaitTimer, Yields
  <2>3. intf' = [intf EXCEPT ![r] = f]
    BY <1>7 DEF WaitTimer
  <2> HIDE DEF f
  <2>q. QED
    BY <1>1, <1>2, <1>7, <2>1, <2>2, <2>3 DEF OneInterface, WaitTimer
<1>8. ASSUME NEW r \in Router, NEW m \in Others(r), InactivityTimer(r, m) PROVE Goal
  <2> DEFINE f == KillNeighbor(r, intf[r], m)
  <2>1. Sound(r, f) /\ Yields(r, intf[r], f)
    BY <1>1, KillNeighborSound, StaysYields
  <2>2. intf' = [intf EXCEPT ![r] = f]
    BY <1>8 DEF InactivityTimer
  <2> HIDE DEF f
  <2>q. QED
    BY <1>1, <1>2, <1>8, <2>1, <2>2 DEF OneInterface, InactivityTimer
<1>9. ASSUME NEW r \in Router, Crash(r) PROVE Goal
  <2>1. Sound(r, Fresh) /\ Yields(r, intf[r], Fresh)
    BY FreshSound DEF Yields
  <2>2. hello' \in HelloType
    BY <1>1, <1>9 DEF Crash, HelloType
  <2>q. QED
    BY <1>2, <1>9, <2>1, <2>2 DEF Crash, OneInterface
<1>10. ASSUME NEW r \in Router, NEW m \in Others(r), LoseHello(r, m) PROVE Goal
  <2>1. m \in Router
    BY DEF Others
  <2>q. QED
    BY <1>1, <1>2, <1>10, <2>1, HelloGone DEF LoseHello, OneInterface
<1>11. CASE UNCHANGED vars
  BY <1>1, <1>11 DEF vars, OneInterface
<1> HIDE DEF Goal
<1>12. Goal
  BY <1>3, <1>4, <1>5, <1>6, <1>7, <1>8, <1>9, <1>10, <1>11 DEF Next, Goal
<1>q. QED
  BY <1>12 DEF Goal

LEMMA NextIInv == IInv /\ [Next]_vars => IInv'
<1> SUFFICES ASSUME IInv, [Next]_vars PROVE IInv'
  OBVIOUS
<1>q. QED
  BY NextOneInterface, OneInterfaceSound DEF IInv, TypeOK, HelloType

(* Each interface stays sound through every Hello, timer and crash:        *)
(* nothing in it depends on what another router has computed.              *)
THEOREM Invariance == Spec => []IInv
  BY InitIInv, NextIInv, PTL DEF Spec

(* The DR and the backup of an interface are routers or nobody, and its    *)
(* neighbours are in states of the neighbour machine, whatever Hellos,     *)
(* timers and crashes come together.                                       *)
THEOREM TypeCorrect == Spec => []TypeOK
<1>1. IInv => TypeOK
  BY DEF IInv
<1>q. QED
  BY <1>1, Invariance, PTL

(* No election leaves one router both DR and backup (elect_dr_bdr with its *)
(* second pass), whatever the claims of the neighbours say.                *)
THEOREM RolesAreDistinct == Spec => []RolesDistinct
<1>1. IInv => RolesDistinct
  BY DEF IInv, Sound, Distinct, RolesDistinct
<1>q. QED
  BY <1>1, Invariance, PTL

(* The neighbours past 2-Way are those that _should_form_adjacency names,  *)
(* although AdjOK? is raised only when an election changed something.      *)
THEOREM AdjacenciesFollowElection == Spec => []AdjacenciesFit
<1>1. IInv => AdjacenciesFit
  BY DEF IInv, Sound, Fits, AdjacenciesFit
<1>q. QED
  BY <1>1, Invariance, PTL

(* A DR steps down only for a better router that claims to be DR, however  *)
(* many elections one callback runs.                                       *)
THEOREM DRYieldsOnlyToBetter == Spec => DRYields
<1>1. IInv /\ [Next]_vars =>
        [\A r \in Router :
          intf[r].state = DR /\ intf'[r].state \notin {DR, IfDown} =>
             LET m == intf'[r].dr
             IN /\ m \in Others(r) /\ Better(m, r)
                /\ intf'[r].nbr[m].state >= TwoWay /\ intf'[r].nbr[m].dr = m]_vars
  BY NextOneInterface, OneInterfaceSound DEF Yields, Yielded
<1>q. QED
  BY <1>1, Invariance, PTL DEF Spec, DRYields
=============================================================================
