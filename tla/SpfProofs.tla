----------------------------- MODULE SpfProofs -----------------------------
(***************************************************************************)
(* Proofs about Spf, Extraction and SegmentRouting, for every database,    *)
(* number of routers, networks and destinations, and all metrics.          *)
(***************************************************************************)
EXTENDS SegmentRouting, RouteChoiceProofs

-----------------------------------------------------------------------------
(* Induction, over the sets of numbers for which something holds.          *)

LEMMA Induction ==
    ASSUME NEW S \in SUBSET Nat, 0 \in S, \A n \in S : n + 1 \in S
    PROVE  S = Nat
<1> DEFINE T == Nat \ S
           R == OpToRel(<, Nat)
<1>1. SUFFICES ASSUME T # {} PROVE FALSE
  OBVIOUS
<1>2. IsWellFoundedOn(R, Nat)
  BY NatLessThanWellFounded
<1>3. PICK n \in T : \A m \in T : <<m, n>> \notin R
  <2> HIDE DEF R
  <2>q. QED
    BY <1>1, <1>2, WFMin
<1>4. n # 0 /\ n - 1 \in Nat /\ n - 1 < n
  OBVIOUS
<1>5. <<n - 1, n>> \in R
  BY <1>4 DEF OpToRel
<1>6. n - 1 \in S
  BY <1>3, <1>4, <1>5
<1>q. QED
  BY <1>4, <1>6

(* WalksUpTo is given by its value at 0 and a step from each value to the  *)
(* next.  That there is such a function: there is one up to every number,  *)
(* and two of them agree where both are given.                             *)
Steps(f, n, d, u) == f[0] = {<<u, 0>>} /\ \A k \in 1..n : f[k] = Further(d, f[k - 1])

LEMMA StepsAgree ==
    ASSUME NEW d, NEW u, NEW f, NEW g, NEW m \in Nat, NEW n \in Nat,
           Steps(f, m, d, u), Steps(g, n, d, u),
           NEW k \in Nat, k <= m, k <= n
    PROVE  f[k] = g[k]
<1> DEFINE S == {j \in Nat : j <= m /\ j <= n => f[j] = g[j]}
<1>1. 0 \in S
  BY DEF Steps
<1>2. ASSUME NEW j \in S PROVE j + 1 \in S
  <2>1. SUFFICES ASSUME j + 1 <= m, j + 1 <= n PROVE f[j + 1] = g[j + 1]
    OBVIOUS
  <2>2. f[j] = g[j] /\ j + 1 \in 1..m /\ j + 1 \in 1..n /\ (j + 1) - 1 = j
    BY <1>2, <2>1
  <2>q. QED
    BY <2>2 DEF Steps
<1> HIDE DEF S
<1>3. S = Nat
  <2>1. S \in SUBSET Nat
    BY DEF S
  <2>q. QED
    BY <1>1, <1>2, <2>1, Induction
<1>q. QED
  BY <1>3 DEF S

LEMMA StepsExist ==
    ASSUME NEW d, NEW u, NEW n \in Nat
    PROVE  \E f : Steps(f, n, d, u)
<1> DEFINE S == {j \in Nat : \E f : Steps(f, j, d, u)}
<1>1. 0 \in S
  <2> DEFINE f == [k \in 0..0 |-> {<<u, 0>>}]
  <2>1. Steps(f, 0, d, u)
    BY DEF Steps
  <2>q. QED
    BY <2>1
<1>2. ASSUME NEW j \in S PROVE j + 1 \in S
  <2>1. PICK f : Steps(f, j, d, u)
    BY <1>2
  <2> DEFINE g == [k \in 0..(j + 1) |-> IF k = j + 1 THEN Further(d, f[j]) ELSE f[k]]
  <2>2. g[0] = {<<u, 0>>}
    BY <2>1 DEF Steps
  <2>3. ASSUME NEW k \in 1..(j + 1) PROVE g[k] = Further(d, g[k - 1])
    <3>1. g[k - 1] = f[k - 1]
      OBVIOUS
    <3>2. CASE k = j + 1
      BY <3>1, <3>2
    <3>3. CASE k \in 1..j
      <4>1. g[k] = f[k]
        BY <3>3
      <4>q. QED
        BY <2>1, <3>1, <3>3, <4>1 DEF Steps
    <3>q. QED
      BY <3>2, <3>3
  <2> HIDE DEF g
  <2>4. Steps(g, j + 1, d, u)
    BY <2>2, <2>3 DEF Steps
  <2>q. QED
    BY <2>4
<1> HIDE DEF S
<1>3. S = Nat
  <2>1. S \in SUBSET Nat
    BY DEF S
  <2>q. QED
    BY <1>1, <1>2, <2>1, Induction
<1>q. QED
  BY <1>3 DEF S

LEMMA WalksGrow ==
    ASSUME NEW d, NEW u
    PROVE  LET w == WalksUpTo(d, u)
           IN /\ w[0] = {<<u, 0>>}
              /\ \A n \in Nat : w[n + 1] = Further(d, w[n])
<1> DEFINE Upto(n) == CHOOSE f : Steps(f, n, d, u)
           F == [n \in Nat |-> Upto(n)[n]]
           IsIt(w) == w = [n \in Nat |-> IF n = 0 THEN {<<u, 0>>} ELSE Further(d, w[n - 1])]
<1>1. ASSUME NEW n \in Nat PROVE Steps(Upto(n), n, d, u)
  BY StepsExist
<1> HIDE DEF Upto
<1>2. ASSUME NEW n \in Nat
      PROVE  F[n] = IF n = 0 THEN {<<u, 0>>} ELSE Further(d, F[n - 1])
  <2>1. CASE n = 0
    BY <1>1, <2>1 DEF Steps
  <2>2. CASE n # 0
    <3>1. n - 1 \in Nat /\ n \in 1..n /\ n - 1 <= n
      BY <2>2
    <3>2. Upto(n)[n] = Further(d, Upto(n)[n - 1])
      BY <1>1, <3>1 DEF Steps
    <3>3. Upto(n)[n - 1] = Upto(n - 1)[n - 1]
      BY <1>1, <3>1, StepsAgree
    <3>q. QED
      BY <2>2, <3>1, <3>2, <3>3
  <2>q. QED
    BY <2>1, <2>2
<1>3. IsIt(F)
  BY <1>2
<1>4. WalksUpTo(d, u) = CHOOSE w : IsIt(w)
  BY DEF WalksUpTo
<1> HIDE DEF F
<1>5. IsIt(WalksUpTo(d, u))
  <2> HIDE DEF IsIt
  <2>q. QED
    BY <1>3, <1>4
<1> DEFINE w == WalksUpTo(d, u)
<1> HIDE DEF w
<1>6. w = [n \in Nat |-> IF n = 0 THEN {<<u, 0>>} ELSE Further(d, w[n - 1])]
  BY <1>5 DEF w
<1> HIDE DEF IsIt
<1>7. w[0] = {<<u, 0>>}
  BY <1>6
<1>8. ASSUME NEW n \in Nat PROVE w[n + 1] = Further(d, w[n])
  <2>1. n + 1 \in Nat /\ n + 1 # 0 /\ (n + 1) - 1 = n
    OBVIOUS
  <2>q. QED
    BY <1>6, <2>1
<1>q. QED
  BY <1>7, <1>8 DEF w

-----------------------------------------------------------------------------
(* Walks.                                                                  *)

LEMMA CostType ==
    ASSUME NEW d \in Lsdb, NEW u \in Vertex, NEW v \in Leads(d, u)
    PROVE  v \in Vertex /\ Cost(d, u, v) \in Metrics \cup {0} /\ Cost(d, u, v) \in Nat
<1>1. v \in Vertex
  BY DEF Leads
<1>2. CASE u \in Router
  <2>1. d.link[<<u, v>>] # NoLink /\ d.link \in [Router \X Vertex -> Metrics \cup {NoLink}]
    BY <1>2 DEF Leads, Lsdb
  <2>2. d.link[<<u, v>>] \in Metrics
    BY <1>1, <1>2, <2>1
  <2>q. QED
    BY <1>1, <1>2, <2>2, SpfAssumption DEF Cost
<1>3. CASE u \notin Router
  BY <1>1, <1>3 DEF Cost
<1>q. QED
  BY <1>2, <1>3

(* A walk of one more link.                                                *)
LEMMA WalkOn ==
    ASSUME NEW d, NEW u, NEW n \in Nat, NEW x, NEW y,
           <<x, y>> \in WalksUpTo(d, u)[n], NEW v \in Leads(d, x)
    PROVE  <<v, y + Cost(d, x, v)>> \in WalksUpTo(d, u)[n + 1]
<1> DEFINE W == WalksUpTo(d, u)[n]
           p == <<x, y>>
<1>1. WalksUpTo(d, u)[n + 1] = Further(d, W)
  BY WalksGrow
<1>2. p \in W /\ p[1] = x /\ p[2] = y
  OBVIOUS
<1> HIDE DEF W, p
<1>3. <<v, p[2] + Cost(d, p[1], v)>> \in Further(d, W)
  BY <1>2 DEF Further
<1>q. QED
  BY <1>1, <1>2, <1>3

(* A walk of at most n + 1 links has at most n or is such a walk and one   *)
(* link.                                                                   *)
LEMMA WalkBack ==
    ASSUME NEW d, NEW u, NEW n \in Nat, NEW p \in WalksUpTo(d, u)[n + 1]
    PROVE  \/ p \in WalksUpTo(d, u)[n]
           \/ \E q \in WalksUpTo(d, u)[n] : \E v \in Leads(d, q[1]) :
                 p = <<v, q[2] + Cost(d, q[1], v)>>
  BY WalksGrow DEF Further

LEMMA WalkType ==
    ASSUME NEW d \in Lsdb, NEW u \in Vertex, NEW n \in Nat
    PROVE  WalksUpTo(d, u)[n] \subseteq Vertex \X Nat
<1> DEFINE w == WalksUpTo(d, u)
           S == {k \in Nat : w[k] \subseteq Vertex \X Nat}
<1>1. 0 \in S
  BY WalksGrow
<1>2. ASSUME NEW k \in S PROVE k + 1 \in S
  <2> SUFFICES ASSUME NEW p \in w[k + 1] PROVE p \in Vertex \X Nat
    OBVIOUS
  <2>1. k \in Nat /\ w[k] \subseteq Vertex \X Nat
    OBVIOUS
  <2>2. CASE p \in w[k]
    BY <2>1, <2>2
  <2>3. ASSUME NEW q \in w[k], NEW v \in Leads(d, q[1]), p = <<v, q[2] + Cost(d, q[1], v)>>
        PROVE  p \in Vertex \X Nat
    <3>1. q[1] \in Vertex /\ q[2] \in Nat
      BY <2>1
    <3>2. v \in Vertex /\ Cost(d, q[1], v) \in Nat
      BY <3>1, CostType
    <3>q. QED
      BY <2>3, <3>1, <3>2
  <2> HIDE DEF S
  <2>q. QED
    BY <2>1, <2>2, <2>3, WalkBack
<1> HIDE DEF S
<1>3. S = Nat
  <2>1. S \in SUBSET Nat
    BY DEF S
  <2>q. QED
    BY <1>1, <1>2, <2>1, Induction
<1>q. QED
  BY <1>3 DEF S

LEMMA WalksKept ==
    ASSUME NEW d, NEW u, NEW m \in Nat, NEW n \in Nat, m <= n
    PROVE  WalksUpTo(d, u)[m] \subseteq WalksUpTo(d, u)[n]
<1> DEFINE w == WalksUpTo(d, u)
           S == {k \in Nat : w[m] \subseteq w[m + k]}
<1>1. 0 \in S
  OBVIOUS
<1>2. ASSUME NEW k \in S PROVE k + 1 \in S
  <2>1. w[(m + k) + 1] = Further(d, w[m + k])
    <3>1. m + k \in Nat
      OBVIOUS
    <3>q. QED
      BY <3>1, WalksGrow
  <2>2. w[m + k] \subseteq w[(m + k) + 1]
    BY <2>1 DEF Further
  <2>3. (m + k) + 1 = m + (k + 1) /\ k + 1 \in Nat /\ w[m] \subseteq w[m + k]
    OBVIOUS
  <2> HIDE DEF w
  <2>q. QED
    BY <2>2, <2>3
<1> HIDE DEF S
<1>3. S = Nat
  <2>1. S \in SUBSET Nat
    BY DEF S
  <2>q. QED
    BY <1>1, <1>2, <2>1, Induction
<1>4. n - m \in S /\ m + (n - m) = n
  BY <1>3
<1>q. QED
  BY <1>4 DEF S

(* A walk from behind a link, with this link before it.                    *)
LEMMA WalkFrom ==
    ASSUME NEW d \in Lsdb, NEW u \in Vertex, NEW s \in Leads(d, u), NEW n \in Nat,
           NEW v, NEW y, <<v, y>> \in WalksUpTo(d, s)[n]
    PROVE  <<v, Cost(d, u, s) + y>> \in WalksUpTo(d, u)[n + 1]
<1> DEFINE w == WalksUpTo(d, s)
           c == Cost(d, u, s)
           S == {k \in Nat : \A p \in w[k] : <<p[1], c + p[2]>> \in WalksUpTo(d, u)[k + 1]}
<1>0. s \in Vertex /\ c \in Nat
  BY CostType
<1>1. 0 \in S
  <2>1. w[0] = {<<s, 0>>} /\ <<u, 0>> \in WalksUpTo(d, u)[0]
    BY WalksGrow
  <2>2. <<s, 0 + c>> \in WalksUpTo(d, u)[0 + 1]
    BY <2>1, WalkOn
  <2>3. 0 + c = c + 0
    BY <1>0
  <2> HIDE DEF w, c
  <2>q. QED
    BY <2>1, <2>2, <2>3
<1>2. ASSUME NEW k \in S PROVE k + 1 \in S
  <2> SUFFICES ASSUME NEW p \in w[k + 1]
               PROVE  <<p[1], c + p[2]>> \in WalksUpTo(d, u)[(k + 1) + 1]
    OBVIOUS
  <2>1. CASE p \in w[k]
    <3>1. <<p[1], c + p[2]>> \in WalksUpTo(d, u)[k + 1]
      BY <2>1
    <3>2. k + 1 \in Nat /\ (k + 1) + 1 \in Nat /\ k + 1 <= (k + 1) + 1
      OBVIOUS
    <3>q. QED
      BY <3>1, <3>2, WalksKept
  <2>2. ASSUME NEW q \in w[k], NEW x \in Leads(d, q[1]), p = <<x, q[2] + Cost(d, q[1], x)>>
        PROVE  <<p[1], c + p[2]>> \in WalksUpTo(d, u)[(k + 1) + 1]
    <3>1. q[1] \in Vertex /\ q[2] \in Nat
      BY <1>0, WalkType
    <3>2. Cost(d, q[1], x) \in Nat
      BY <3>1, CostType
    <3>3. <<q[1], c + q[2]>> \in WalksUpTo(d, u)[k + 1] /\ k + 1 \in Nat
      OBVIOUS
    <3>4. <<x, (c + q[2]) + Cost(d, q[1], x)>> \in WalksUpTo(d, u)[(k + 1) + 1]
      BY <3>3, WalkOn
    <3>5. (c + q[2]) + Cost(d, q[1], x) = c + (q[2] + Cost(d, q[1], x))
      BY <1>0, <3>1, <3>2
    <3>6. p[1] = x /\ p[2] = q[2] + Cost(d, q[1], x)
      BY <2>2
    <3> HIDE DEF c
    <3>q. QED
      BY <3>4, <3>5, <3>6
  <2>3. k \in Nat
    OBVIOUS
  <2> HIDE DEF S, c
  <2>q. QED
    BY <2>1, <2>2, <2>3, WalkBack
<1> HIDE DEF S
<1>3. S = Nat
  <2>1. S \in SUBSET Nat
    BY DEF S
  <2>q. QED
    BY <1>1, <1>2, <2>1, Induction
<1>4. \A p \in w[n] : <<p[1], c + p[2]>> \in WalksUpTo(d, u)[n + 1]
  BY <1>3 DEF S
<1> HIDE DEF c
<1>5. <<v, y>>[1] = v /\ <<v, y>>[2] = y
  OBVIOUS
<1>q. QED
  BY <1>4, <1>5 DEF c

-----------------------------------------------------------------------------
(* The length of a walk.                                                   *)

Dearest == CHOOSE m \in Metrics \cup {0} : \A n \in Metrics : n <= m

LEMMA DearestIs == Dearest \in Nat /\ \A n \in Metrics \cup {0} : n <= Dearest
<1> DEFINE M == Metrics \cup {0}
<1>1. M \in SUBSET Nat /\ IsFiniteSet(M) /\ M # {}
  BY SpfAssumption, FS_AddElement
<1>2. PICK m \in M : \A n \in M : n <= m
  <2> HIDE DEF M
  <2>q. QED
    BY <1>1, GreatestExists
<1>3. Dearest \in Metrics \cup {0} /\ \A n \in Metrics : n <= Dearest
  BY <1>2 DEF Dearest
<1>q. QED
  BY <1>1, <1>3

LEMMA WalkLength ==
    ASSUME NEW d \in Lsdb, NEW u \in Vertex, NEW n \in Nat, NEW p \in WalksUpTo(d, u)[n]
    PROVE  p[2] <= n * Dearest
<1> DEFINE w == WalksUpTo(d, u)
           S == {k \in Nat : \A q \in w[k] : q[2] <= k * Dearest}
<1>0. Dearest \in Nat
  BY DearestIs
<1>1. 0 \in S
  BY <1>0, WalksGrow
<1>2. ASSUME NEW k \in S PROVE k + 1 \in S
  <2> SUFFICES ASSUME NEW q \in w[k + 1] PROVE q[2] <= (k + 1) * Dearest
    OBVIOUS
  <2>1. /\ k \in Nat /\ k * Dearest \in Nat
        /\ (k + 1) * Dearest = k * Dearest + Dearest
        /\ \A x \in w[k] : x[1] \in Vertex /\ x[2] \in Nat /\ x[2] <= k * Dearest
    BY <1>0, WalkType
  <2>2. CASE q \in w[k]
    BY <1>0, <2>1, <2>2
  <2>3. ASSUME NEW x \in w[k], NEW v \in Leads(d, x[1]), q = <<v, x[2] + Cost(d, x[1], v)>>
        PROVE  q[2] <= (k + 1) * Dearest
    <3>1. Cost(d, x[1], v) \in Nat /\ Cost(d, x[1], v) <= Dearest
      BY <2>1, CostType, DearestIs
    <3>2. q[2] = x[2] + Cost(d, x[1], v)
      BY <2>3
    <3>q. QED
      BY <1>0, <2>1, <3>1, <3>2
  <2> HIDE DEF S
  <2>q. QED
    BY <2>1, <2>2, <2>3, WalkBack
<1> HIDE DEF S
<1>3. S = Nat
  <2>1. S \in SUBSET Nat
    BY DEF S
  <2>q. QED
    BY <1>1, <1>2, <2>1, Induction
<1>q. QED
  BY <1>3 DEF S

LEMMA VertexCount == Cardinality(Vertex) \in Nat /\ Cardinality(Vertex) - 1 \in Nat
<1>1. Cardinality(Vertex) \in Nat /\ Cardinality(Vertex) # 0
  BY SpfAssumption, FS_CardinalityType, FS_EmptySet DEF Vertex
<1>q. QED
  BY <1>1

LEMMA FarIsFar ==
    ASSUME NEW d \in Lsdb, NEW u \in Vertex, NEW p \in Walks(d, u)
    PROVE  p[2] \in Nat /\ p[2] < Far
<1> DEFINE k == Cardinality(Vertex) - 1
<1>1. k \in Nat /\ Dearest \in Nat
  BY VertexCount, DearestIs
<1>2. p[2] \in Nat /\ p[2] <= k * Dearest
  BY <1>1, WalkType, WalkLength DEF Walks
<1>3. Far = 1 + (k + 1) * Dearest
  <2>1. Cardinality(Vertex) = k + 1
    BY VertexCount
  <2>2. Far = 1 + Cardinality(Vertex) * Dearest
    BY DEF Far, Dearest
  <2> HIDE DEF k
  <2>q. QED
    BY <2>1, <2>2
<1> HIDE DEF k
<1>4. (k + 1) * Dearest = k * Dearest + Dearest /\ k * Dearest \in Nat
  BY <1>1
<1>q. QED
  BY <1>1, <1>2, <1>3, <1>4

LEMMA LeastIs ==
    ASSUME NEW S \in SUBSET Nat, NEW m \in S, \A n \in S : m <= n
    PROVE  Least(S) = m
<1>1. Least(S) \in S /\ \A n \in S : Least(S) <= n
  BY DEF Least
<1>2. Least(S) \in Nat /\ m \in Nat /\ Least(S) <= m /\ m <= Least(S)
  <2> HIDE DEF Least
  <2>q. QED
    BY <1>1
<1>q. QED
  BY <1>2

LEMMA FarType == Far \in Nat
<1>1. Far = 1 + Cardinality(Vertex) * Dearest
  BY DEF Far, Dearest
<1>2. Cardinality(Vertex) * Dearest \in Nat
  BY VertexCount, DearestIs
<1>q. QED
  BY <1>1, <1>2

(* The distance is the length of a walk that no other walk is shorter      *)
(* than, and Far when there is none.                                       *)
LEMMA DistanceIs ==
    ASSUME lsdb \in Lsdb, NEW u \in Vertex, NEW v \in Vertex,
           NEW x, <<v, x>> \in Walks(lsdb, u),
           \A y \in Nat : <<v, y>> \in Walks(lsdb, u) => x <= y
    PROVE  DistancesFrom(u)[v] = x /\ x < Far
<1> DEFINE W == Walks(lsdb, u)
           S == {p[2] : p \in {q \in W : q[1] = v}} \cup {Far}
<1>1. \A p \in W : p \in Vertex \X Nat /\ p[2] < Far
  BY FarIsFar, WalkType, VertexCount DEF Walks
<1>2. DistancesFrom(u)[v] = Least(S)
  BY DEF DistancesFrom
<1> HIDE DEF W
<1>3. x \in S /\ x \in Nat /\ x < Far
  <2>1. <<v, x>> \in W
    BY DEF W
  <2>2. <<v, x>>[1] = v /\ <<v, x>>[2] = x
    OBVIOUS
  <2>q. QED
    BY <1>1, <2>1, <2>2
<1>4. S \in SUBSET Nat
  BY <1>1, FarType
<1>5. ASSUME NEW y \in S PROVE x <= y
  <2>1. CASE y = Far
    BY <1>3, <2>1, FarType
  <2>2. CASE y # Far
    <3>1. PICK p \in W : p[1] = v /\ p[2] = y
      BY <1>5, <2>2
    <3>2. p = <<v, y>> /\ y \in Nat
      BY <1>1, <3>1
    <3>q. QED
      BY <3>1, <3>2 DEF W
  <2>q. QED
    BY <2>1, <2>2
<1> HIDE DEF S
<1>6. Least(S) = x
  BY <1>3, <1>4, <1>5, LeastIs
<1>q. QED
  BY <1>2, <1>3, <1>6

LEMMA DistanceFar ==
    ASSUME lsdb \in Lsdb, NEW u \in Vertex, NEW v \in Vertex,
           \A y : <<v, y>> \notin Walks(lsdb, u)
    PROVE  DistancesFrom(u)[v] = Far
<1> DEFINE W == Walks(lsdb, u)
           S == {p[2] : p \in {q \in W : q[1] = v}} \cup {Far}
<1>1. \A p \in W : p = <<p[1], p[2]>>
  BY WalkType, VertexCount DEF Walks
<1>2. DistancesFrom(u)[v] = Least(S)
  BY DEF DistancesFrom
<1> HIDE DEF W
<1>3. S = {Far}
  BY <1>1 DEF W
<1> HIDE DEF S
<1>q. QED
  BY <1>2, <1>3, FarType, LeastIs

-----------------------------------------------------------------------------
(* Types.                                                                  *)

LEMMA NoneIsNoEntry == None \notin Entry
<1>1. None = [dist |-> -1]
  BY DEF None
<1>2. ASSUME NEW e \in Entry PROVE e.dist \in Nat
  BY DEF Entry
<1>3. [dist |-> -1].dist = -1
  OBVIOUS
<1>q. QED
  BY <1>1, <1>2, <1>3

LEMMA HopsType ==
    ASSUME NEW c \in Entry, lsdb \in Lsdb, NEW v \in Vertex
    PROVE  HopsTo(c, v) \in SUBSET (Router \cup {Direct})
  BY DEF HopsTo, DirectHops, Entry

(* What is pushed for a vertex: what it leads to that is not in the tree.  *)
LEMMA PushedIs ==
    ASSUME TypeOK, NEW c \in Entry
    PROVE  /\ Pushed(c) \subseteq Entry
           /\ \A e \in Pushed(c) :
                 /\ e.v \in Leads(lsdb, c.v) /\ ~InTree(e.v) /\ IdOf[e.v] # IdOf[c.v]
                 /\ e.dist = c.dist + Cost(lsdb, c.v, e.v)
                 /\ e.hops = HopsTo(c, e.v)
           /\ \A v \in Leads(lsdb, c.v) :
                 ~InTree(v) /\ IdOf[v] # IdOf[c.v] =>
                    \E e \in Pushed(c) : e.v = v /\ e.dist = c.dist + Cost(lsdb, c.v, v)
<1>1. c.v \in Vertex /\ c.dist \in Nat /\ lsdb \in Lsdb
  BY DEF TypeOK, Entry
<1> DEFINE P(v) == [v |-> v, dist |-> c.dist + Cost(lsdb, c.v, v), hops |-> HopsTo(c, v)]
<1>2. Pushed(c) = {P(v) : v \in {w \in Leads(lsdb, c.v) : ~InTree(w) /\ IdOf[w] # IdOf[c.v]}}
  BY DEF Pushed
<1>3. ASSUME NEW v \in Leads(lsdb, c.v) PROVE P(v) \in Entry
  <2>1. v \in Vertex /\ Cost(lsdb, c.v, v) \in Nat
    BY <1>1, CostType
  <2>2. HopsTo(c, v) \in SUBSET (Router \cup {Direct})
    BY <1>1, <2>1, HopsType
  <2>q. QED
    BY <1>1, <2>1, <2>2 DEF Entry
<1>4. \A v : P(v).v = v /\ P(v).dist = c.dist + Cost(lsdb, c.v, v) /\ P(v).hops = HopsTo(c, v)
  OBVIOUS
<1> HIDE DEF P
<1>q. QED
  BY <1>2, <1>3, <1>4

LEMMA InitTypes == Init => TypeOK
<1>1. [v |-> Root, dist |-> 0, hops |-> {}] \in Entry
  BY SpfAssumption DEF Entry, Vertex
<1>q. QED
  BY <1>1, SpfAssumption DEF Init, TypeOK

LEMMA PopTypes == ASSUME TypeOK, NEW c \in cand, Pop(c) PROVE TypeOK'
<1>1. c \in Entry /\ c.v \in Vertex /\ IdOf[c.v] \in Keys
  BY SpfAssumption DEF TypeOK, Entry, Keys
<1>2. Pushed(c) \subseteq Entry
  BY <1>1, PushedIs
<1>3. lsdb' \in Lsdb
  BY DEF TypeOK, Pop
<1>4. tree' \in [Keys -> Entry \cup {None}]
  BY <1>1 DEF TypeOK, Pop
<1>5. cand' \subseteq Entry
  BY <1>2 DEF TypeOK, Pop
<1>q. QED
  BY <1>3, <1>4, <1>5 DEF TypeOK

(* A run keeps its types: no distance is negative and no next hop is       *)
(* anything but a router or Direct.                                        *)
THEOREM TypeCorrect == Spec => []TypeOK
<1>1. Init => TypeOK
  BY InitTypes
<1>2. TypeOK /\ [Next]_vars => TypeOK'
  <2>1. CASE UNCHANGED vars
    BY <2>1 DEF vars, TypeOK
  <2>2. CASE Next
    BY <2>2, PopTypes DEF Next
  <2>q. QED
    BY <2>1, <2>2
<1>q. QED
  BY <1>1, <1>2, PTL DEF Spec

-----------------------------------------------------------------------------
(* What a run keeps of the tree and the candidates when no two vertices    *)
(* have the same key.                                                      *)

OneKeyEach == \A u, v \in Vertex : IdOf[u] = IdOf[v] => u = v

Seen == {v \in Vertex : InTree(v)}
Dist(v) == tree[IdOf[v]].dist
RootEntry == [v |-> Root, dist |-> 0, hops |-> {}]
FromRoot(n) == WalksUpTo(lsdb, Root)[n]

Keyed == \A v \in Seen : tree[IdOf[v]] \in Entry /\ tree[IdOf[v]].v = v

RootFirst ==
    \/ Root \in Seen /\ tree[IdOf[Root]] = RootEntry /\ \A e \in cand : e.v # Root
    \/ Seen = {} /\ cand = {RootEntry}

(* A link from a vertex in the tree leads to one that is no farther than   *)
(* the link takes it, in the tree or among the candidates.                 *)
Explored ==
    \A u \in Seen : \A v \in Leads(lsdb, u) :
       \/ v \in Seen /\ Dist(v) <= Dist(u) + Cost(lsdb, u, v)
       \/ \E c \in cand : c.v = v /\ c.dist <= Dist(u) + Cost(lsdb, u, v)

(* No candidate is nearer than a vertex in the tree.                       *)
Frontier == \A v \in Seen : \A c \in cand : Dist(v) <= c.dist

(* Every distance is the length of a walk, with fewer links than there are *)
(* vertices in the tree or at most as many.                                *)
Walked ==
    /\ \A c \in cand : <<c.v, c.dist>> \in FromRoot(Cardinality(Seen))
    /\ \A v \in Seen : <<v, Dist(v)>> \in FromRoot(Cardinality(Seen) - 1)

(* So is what is left of it behind a next hop.                             *)
Starts(e, n) ==
    \A h \in e.hops : \E s \in StartOf(h) \cap Leads(lsdb, Root) : \E x \in Nat :
       <<e.v, x>> \in WalksUpTo(lsdb, s)[n] /\ e.dist = Cost(lsdb, Root, s) + x
HopsWalked ==
    Seen # {} =>
       \A e \in cand \cup {tree[IdOf[v]] : v \in Seen} : Starts(e, Cardinality(Seen) - 1)

SInv == TypeOK /\ Keyed /\ RootFirst /\ Explored /\ Frontier /\ Walked /\ HopsWalked

LEMMA RootEntryType == RootEntry \in Entry /\ RootEntry.v = Root /\ RootEntry.dist = 0 /\ RootEntry.hops = {}
  BY SpfAssumption DEF RootEntry, Entry, Vertex

LEMMA SeenCount ==
    /\ IsFiniteSet(Seen) /\ Cardinality(Seen) \in Nat
    /\ Cardinality(Seen) <= Cardinality(Vertex)
    /\ Seen # {} => Cardinality(Seen) - 1 \in Nat
<1>1. Seen \in SUBSET Vertex
  BY DEF Seen
<1>2. IsFiniteSet(Seen) /\ Cardinality(Seen) <= Cardinality(Vertex)
  BY <1>1, SpfAssumption, FS_Subset
<1>3. Cardinality(Seen) \in Nat
  BY <1>2, FS_CardinalityType
<1>4. Seen # {} => Cardinality(Seen) # 0
  BY <1>2, FS_EmptySet
<1>q. QED
  BY <1>2, <1>3, <1>4

LEMMA InitHolds == Init => SInv
<1> SUFFICES ASSUME Init PROVE SInv
  OBVIOUS
<1>1. TypeOK
  BY InitTypes
<1>2. Seen = {}
  BY DEF Init, Seen, InTree, Keys
<1>3. cand = {RootEntry}
  BY DEF Init, RootEntry
<1>4. Cardinality(Seen) = 0
  BY <1>2, FS_EmptySet
<1>5. <<Root, 0>> \in FromRoot(0)
  BY WalksGrow DEF FromRoot
<1>6. Walked
  BY <1>2, <1>3, <1>4, <1>5, RootEntryType DEF Walked
<1>q. QED
  BY <1>1, <1>2, <1>3, <1>6 DEF SInv, Keyed, RootFirst, Explored, Frontier, HopsWalked

(* A candidate whose vertex is in the tree already is dropped.             *)
LEMMA DropHolds ==
    ASSUME SInv, NEW c \in cand, InTree(c.v), Pop(c)
    PROVE  SInv'
<1>1. lsdb' = lsdb /\ tree' = tree /\ cand' = cand \ {c}
  BY DEF Pop
<1>2. Seen' = Seen /\ c.v \in Seen /\ TypeOK'
  BY <1>1, PopTypes DEF Seen, InTree, SInv, TypeOK, Entry
<1>3. Keyed'
  BY <1>1, <1>2 DEF SInv, Keyed
<1>4. RootFirst'
  BY <1>1, <1>2 DEF SInv, RootFirst
<1>5. Explored'
  <2>1. \A v : Dist(v)' = Dist(v)
    BY <1>1 DEF Dist
  <2>2. SUFFICES ASSUME NEW u \in Seen, NEW v \in Leads(lsdb, u)
                 PROVE  \/ v \in Seen /\ Dist(v) <= Dist(u) + Cost(lsdb, u, v)
                        \/ \E e \in cand' : e.v = v /\ e.dist <= Dist(u) + Cost(lsdb, u, v)
    BY <1>1, <1>2, <2>1 DEF Explored
  <2>3. CASE v \in Seen /\ Dist(v) <= Dist(u) + Cost(lsdb, u, v)
    BY <2>3
  <2>4. ASSUME NEW e \in cand, e.v = v, e.dist <= Dist(u) + Cost(lsdb, u, v)
        PROVE  \/ v \in Seen /\ Dist(v) <= Dist(u) + Cost(lsdb, u, v)
               \/ e \in cand'
    <3>1. CASE e # c
      BY <1>1, <3>1
    <3>2. CASE e = c
      <4>1. Dist(v) <= e.dist /\ v \in Seen
        BY <1>2, <2>4, <3>2 DEF SInv, Frontier
      <4>2. Dist(v) \in Nat /\ Dist(u) \in Nat /\ e.dist \in Nat
        BY <4>1, <2>4 DEF SInv, Keyed, TypeOK, Entry, Dist
      <4>3. Cost(lsdb, u, v) \in Nat
        BY CostType DEF SInv, TypeOK, Seen
      <4>q. QED
        BY <2>4, <4>1, <4>2, <4>3
    <3>q. QED
      BY <3>1, <3>2
  <2>q. QED
    BY <2>3, <2>4 DEF SInv, Explored
<1>6. Frontier'
  BY <1>1, <1>2 DEF SInv, Frontier, Dist
<1>7. Walked'
  BY <1>1, <1>2 DEF SInv, Walked, Dist, FromRoot
<1>8. HopsWalked'
  <2>1. \A e, n : Starts(e, n)' = Starts(e, n)
    BY <1>1 DEF Starts, StartOf
  <2>q. QED
    BY <1>1, <1>2, <2>1 DEF SInv, HopsWalked
<1>q. QED
  BY <1>2, <1>3, <1>4, <1>5, <1>6, <1>7, <1>8 DEF SInv

(* The nearest candidate is put into the tree, the links of its vertex are *)
(* followed.                                                               *)
LEMMA PlaceSees ==
    ASSUME OneKeyEach, SInv, NEW c \in cand, ~InTree(c.v), Pop(c)
    PROVE  /\ c \in Entry /\ c.v \in Vertex /\ c.v \notin Seen
           /\ lsdb' = lsdb /\ cand' = (cand \ {c}) \cup Pushed(c)
           /\ Seen' = Seen \cup {c.v}
           /\ tree'[IdOf[c.v]] = c
           /\ \A v \in Seen : tree'[IdOf[v]] = tree[IdOf[v]]
           /\ Cardinality(Seen') = Cardinality(Seen) + 1
           /\ \A e \in cand : c.dist <= e.dist
<1>1. c \in Entry /\ c.v \in Vertex /\ c.v \notin Seen
  BY DEF SInv, TypeOK, Entry, Seen
<1>2. /\ lsdb' = lsdb /\ cand' = (cand \ {c}) \cup Pushed(c)
      /\ tree' = [tree EXCEPT ![IdOf[c.v]] = c]
      /\ \A e \in cand : c.dist <= e.dist
  BY DEF Pop, Nearest
<1>3. \A v \in Vertex : IdOf[v] \in Keys
  BY DEF Keys
<1>4. tree'[IdOf[c.v]] = c
  BY <1>1, <1>2, <1>3 DEF SInv, TypeOK
<1>5. \A v \in Vertex \ {c.v} : tree'[IdOf[v]] = tree[IdOf[v]]
  BY <1>1, <1>2, <1>3 DEF SInv, TypeOK, OneKeyEach
<1>6. Seen' = Seen \cup {c.v}
  BY <1>1, <1>4, <1>5, NoneIsNoEntry DEF Seen, InTree
<1>7. Cardinality(Seen \cup {c.v}) = Cardinality(Seen) + 1
  BY <1>1, SeenCount, FS_AddElement
<1>8. \A v \in Seen : tree'[IdOf[v]] = tree[IdOf[v]]
  BY <1>1, <1>5 DEF Seen
<1>q. QED
  BY <1>1, <1>2, <1>4, <1>6, <1>7, <1>8

(* What is pushed is new to the tree and no nearer than what was popped.   *)
LEMMA PushedFar ==
    ASSUME SInv, NEW c \in cand, NEW e \in Pushed(c)
    PROVE  /\ e.v \in Vertex /\ e.v # c.v /\ c.dist <= e.dist
           /\ c.dist \in Nat /\ e.dist \in Nat
<1>1. c \in Entry /\ c.v \in Vertex /\ c.dist \in Nat /\ TypeOK
  BY DEF SInv, TypeOK, Entry
<1>2. e.v \in Leads(lsdb, c.v) /\ e.dist = c.dist + Cost(lsdb, c.v, e.v) /\ e.v # c.v
  BY <1>1, PushedIs
<1>3. e.v \in Vertex /\ Cost(lsdb, c.v, e.v) \in Nat
  BY <1>1, <1>2, CostType DEF TypeOK
<1>q. QED
  BY <1>1, <1>2, <1>3

LEMMA SeenType ==
    ASSUME SInv, NEW v \in Seen
    PROVE  v \in Vertex /\ Dist(v) \in Nat
  BY DEF SInv, Keyed, Seen, Entry, Dist

LEMMA PlaceRoot ==
    ASSUME OneKeyEach, SInv, NEW c \in cand, ~InTree(c.v), Pop(c)
    PROVE  RootFirst'
<1>1. ASSUME NEW e \in Pushed(c), Root \in Seen \cup {c.v} PROVE e.v # Root
  <2>1. c \in Entry /\ TypeOK
    BY PlaceSees DEF SInv
  <2>2. ~InTree(e.v) /\ e.v # c.v
    BY <2>1, PushedIs
  <2>q. QED
    BY <1>1, <2>2 DEF Seen
<1>2. CASE Seen # {}
  <2>1. Root \in Seen /\ tree[IdOf[Root]] = RootEntry /\ \A e \in cand : e.v # Root
    BY <1>2 DEF SInv, RootFirst
  <2>q. QED
    BY <1>1, <2>1, PlaceSees DEF RootFirst, RootEntry
<1>3. CASE Seen = {}
  <2>1. c = RootEntry /\ cand = {RootEntry}
    BY <1>3 DEF SInv, RootFirst
  <2>q. QED
    BY <1>1, <2>1, PlaceSees, RootEntryType DEF RootFirst, RootEntry
<1>q. QED
  BY <1>2, <1>3

LEMMA PlaceExplored ==
    ASSUME OneKeyEach, SInv, NEW c \in cand, ~InTree(c.v), Pop(c)
    PROVE  Explored'
<1> DEFINE Reached1(v, x) ==
             \/ v \in Seen' /\ Dist(v)' <= x
             \/ \E e \in cand' : e.v = v /\ e.dist <= x
<1>0. /\ TypeOK /\ c \in Entry /\ c.dist \in Nat /\ c.v \in Vertex
      /\ c.v \notin Seen /\ Seen' = Seen \cup {c.v} /\ lsdb' = lsdb
      /\ cand' = (cand \ {c}) \cup Pushed(c) /\ \A e \in cand : c.dist <= e.dist /\ e.dist \in Nat
  BY PlaceSees DEF SInv, TypeOK, Entry
<1>1. Dist(c.v)' = c.dist /\ \A v \in Seen : Dist(v)' = Dist(v)
  BY PlaceSees DEF Dist
<1>2. ASSUME NEW u \in Seen, NEW v \in Leads(lsdb, u)
      PROVE  Reached1(v, Dist(u) + Cost(lsdb, u, v))
  <2>1. Dist(u) \in Nat /\ Cost(lsdb, u, v) \in Nat
    BY <1>0, SeenType, CostType DEF TypeOK
  <2> DEFINE x == Dist(u) + Cost(lsdb, u, v)
  <2>2. CASE v \in Seen /\ Dist(v) <= x
    BY <1>0, <1>1, <2>2
  <2>3. ASSUME NEW e \in cand, e.v = v, e.dist <= x PROVE Reached1(v, x)
    <3>1. CASE e # c
      BY <1>0, <2>3, <3>1
    <3>2. CASE e = c
      BY <1>0, <1>1, <2>3, <3>2
    <3>q. QED
      BY <3>1, <3>2
  <2> HIDE DEF Reached1
  <2>q. QED
    BY <2>2, <2>3 DEF SInv, Explored
<1>3. ASSUME NEW v \in Leads(lsdb, c.v)
      PROVE  Reached1(v, c.dist + Cost(lsdb, c.v, v))
  <2> DEFINE x == c.dist + Cost(lsdb, c.v, v)
  <2>1. v \in Vertex /\ v # c.v /\ Cost(lsdb, c.v, v) \in Nat
    <3>1. v # c.v
      BY DEF Leads
    <3>q. QED
      BY <1>0, <3>1, CostType DEF TypeOK
  <2>2. CASE v \in Seen
    <3>1. Dist(v) <= c.dist /\ Dist(v) \in Nat
      BY <2>2, SeenType DEF SInv, Frontier
    <3>2. Dist(v)' <= x
      BY <1>0, <1>1, <2>1, <2>2, <3>1
    <3>q. QED
      BY <1>0, <2>2, <3>2
  <2>3. CASE v \notin Seen
    <3>1. ~InTree(v) /\ IdOf[v] # IdOf[c.v]
      BY <1>0, <2>1, <2>3 DEF Seen, OneKeyEach
    <3>2. PICK e \in Pushed(c) : e.v = v /\ e.dist = x
      BY <1>0, <3>1, PushedIs
    <3>3. e.dist <= x
      BY <1>0, <2>1, <3>2
    <3>q. QED
      BY <1>0, <3>2, <3>3
  <2>q. QED
    BY <2>2, <2>3
<1>4. SUFFICES ASSUME NEW u \in Seen', NEW v \in Leads(lsdb, u)
               PROVE  Reached1(v, Dist(u)' + Cost(lsdb, u, v))
  BY <1>0 DEF Explored
<1> HIDE DEF Reached1
<1>q. QED
  BY <1>0, <1>1, <1>2, <1>3

LEMMA PlaceFrontier ==
    ASSUME OneKeyEach, SInv, NEW c \in cand, ~InTree(c.v), Pop(c)
    PROVE  Frontier'
<1>0. /\ c.dist \in Nat /\ Seen' = Seen \cup {c.v} /\ Dist(c.v)' = c.dist
      /\ \A v \in Seen : Dist(v)' = Dist(v) /\ Dist(v) <= c.dist /\ Dist(v) \in Nat
      /\ cand' = (cand \ {c}) \cup Pushed(c)
  BY PlaceSees, SeenType DEF Dist, SInv, TypeOK, Entry, Frontier
<1>1. ASSUME NEW e \in cand' PROVE c.dist <= e.dist /\ e.dist \in Nat
  BY <1>0, PlaceSees, PushedFar DEF SInv, TypeOK, Entry
<1>2. ASSUME NEW v \in Seen', NEW e \in cand' PROVE Dist(v)' <= e.dist
  <2>1. Dist(v)' <= c.dist /\ Dist(v)' \in Nat
    BY <1>0
  <2>q. QED
    BY <1>0, <1>1, <2>1
<1>q. QED
  BY <1>2 DEF Frontier

LEMMA PlaceWalked ==
    ASSUME OneKeyEach, SInv, NEW c \in cand, ~InTree(c.v), Pop(c)
    PROVE  Walked'
<1> DEFINE k == Cardinality(Seen)
           w == WalksUpTo(lsdb, Root)
<1>0. /\ k \in Nat /\ Cardinality(Seen') = k + 1 /\ (k + 1) - 1 = k /\ lsdb' = lsdb
      /\ w[k] \subseteq w[k + 1]
      /\ Seen # {} => k - 1 \in Nat /\ w[k - 1] \subseteq w[k]
  <2>1. k \in Nat /\ k + 1 \in Nat /\ (k + 1) - 1 = k /\ k <= k + 1
    BY SeenCount
  <2>2. Seen # {} => k - 1 \in Nat /\ k - 1 <= k
    BY SeenCount
  <2> HIDE DEF k
  <2>q. QED
    BY <2>1, <2>2, WalksKept, PlaceSees DEF k
<1>1. \A e \in cand : <<e.v, e.dist>> \in w[k]
  BY DEF SInv, Walked, FromRoot
<1>2. ASSUME NEW e \in cand' PROVE <<e.v, e.dist>> \in w[k + 1]
  <2>1. CASE e \in cand
    BY <1>0, <1>1, <2>1
  <2>2. CASE e \in Pushed(c)
    <3>1. e.v \in Leads(lsdb, c.v) /\ e.dist = c.dist + Cost(lsdb, c.v, e.v)
      BY <2>2, PlaceSees, PushedIs DEF SInv
    <3>2. <<c.v, c.dist>> \in w[k]
      BY <1>1
    <3> HIDE DEF k
    <3>q. QED
      BY <1>0, <3>1, <3>2, WalkOn
  <2>q. QED
    BY <2>1, <2>2, PlaceSees
<1>3. ASSUME NEW v \in Seen' PROVE <<v, Dist(v)'>> \in w[k]
  <2>1. CASE v = c.v
    BY <1>1, <2>1, PlaceSees DEF Dist
  <2>2. CASE v \in Seen
    <3>1. <<v, Dist(v)>> \in w[k - 1] /\ Dist(v)' = Dist(v)
      BY <2>2, PlaceSees DEF SInv, Walked, FromRoot, Dist
    <3>q. QED
      BY <1>0, <2>2, <3>1
  <2>q. QED
    BY <2>1, <2>2, PlaceSees
<1>4. \A n : FromRoot(n)' = w[n]
  BY <1>0 DEF FromRoot
<1> HIDE DEF k, w
<1>q. QED
  BY <1>0, <1>2, <1>3, <1>4 DEF Walked

(* A next hop starts a walk to a vertex that is linked to the root, and to *)
(* one behind a vertex that it leads to.                                   *)
LEMMA StartsLonger ==
    ASSUME NEW e, NEW m \in Nat, NEW n \in Nat, m <= n, Starts(e, m)
    PROVE  Starts(e, n)
<1>1. \A s : WalksUpTo(lsdb, s)[m] \subseteq WalksUpTo(lsdb, s)[n]
  BY WalksKept
<1>q. QED
  BY <1>1 DEF Starts

LEMMA DirectStarts ==
    ASSUME NEW v \in Leads(lsdb, Root), NEW h \in DirectHops(v)
    PROVE  v \in StartOf(h)
<1>1. v \in Vertex /\ v \in lsdb.near
  BY DEF Leads, DirectHops
<1>2. CASE v \in Router
  BY <1>1, <1>2, SpfAssumption DEF DirectHops, StartOf, Direct
<1>3. CASE v \notin Router
  BY <1>1, <1>3 DEF DirectHops, StartOf, Vertex
<1>q. QED
  BY <1>2, <1>3

LEMMA PushedStarts ==
    ASSUME OneKeyEach, SInv, NEW c \in cand, ~InTree(c.v), Pop(c), NEW e \in Pushed(c)
    PROVE  Starts(e, Cardinality(Seen))
<1> DEFINE k == Cardinality(Seen)
<1>0. c \in Entry /\ TypeOK /\ lsdb \in Lsdb /\ k \in Nat /\ Root \in Vertex
  BY PlaceSees, SeenCount, SpfAssumption DEF SInv, TypeOK, Vertex
<1>1. e.v \in Leads(lsdb, c.v) /\ e.dist = c.dist + Cost(lsdb, c.v, e.v) /\ e.hops = HopsTo(c, e.v)
  BY <1>0, PushedIs
<1>2. c.v = Root => c = RootEntry
  BY DEF SInv, RootFirst
<1>3. CASE c.v = Root
  <2>1. SUFFICES ASSUME NEW h \in e.hops
                 PROVE  /\ e.v \in StartOf(h) \cap Leads(lsdb, Root)
                        /\ <<e.v, 0>> \in WalksUpTo(lsdb, e.v)[k]
                        /\ e.dist = Cost(lsdb, Root, e.v) + 0 /\ 0 \in Nat
    BY DEF Starts
  <2>2. h \in DirectHops(e.v)
    BY <1>1, <1>2, <1>3, RootEntryType DEF HopsTo
  <2>3. e.v \in Leads(lsdb, Root) /\ e.v \in StartOf(h)
    BY <1>1, <1>3, <2>2, DirectStarts
  <2>4. <<e.v, 0>> \in WalksUpTo(lsdb, e.v)[k]
    <3>1. <<e.v, 0>> \in WalksUpTo(lsdb, e.v)[0]
      BY WalksGrow
    <3>2. 0 <= k
      BY <1>0
    <3> HIDE DEF k
    <3>q. QED
      BY <1>0, <3>1, <3>2, WalksKept
  <2>5. Cost(lsdb, Root, e.v) \in Nat /\ e.dist = 0 + Cost(lsdb, Root, e.v)
    BY <1>0, <1>1, <1>2, <1>3, <2>3, CostType, RootEntryType
  <2>q. QED
    BY <2>3, <2>4, <2>5
<1>4. CASE c.v # Root
  <2>1. Seen # {}
    BY <1>4, RootEntryType DEF SInv, RootFirst
  <2>2. k - 1 \in Nat /\ (k - 1) + 1 = k /\ Starts(c, k - 1)
    BY <2>1, SeenCount DEF SInv, HopsWalked
  <2>3. e.hops = c.hops
    BY <1>1, <1>4 DEF HopsTo
  <2>4. SUFFICES ASSUME NEW h \in c.hops
                 PROVE  \E s \in StartOf(h) \cap Leads(lsdb, Root) : \E x \in Nat :
                           <<e.v, x>> \in WalksUpTo(lsdb, s)[k] /\ e.dist = Cost(lsdb, Root, s) + x
    BY <2>3 DEF Starts
  <2>5. PICK s \in StartOf(h) \cap Leads(lsdb, Root) : \E x \in Nat :
           <<c.v, x>> \in WalksUpTo(lsdb, s)[k - 1] /\ c.dist = Cost(lsdb, Root, s) + x
    BY <2>2 DEF Starts
  <2>6. PICK x \in Nat : <<c.v, x>> \in WalksUpTo(lsdb, s)[k - 1] /\ c.dist = Cost(lsdb, Root, s) + x
    BY <2>5
  <2> DEFINE y == x + Cost(lsdb, c.v, e.v)
  <2>7. <<e.v, y>> \in WalksUpTo(lsdb, s)[k]
    <3>1. <<e.v, y>> \in WalksUpTo(lsdb, s)[(k - 1) + 1]
      <4> HIDE DEF k
      <4>q. QED
        BY <1>1, <2>2, <2>6, WalkOn
    <3>q. QED
      BY <2>2, <3>1
  <2>8. Cost(lsdb, Root, s) \in Nat /\ Cost(lsdb, c.v, e.v) \in Nat
    BY <1>0, <1>1, CostType DEF Entry
  <2>9. e.dist = Cost(lsdb, Root, s) + y /\ y \in Nat
    BY <1>1, <2>6, <2>8
  <2> HIDE DEF y, k
  <2>q. QED
    BY <2>5, <2>7, <2>9
<1>q. QED
  BY <1>3, <1>4

LEMMA PlaceHops ==
    ASSUME OneKeyEach, SInv, NEW c \in cand, ~InTree(c.v), Pop(c)
    PROVE  HopsWalked'
<1> DEFINE k == Cardinality(Seen)
<1>0. k \in Nat /\ Cardinality(Seen') - 1 = k /\ lsdb' = lsdb
  BY PlaceSees, SeenCount
<1>1. \A e, n : Starts(e, n)' = Starts(e, n)
  BY <1>0 DEF Starts, StartOf
<1>2. ASSUME NEW e \in cand \cup {tree[IdOf[v]] : v \in Seen} PROVE Starts(e, k)
  <2>1. CASE Seen = {}
    <3>1. e = RootEntry
      BY <2>1 DEF SInv, RootFirst
    <3>q. QED
      BY <3>1, RootEntryType DEF Starts
  <2>2. CASE Seen # {}
    <3>1. k - 1 \in Nat /\ k - 1 <= k /\ Starts(e, k - 1)
      BY <2>2, SeenCount DEF SInv, HopsWalked
    <3> HIDE DEF k
    <3>q. QED
      BY <1>0, <3>1, StartsLonger
  <2>q. QED
    BY <2>1, <2>2
<1>3. ASSUME NEW e \in cand' \cup {tree'[IdOf[v]] : v \in Seen'} PROVE Starts(e, k)
  <2>1. \/ e \in cand \cup {tree[IdOf[v]] : v \in Seen}
        \/ e \in Pushed(c)
    BY PlaceSees
  <2>q. QED
    BY <1>2, <2>1, PushedStarts
<1> HIDE DEF k
<1>q. QED
  BY <1>0, <1>1, <1>3 DEF HopsWalked

LEMMA PlaceHolds ==
    ASSUME OneKeyEach, SInv, NEW c \in cand, ~InTree(c.v), Pop(c)
    PROVE  SInv'
<1>1. TypeOK'
  BY PopTypes DEF SInv
<1>2. Keyed'
  BY PlaceSees DEF SInv, Keyed
<1>q. QED
  BY <1>1, <1>2, PlaceRoot, PlaceExplored, PlaceFrontier, PlaceWalked, PlaceHops DEF SInv

-----------------------------------------------------------------------------
(* What follows from it.                                                   *)

(* Every walk is at least as long as the distance of a vertex in the tree, *)
(* or there is a candidate that is no farther.                             *)
LEMMA NoShorterWalk ==
    ASSUME SInv, NEW n \in Nat, NEW p \in FromRoot(n)
    PROVE  \/ p[1] \in Seen /\ Dist(p[1]) <= p[2]
           \/ \E c \in cand : c.dist <= p[2]
<1> DEFINE Holds(q) == \/ q[1] \in Seen /\ Dist(q[1]) <= q[2]
                       \/ \E c \in cand : c.dist <= q[2]
           S == {k \in Nat : \A q \in FromRoot(k) : Holds(q)}
<1>0. lsdb \in Lsdb /\ Root \in Vertex
  BY SpfAssumption DEF SInv, TypeOK, Vertex
<1>1. 0 \in S
  <2>1. FromRoot(0) = {<<Root, 0>>}
    BY WalksGrow DEF FromRoot
  <2>2. Holds(<<Root, 0>>)
    BY RootEntryType DEF SInv, RootFirst, Dist
  <2> HIDE DEF Holds
  <2>q. QED
    BY <2>1, <2>2
<1>2. ASSUME NEW k \in S PROVE k + 1 \in S
  <2> SUFFICES ASSUME NEW q \in FromRoot(k + 1) PROVE Holds(q)
    OBVIOUS
  <2>1. k \in Nat /\ \A r \in FromRoot(k) : Holds(r) /\ r[1] \in Vertex /\ r[2] \in Nat
    BY <1>0, WalkType DEF FromRoot
  <2>2. ASSUME NEW r \in FromRoot(k), NEW v \in Leads(lsdb, r[1]),
               q = <<v, r[2] + Cost(lsdb, r[1], v)>>
        PROVE  Holds(q)
    <3> DEFINE x == Cost(lsdb, r[1], v)
    <3>1. q[1] = v /\ q[2] = r[2] + x /\ x \in Nat /\ r[2] \in Nat
      BY <1>0, <2>1, <2>2, CostType
    <3>2. \A e \in cand : e.dist \in Nat
      BY DEF SInv, TypeOK, Entry
    <3>3. ASSUME NEW e \in cand, e.dist <= r[2] PROVE Holds(q)
      <4>1. e.dist <= q[2]
        BY <3>1, <3>2, <3>3
      <4>q. QED
        BY <4>1
    <3>4. CASE r[1] \in Seen /\ Dist(r[1]) <= r[2]
      <4>1. Dist(r[1]) \in Nat
        BY <3>4, SeenType
      <4>2. CASE v \in Seen /\ Dist(v) <= Dist(r[1]) + x
        <5>1. Dist(v) \in Nat
          BY <4>2, SeenType
        <5>2. Dist(v) <= q[2]
          BY <3>1, <3>4, <4>1, <4>2, <5>1
        <5>q. QED
          BY <3>1, <4>2, <5>2
      <4>3. ASSUME NEW e \in cand, e.dist <= Dist(r[1]) + x PROVE Holds(q)
        <5>1. e.dist <= q[2]
          BY <3>1, <3>2, <3>4, <4>1, <4>3
        <5>q. QED
          BY <5>1
      <4> HIDE DEF Holds
      <4>q. QED
        BY <3>4, <4>2, <4>3 DEF SInv, Explored
    <3>5. Holds(r)
      BY <2>1
    <3>q. QED
      BY <3>3, <3>4, <3>5
  <2> HIDE DEF Holds, S
  <2>q. QED
    BY <2>1, <2>2, WalkBack DEF FromRoot
<1> HIDE DEF S
<1>3. S = Nat
  <2>1. S \in SUBSET Nat
    BY DEF S
  <2>q. QED
    BY <1>1, <1>2, <2>1, Induction
<1>q. QED
  BY <1>3 DEF S

LEMMA SeenShortest ==
    ASSUME SInv, NEW v \in Seen, NEW n \in Nat, NEW y, <<v, y>> \in FromRoot(n)
    PROVE  Dist(v) <= y
<1> DEFINE p == <<v, y>>
<1>1. p \in FromRoot(n) /\ p[1] = v /\ p[2] = y
  OBVIOUS
<1> HIDE DEF p
<1>2. lsdb \in Lsdb /\ Root \in Vertex
  BY SpfAssumption DEF SInv, TypeOK, Vertex
<1>3. y \in Nat
  BY <1>1, <1>2, WalkType DEF FromRoot
<1>4. CASE Dist(v) <= y
  BY <1>4
<1>5. ASSUME NEW c \in cand, c.dist <= y PROVE Dist(v) <= y
  <2>1. Dist(v) <= c.dist /\ Dist(v) \in Nat /\ c.dist \in Nat
    BY SeenType DEF SInv, Frontier, TypeOK, Entry
  <2>q. QED
    BY <1>3, <1>5, <2>1
<1>q. QED
  BY <1>1, <1>4, <1>5, NoShorterWalk

LEMMA SeenIsPlaced == ASSUME SInv, NEW v \in Vertex PROVE Placed(v) <=> v \in Seen
  BY DEF SInv, Keyed, Seen, Placed

LEMMA SeenWalked ==
    ASSUME SInv, NEW v \in Seen
    PROVE  <<v, Dist(v)>> \in Walks(lsdb, Root)
<1> DEFINE m == Cardinality(Seen) - 1
           n == Cardinality(Vertex) - 1
<1>1. m \in Nat /\ n \in Nat /\ m <= n
  BY SeenCount, VertexCount
<1>2. <<v, Dist(v)>> \in FromRoot(m)
  BY DEF SInv, Walked
<1> HIDE DEF m, n
<1>3. FromRoot(m) \subseteq FromRoot(n)
  BY <1>1, WalksKept DEF FromRoot
<1>q. QED
  BY <1>2, <1>3 DEF n, Walks, FromRoot

LEMMA WalksIsFromRoot ==
    Walks(lsdb, Root) = FromRoot(Cardinality(Vertex) - 1) /\ Cardinality(Vertex) - 1 \in Nat
  BY VertexCount DEF Walks, FromRoot

LEMMA DistanceFromRoot ==
    ASSUME SInv, NEW v \in Seen
    PROVE  DistancesFrom(Root)[v] = Dist(v) /\ Dist(v) < Far
<1>1. <<v, Dist(v)>> \in Walks(lsdb, Root)
  BY SeenWalked
<1>2. \A y \in Nat : <<v, y>> \in Walks(lsdb, Root) => Dist(v) <= y
  BY SeenShortest, WalksIsFromRoot
<1>3. lsdb \in Lsdb /\ Root \in Vertex /\ v \in Vertex
  BY SpfAssumption, SeenType DEF SInv, TypeOK, Vertex
<1>q. QED
  BY <1>1, <1>2, <1>3, DistanceIs

LEMMA ShortestHolds == SInv => TreeIsShortest
<1> SUFFICES ASSUME SInv, NEW v \in Vertex, Placed(v)
             PROVE  tree[IdOf[v]].dist = DistancesFrom(Root)[v]
  BY DEF TreeIsShortest
<1>q. QED
  BY SeenIsPlaced, DistanceFromRoot DEF Dist

LEMMA ReachesHolds == SInv => ReachesAll
<1> SUFFICES ASSUME SInv, cand = {}, NEW v \in Vertex
             PROVE  Placed(v) <=> DistancesFrom(Root)[v] < Far
  BY DEF ReachesAll
<1>1. CASE v \in Seen
  BY <1>1, SeenIsPlaced, DistanceFromRoot
<1>2. CASE v \notin Seen
  <2>1. \A y : <<v, y>> \notin Walks(lsdb, Root)
    <3>1. SUFFICES ASSUME NEW p \in Walks(lsdb, Root), p[1] = v PROVE FALSE
      OBVIOUS
    <3>q. QED
      BY <1>2, <3>1, NoShorterWalk, WalksIsFromRoot
  <2>2. lsdb \in Lsdb /\ Root \in Vertex
    BY SpfAssumption DEF SInv, TypeOK, Vertex
  <2>3. DistancesFrom(Root)[v] = Far
    BY <2>1, <2>2, DistanceFar
  <2>q. QED
    BY <1>2, <2>3, SeenIsPlaced, FarType
<1>q. QED
  BY <1>1, <1>2

LEMMA HopsHold == SInv => NextHopsLead
<1> SUFFICES ASSUME SInv, NEW v \in Vertex \ {Root}, Placed(v), NEW h \in tree[IdOf[v]].hops
             PROVE  \E s \in StartOf(h) :
                       /\ s \in Leads(lsdb, Root)
                       /\ Cost(lsdb, Root, s) + [z \in Leads(lsdb, Root) |-> DistancesFrom(z)][s][v]
                            = tree[IdOf[v]].dist
  BY DEF NextHopsLead
<1> DEFINE k == Cardinality(Seen) - 1
           n == Cardinality(Vertex) - 1
           e == tree[IdOf[v]]
<1>1. v \in Seen /\ e.v = v /\ e.dist = Dist(v) /\ Dist(v) \in Nat
  BY SeenIsPlaced, SeenType DEF SInv, Keyed, Dist
<1>2. k \in Nat /\ n \in Nat /\ n + 1 \in Nat /\ k <= n
  BY <1>1, SeenCount, VertexCount
<1>3. Starts(e, k)
  BY <1>1 DEF SInv, HopsWalked
<1>4. PICK s \in StartOf(h) \cap Leads(lsdb, Root) : \E x \in Nat :
         <<v, x>> \in WalksUpTo(lsdb, s)[k] /\ Dist(v) = Cost(lsdb, Root, s) + x
  BY <1>1, <1>3 DEF Starts
<1>5. PICK x \in Nat : <<v, x>> \in WalksUpTo(lsdb, s)[k] /\ Dist(v) = Cost(lsdb, Root, s) + x
  BY <1>4
<1>6. lsdb \in Lsdb /\ Root \in Vertex /\ s \in Vertex /\ Cost(lsdb, Root, s) \in Nat
  BY SpfAssumption, CostType DEF SInv, TypeOK, Vertex
<1>7. <<v, x>> \in Walks(lsdb, s)
  <2> HIDE DEF k, n
  <2>1. <<v, x>> \in WalksUpTo(lsdb, s)[n]
    BY <1>2, <1>5, WalksKept
  <2>q. QED
    BY <2>1 DEF Walks, n
<1>8. ASSUME NEW y \in Nat, <<v, y>> \in Walks(lsdb, s) PROVE x <= y
  <2>1. <<v, Cost(lsdb, Root, s) + y>> \in FromRoot(n + 1)
    <3>1. <<v, y>> \in WalksUpTo(lsdb, s)[n]
      BY <1>8 DEF Walks
    <3> HIDE DEF n
    <3>q. QED
      BY <1>2, <1>6, <3>1, WalkFrom DEF FromRoot
  <2>2. Dist(v) <= Cost(lsdb, Root, s) + y
    <3> HIDE DEF n
    <3>q. QED
      BY <1>1, <1>2, <2>1, SeenShortest
  <2>q. QED
    BY <1>5, <1>6, <2>2
<1>9. DistancesFrom(s)[v] = x
  BY <1>6, <1>7, <1>8, DistanceIs
<1>q. QED
  BY <1>1, <1>4, <1>5, <1>9

(* What each pop of calculate keeps: the tree is explored, the candidates  *)
(* are its frontier and all of them stand for walks from the root.         *)
THEOREM Invariance == ASSUME OneKeyEach PROVE Spec => []SInv
<1>1. Init => SInv
  BY InitHolds
<1>2. SInv /\ [Next]_vars => SInv'
  <2>1. ASSUME SInv, UNCHANGED vars PROVE SInv'
    <3>1. lsdb' = lsdb /\ tree' = tree /\ cand' = cand
      BY <2>1 DEF vars
    <3>2. Seen' = Seen /\ \A v : Dist(v)' = Dist(v) /\ \A n : FromRoot(n)' = FromRoot(n)
      BY <3>1 DEF Seen, InTree, Dist, FromRoot
    <3>3. \A e, n : Starts(e, n)' = Starts(e, n)
      BY <3>1 DEF Starts, StartOf
    <3>4. TypeOK' /\ Keyed' /\ RootFirst' /\ Frontier'
      BY <2>1, <3>1, <3>2 DEF SInv, TypeOK, Keyed, RootFirst, Frontier
    <3>5. Explored' /\ Walked' /\ HopsWalked'
      BY <2>1, <3>1, <3>2, <3>3 DEF SInv, Explored, Walked, HopsWalked
    <3>q. QED
      BY <3>4, <3>5 DEF SInv
  <2>2. CASE Next
    BY <2>2, PlaceHolds, DropHolds DEF Next
  <2>q. QED
    BY <2>1, <2>2
<1>q. QED
  BY <1>1, <1>2, PTL DEF Spec

(* A vertex that is put into the tree is at its shortest distance, however *)
(* many stale entries of it the heap holds, whatever links are one-way and *)
(* whichever of several equally near candidates is popped.                 *)
THEOREM DijkstraIsRight == ASSUME OneKeyEach PROVE Spec => []TreeIsShortest
  BY Invariance, ShortestHolds, PTL

(* calculate leaves out no vertex that the LSAs lead to, and adds none.    *)
THEOREM TreeIsComplete == ASSUME OneKeyEach PROVE Spec => []ReachesAll
  BY Invariance, ReachesHolds, PTL

(* _get_direct_nexthops and what is inherited of it: a packet that is sent *)
(* to a next hop is on a shortest path.                                    *)
THEOREM HopsAreOnShortestPaths == ASSUME OneKeyEach PROVE Spec => []NextHopsLead
  BY Invariance, HopsHold, PTL

-----------------------------------------------------------------------------
(* Extraction: what the finished tree says of the distances.               *)

Finished == SInv /\ cand = {}

LEMMA TreeSays ==
    ASSUME Finished, NEW D, D = DistancesFrom(Root), NEW v \in Vertex
    PROVE  /\ InTree(v) <=> D[v] < Far
           /\ InTree(v) => /\ tree[IdOf[v]] \in Entry /\ tree[IdOf[v]].v = v
                           /\ tree[IdOf[v]].dist = D[v] /\ D[v] \in Nat
                           /\ tree[IdOf[v]].hops \in SUBSET Nat
<1>1. InTree(v) <=> v \in Seen
  BY DEF Seen
<1>2. InTree(v) <=> D[v] < Far
  BY <1>1, ReachesHolds, SeenIsPlaced DEF Finished, ReachesAll
<1>3. ASSUME v \in Seen
      PROVE  /\ tree[IdOf[v]] \in Entry /\ tree[IdOf[v]].v = v
             /\ tree[IdOf[v]].dist = D[v]
  BY <1>3, DistanceFromRoot DEF Finished, SInv, Keyed, Dist
<1>4. \A e \in Entry : e.dist \in Nat /\ e.hops \in SUBSET Nat
  <2>1. Router \cup {Direct} \subseteq Nat
    BY SpfAssumption DEF Direct
  <2>q. QED
    BY <2>1 DEF Entry
<1>5. ASSUME v \in Seen
      PROVE  /\ tree[IdOf[v]] \in Entry /\ tree[IdOf[v]].v = v
             /\ tree[IdOf[v]].dist = D[v] /\ D[v] \in Nat
             /\ tree[IdOf[v]].hops \in SUBSET Nat
  BY <1>3, <1>4, <1>5
<1>q. QED
  BY <1>1, <1>2, <1>5, Zenon

LEMMA PlacingsAre ==
    ASSUME Finished, NEW e
    PROVE  e \in Placings <=> \E v \in Vertex : InTree(v) /\ e = tree[IdOf[v]]
<1>1. ASSUME NEW i \in Keys, tree[i] # None PROVE \E v \in Vertex : InTree(v) /\ tree[i] = tree[IdOf[v]]
  BY <1>1 DEF Keys, InTree
<1>2. ASSUME NEW v \in Vertex, InTree(v) PROVE tree[IdOf[v]] \in Placings
  BY <1>2 DEF Keys, InTree, Placings
<1>q. QED
  BY <1>1, <1>2 DEF Placings

LEMMA PathIs ==
    ASSUME NEW t \in 1..4, NEW c \in Nat, NEW c2 \in Nat, NEW h \in SUBSET Nat, t # 4 => c2 = 0
    PROVE  /\ Path(t, c, c2, h) \in Proper /\ Path(t, c, c2, h).type = t
           /\ Path(t, c, c2, h).cost = c /\ Path(t, c, c2, h).cost2 = c2
           /\ Path(t, c, c2, h).hops = h
<1>1. Path(t, c, c2, h) \in Candidate
  BY DEF Path, Candidate
<1>2. /\ Path(t, c, c2, h).type = t /\ Path(t, c, c2, h).cost = c
      /\ Path(t, c, c2, h).cost2 = c2 /\ Path(t, c, c2, h).hops = h
  BY DEF Path
<1>q. QED
  BY <1>1, <1>2 DEF Proper

LEMMA ToIs == ASSUME NEW d, NEW r PROVE To(d, r).to = d /\ To(d, r).route = r
  BY DEF To

(* What is in the sets of the model and of the reference, one by one.      *)
LEMMA InIntra ==
    ASSUME NEW q
    PROVE  q \in Intra <=>
             \/ \E e \in Placings : e.v \in Router /\ \E s \in StubOf[e.v] :
                   q = To(s.to, Path(1, e.dist + s.metric, 0, e.hops))
             \/ \E e \in Placings : e.v \in Net /\ q = To(PlaceOf[e.v], Path(1, e.dist, 0, e.hops))
<1> DEFINE F(e) == {To(s.to, Path(1, e.dist + s.metric, 0, e.hops)) : s \in StubOf[e.v]}
           U == UNION {F(e) : e \in {p \in Placings : p.v \in Router}}
           N == {To(PlaceOf[e.v], Path(1, e.dist, 0, e.hops)) : e \in {p \in Placings : p.v \in Net}}
<1>1. q \in N <=> \E e \in Placings : e.v \in Net /\ q = To(PlaceOf[e.v], Path(1, e.dist, 0, e.hops))
  OBVIOUS
<1>2. \A e : q \in F(e) <=>
               \E s \in StubOf[e.v] : q = To(s.to, Path(1, e.dist + s.metric, 0, e.hops))
  OBVIOUS
<1>3. Intra = U \cup N
  BY Zenon DEF Intra
<1> HIDE DEF F
<1>4. q \in U <=> \E e \in Placings : e.v \in Router /\ q \in F(e)
  OBVIOUS
<1> HIDE DEF U, N
<1>q. QED
  BY <1>1, <1>2, <1>3, <1>4, Zenon

LEMMA InIntraCosts ==
    ASSUME NEW d, NEW D, NEW c
    PROVE  c \in IntraCosts(d, D) <=>
             \/ \E r \in Router : D[r] < Far /\ \E s \in StubOf[r] : s.to = d /\ c = D[r] + s.metric
             \/ \E n \in Net : D[n] < Far /\ PlaceOf[n] = d /\ c = D[n]
<1> DEFINE I == {q \in Router : D[q] < Far}
           U == UNION {{D[r] + s.metric : s \in {t \in StubOf[r] : t.to = d}} : r \in I}
           N == {D[n] : n \in {m \in Net : D[m] < Far /\ PlaceOf[m] = d}}
<1>1. c \in N <=> \E n \in Net : D[n] < Far /\ PlaceOf[n] = d /\ c = D[n]
  OBVIOUS
<1>2. \A r : c \in {D[r] + s.metric : s \in {t \in StubOf[r] : t.to = d}} 
       <=> \E s \in StubOf[r] : s.to = d /\ c = D[r] + s.metric
  BY Zenon
<1>3. c \in U <=> \E r \in I : c \in {D[r] + s.metric : s \in {t \in StubOf[r] : t.to = d}}
  BY Zenon
<1>4. c \in U <=> \E r \in Router : D[r] < Far /\ \E s \in StubOf[r] : s.to = d /\ c = D[r] + s.metric
  BY <1>2, <1>3, Zenon
<1>5. IntraCosts(d, D) = U \cup N
  BY Zenon DEF IntraCosts
<1>q. QED
  BY <1>1, <1>4, <1>5, Zenon

(* Routes within the area are those of the reference.                      *)
IntraRoute(q, D) ==
    /\ q.route \in Proper /\ q.route.type = 1 /\ q.route.cost2 = 0
    /\ q.to \in Place /\ q.route.cost \in IntraCosts(q.to, D)

LEMMA IntraSound ==
    ASSUME Finished, NEW D, D = DistancesFrom(Root), NEW q \in Intra
    PROVE  IntraRoute(q, D)
<1>1. ASSUME NEW e \in Placings, e.v \in Router, NEW s \in StubOf[e.v],
             q = To(s.to, Path(1, e.dist + s.metric, 0, e.hops))
      PROVE  IntraRoute(q, D)
  <2>1. PICK v \in Vertex : InTree(v) /\ e = tree[IdOf[v]]
    BY PlacingsAre
  <2>2. e.v = v /\ e.dist = D[v] /\ D[v] \in Nat /\ D[v] < Far /\ e.hops \in SUBSET Nat
    BY <2>1, TreeSays
  <2>3. s.to \in Place /\ s.metric \in Nat
    BY <1>1, ExtractionAssumption
  <2>4. D[v] + s.metric \in IntraCosts(s.to, D)
    BY <1>1, <2>2, InIntraCosts, Zenon
  <2>5. e.dist + s.metric \in Nat
    BY <2>2, <2>3
  <2>6. /\ Path(1, e.dist + s.metric, 0, e.hops) \in Proper
        /\ Path(1, e.dist + s.metric, 0, e.hops).type = 1
        /\ Path(1, e.dist + s.metric, 0, e.hops).cost = e.dist + s.metric
        /\ Path(1, e.dist + s.metric, 0, e.hops).cost2 = 0
    BY <2>2, <2>5, PathIs
  <2>7. q.to = s.to /\ q.route = Path(1, e.dist + s.metric, 0, e.hops)
    BY <1>1, ToIs
  <2>q. QED
    BY <2>2, <2>3, <2>4, <2>6, <2>7 DEF IntraRoute
<1>2. ASSUME NEW e \in Placings, e.v \in Net, q = To(PlaceOf[e.v], Path(1, e.dist, 0, e.hops))
      PROVE  IntraRoute(q, D)
  <2>1. PICK v \in Vertex : InTree(v) /\ e = tree[IdOf[v]]
    BY PlacingsAre
  <2>2. e.v = v /\ e.dist = D[v] /\ D[v] \in Nat /\ D[v] < Far /\ e.hops \in SUBSET Nat
    BY <2>1, TreeSays
  <2>3. PlaceOf[e.v] \in Place
    BY <1>2, ExtractionAssumption
  <2>4. D[v] \in IntraCosts(PlaceOf[e.v], D)
    BY <1>2, <2>2, InIntraCosts, Zenon
  <2>5. /\ Path(1, e.dist, 0, e.hops) \in Proper
        /\ Path(1, e.dist, 0, e.hops).type = 1
        /\ Path(1, e.dist, 0, e.hops).cost = e.dist
        /\ Path(1, e.dist, 0, e.hops).cost2 = 0
    BY <2>2, PathIs
  <2>6. q.to = PlaceOf[e.v] /\ q.route = Path(1, e.dist, 0, e.hops)
    BY <1>2, ToIs
  <2>q. QED
    BY <2>2, <2>3, <2>4, <2>5, <2>6 DEF IntraRoute
<1>q. QED
  BY <1>1, <1>2, InIntra

LEMMA IntraComplete ==
    ASSUME Finished, NEW D, D = DistancesFrom(Root), NEW d, NEW c \in IntraCosts(d, D)
    PROVE  \E q \in Intra : q.to = d /\ q.route.cost = c
<1>1. ASSUME NEW r \in Router, D[r] < Far, NEW s \in StubOf[r], s.to = d, c = D[r] + s.metric
      PROVE  \E q \in Intra : q.to = d /\ q.route.cost = c
  <2> DEFINE e == tree[IdOf[r]]
             q == To(s.to, Path(1, e.dist + s.metric, 0, e.hops))
  <2>1. r \in Vertex
    BY DEF Vertex
  <2>2. InTree(r) /\ e.v = r /\ e.dist = D[r] /\ D[r] \in Nat /\ e.hops \in SUBSET Nat
    BY <1>1, <2>1, TreeSays
  <2>3. e \in Placings
    BY <2>1, <2>2, PlacingsAre
  <2>4. e.dist + s.metric \in Nat
    BY <1>1, <2>2, ExtractionAssumption
  <2>5. Path(1, e.dist + s.metric, 0, e.hops).cost = e.dist + s.metric
    BY <2>2, <2>4, PathIs
  <2>8. q.to = s.to /\ q.route = Path(1, e.dist + s.metric, 0, e.hops)
    BY ToIs
  <2>6. q.to = d /\ q.route.cost = c
    BY <1>1, <2>2, <2>5, <2>8
  <2>7. q \in Intra
    BY <2>2, <2>3, InIntra, Zenon
  <2>q. QED
    BY <2>6, <2>7
<1>2. ASSUME NEW n \in Net, D[n] < Far, PlaceOf[n] = d, c = D[n]
      PROVE  \E q \in Intra : q.to = d /\ q.route.cost = c
  <2> DEFINE e == tree[IdOf[n]]
             q == To(PlaceOf[e.v], Path(1, e.dist, 0, e.hops))
  <2>1. n \in Vertex
    BY DEF Vertex
  <2>2. InTree(n) /\ e.v = n /\ e.dist = D[n] /\ D[n] \in Nat /\ e.hops \in SUBSET Nat
    BY <1>2, <2>1, TreeSays
  <2>3. e \in Placings
    BY <2>1, <2>2, PlacingsAre
  <2>4. Path(1, e.dist, 0, e.hops).cost = e.dist
    BY <2>2, PathIs
  <2>7. q.to = PlaceOf[e.v] /\ q.route = Path(1, e.dist, 0, e.hops)
    BY ToIs
  <2>5. q.to = d /\ q.route.cost = c
    BY <1>2, <2>2, <2>4, <2>7
  <2>6. q \in Intra
    BY <2>2, <2>3, InIntra, Zenon
  <2>q. QED
    BY <2>5, <2>6
<1>q. QED
  BY <1>1, <1>2, InIntraCosts

(* Summaries: an LSA counts if and only if the reference counts it.        *)
LEMMA UsableIs ==
    ASSUME Finished, NEW D, D = DistancesFrom(Root), NEW s, s.from \in Router
    PROVE  /\ Usable(s) <=> ~s.old /\ s.metric < Infinity /\ D[s.from] < Far
           /\ Usable(s) => /\ EntryOf(s).dist = D[s.from] /\ D[s.from] \in Nat
                           /\ EntryOf(s).hops \in SUBSET Nat
<1> DEFINE v == s.from
<1>1. v \in Vertex /\ v \in Router
  BY DEF Vertex
<1>2. EntryOf(s) = tree[IdOf[v]] /\ (Usable(s) <=> ~s.old /\ s.metric < Infinity /\ InTree(v))
  BY <1>1, Zenon DEF EntryOf, Usable, Reached
<1>3. InTree(v) <=> D[v] < Far
  BY <1>1, TreeSays
<1>4. InTree(v) => /\ tree[IdOf[v]].dist = D[v] /\ D[v] \in Nat
                   /\ tree[IdOf[v]].hops \in SUBSET Nat
  BY <1>1, TreeSays
<1>q. QED
  BY <1>2, <1>3, <1>4, Zenon

LEMMA InInter ==
    ASSUME NEW q
    PROVE  q \in Inter <=>
             \E s \in Summaries :
                /\ Usable(s) /\ s.from # Root /\ ~\E r \in Intra : r.to = s.to
                /\ q = To(s.to, Path(2, EntryOf(s).dist + s.metric, 0, EntryOf(s).hops))
<1> DEFINE T == {t \in Summaries : Usable(t) /\ t.from # Root /\ ~\E r \in Intra : r.to = t.to}
           F(s) == To(s.to, Path(2, EntryOf(s).dist + s.metric, 0, EntryOf(s).hops))
<1>1. Inter = {F(s) : s \in T}
  BY Zenon DEF Inter
<1>2. \A s : s \in T <=> s \in Summaries /\ Usable(s) /\ s.from # Root /\ ~\E r \in Intra : r.to = s.to
  BY Zenon
<1> HIDE DEF T
<1>q. QED
  BY <1>1, <1>2, Zenon

LEMMA InInterCosts ==
    ASSUME NEW d, NEW D, NEW c
    PROVE  c \in InterCosts(d, D) <=>
             \E s \in Summaries :
                /\ ~s.old /\ s.metric < Infinity /\ D[s.from] < Far
                /\ s.to = d /\ s.from # Root /\ c = D[s.from] + s.metric
<1> DEFINE T == {t \in Fresh(Summaries, D) : t.to = d /\ t.from # Root}
<1>1. InterCosts(d, D) = {D[s.from] + s.metric : s \in T}
  BY Zenon DEF InterCosts
<1>2. \A s : s \in T <=> /\ s \in Summaries /\ ~s.old /\ s.metric < Infinity /\ D[s.from] < Far
                         /\ s.to = d /\ s.from # Root
  BY Zenon DEF Fresh
<1> HIDE DEF T
<1>q. QED
  BY <1>1, <1>2, Zenon

InterRoute(q, D) ==
    /\ q.route \in Proper /\ q.route.type = 2 /\ q.route.cost2 = 0
    /\ q.to \in Place /\ q.route.cost \in InterCosts(q.to, D) /\ IntraCosts(q.to, D) = {}

LEMMA NoIntra ==
    ASSUME Finished, NEW D, D = DistancesFrom(Root), NEW d
    PROVE  (\E q \in Intra : q.to = d) <=> IntraCosts(d, D) # {}
<1>1. ASSUME NEW q \in Intra, q.to = d PROVE IntraCosts(d, D) # {}
  BY <1>1, IntraSound DEF IntraRoute
<1>2. ASSUME NEW c \in IntraCosts(d, D) PROVE \E q \in Intra : q.to = d
  <2>1. \E q \in Intra : q.to = d /\ q.route.cost = c
    BY <1>2, IntraComplete
  <2>q. QED
    BY <2>1
<1>q. QED
  BY <1>1, <1>2

LEMMA InterSound ==
    ASSUME Finished, NEW D, D = DistancesFrom(Root), NEW q \in Inter
    PROVE  InterRoute(q, D)
<1>1. PICK s \in Summaries :
         /\ Usable(s) /\ s.from # Root /\ ~\E r \in Intra : r.to = s.to
         /\ q = To(s.to, Path(2, EntryOf(s).dist + s.metric, 0, EntryOf(s).hops))
  BY InInter, Zenon
<1>2. s.from \in Router /\ s.to \in Place /\ s.metric \in Nat
  BY ExtractionAssumption
<1>3. /\ ~s.old /\ s.metric < Infinity /\ D[s.from] < Far /\ D[s.from] \in Nat
      /\ EntryOf(s).dist = D[s.from] /\ EntryOf(s).hops \in SUBSET Nat
  BY <1>1, <1>2, UsableIs
<1>4. D[s.from] + s.metric \in InterCosts(s.to, D)
  BY <1>1, <1>3, InInterCosts, Zenon
<1>5. IntraCosts(s.to, D) = {}
  BY <1>1, NoIntra
<1>6. EntryOf(s).dist + s.metric \in Nat
  BY <1>2, <1>3
<1>7. /\ Path(2, EntryOf(s).dist + s.metric, 0, EntryOf(s).hops) \in Proper
      /\ Path(2, EntryOf(s).dist + s.metric, 0, EntryOf(s).hops).type = 2
      /\ Path(2, EntryOf(s).dist + s.metric, 0, EntryOf(s).hops).cost = EntryOf(s).dist + s.metric
      /\ Path(2, EntryOf(s).dist + s.metric, 0, EntryOf(s).hops).cost2 = 0
  BY <1>3, <1>6, PathIs
<1>8. q.to = s.to /\ q.route = Path(2, EntryOf(s).dist + s.metric, 0, EntryOf(s).hops)
  BY <1>1, ToIs
<1>q. QED
  BY <1>2, <1>3, <1>4, <1>5, <1>7, <1>8 DEF InterRoute

LEMMA InterComplete ==
    ASSUME Finished, NEW D, D = DistancesFrom(Root), NEW d, NEW c \in InterCosts(d, D),
           IntraCosts(d, D) = {}
    PROVE  \E q \in Inter : q.to = d /\ q.route.cost = c
<1>1. PICK s \in Summaries :
         /\ ~s.old /\ s.metric < Infinity /\ D[s.from] < Far
         /\ s.to = d /\ s.from # Root /\ c = D[s.from] + s.metric
  BY InInterCosts
<1> DEFINE p == Path(2, EntryOf(s).dist + s.metric, 0, EntryOf(s).hops)
           q == To(s.to, p)
<1>2. s.from \in Router /\ s.metric \in Nat
  BY ExtractionAssumption
<1>3. Usable(s) /\ EntryOf(s).dist = D[s.from] /\ D[s.from] \in Nat /\ EntryOf(s).hops \in SUBSET Nat
  BY <1>1, <1>2, UsableIs
<1>4. ~\E r \in Intra : r.to = s.to
  BY <1>1, NoIntra
<1>5. EntryOf(s).dist + s.metric \in Nat
  BY <1>2, <1>3
<1>6. p.cost = EntryOf(s).dist + s.metric
  BY <1>3, <1>5, PathIs
<1>7. q.to = s.to /\ q.route = p
  BY ToIs
<1>8. q \in Inter
  BY <1>1, <1>3, <1>4, InInter, Zenon
<1> HIDE DEF p, q
<1>9. q.to = d /\ q.route.cost = c
  BY <1>1, <1>3, <1>6, <1>7
<1>q. QED
  BY <1>8, <1>9


LEMMA LeastExists ==
    ASSUME NEW S \in SUBSET Nat, S # {}
    PROVE  Least(S) \in S /\ \A n \in S : Least(S) <= n
<1> DEFINE R == OpToRel(<, Nat)
<1>1. IsWellFoundedOn(R, Nat)
  BY NatLessThanWellFounded
<1>2. PICK m \in S : \A n \in S : <<n, m>> \notin R
  <2> HIDE DEF R
  <2>q. QED
    BY <1>1, WFMin
<1>3. ASSUME NEW n \in S PROVE m <= n
  <2>1. m \in Nat /\ n \in Nat
    OBVIOUS
  <2>2. n < m => <<n, m>> \in R
    BY <2>1 DEF OpToRel
  <2> HIDE DEF R
  <2>q. QED
    BY <1>2, <2>1, <2>2
<1>q. QED
  BY <1>3 DEF Least

(* The routes within the autonomous system, of both kinds.                 *)
LEMMA InsideSound ==
    ASSUME Finished, NEW D, D = DistancesFrom(Root), NEW q \in Intra \cup Inter
    PROVE  /\ q.route \in Proper /\ q.route.type \in {1, 2} /\ q.route.cost2 = 0
           /\ q.to \in Place /\ q.route.cost \in Inside(q.to, D)
           /\ q \in Intra <=> IntraCosts(q.to, D) # {}
           /\ q \in Intra => q.route.type = 1
           /\ q \notin Intra => q.route.type = 2
<1>1. CASE q \in Intra
  BY <1>1, IntraSound DEF IntraRoute, Inside
<1>2. CASE q \in Inter
  <2>1. InterRoute(q, D) /\ q \notin Intra
    BY <1>2, InterSound, NoIntra DEF InterRoute
  <2>q. QED
    BY <2>1 DEF InterRoute, Inside
<1>q. QED
  BY <1>1, <1>2

LEMMA InsideComplete ==
    ASSUME Finished, NEW D, D = DistancesFrom(Root), NEW d, NEW c \in Inside(d, D)
    PROVE  \E q \in Intra \cup Inter : q.to = d /\ q.route.cost = c
<1>1. CASE IntraCosts(d, D) # {}
  <2>1. c \in IntraCosts(d, D)
    BY <1>1 DEF Inside
  <2>2. \E q \in Intra : q.to = d /\ q.route.cost = c
    BY <2>1, IntraComplete
  <2>q. QED
    BY <2>2
<1>2. CASE IntraCosts(d, D) = {}
  <2>1. c \in InterCosts(d, D)
    BY <1>2 DEF Inside
  <2>2. \E q \in Inter : q.to = d /\ q.route.cost = c
    BY <1>2, <2>1, InterComplete
  <2>q. QED
    BY <2>2
<1>q. QED
  BY <1>1, <1>2

LEMMA InsideCostType ==
    ASSUME Finished, NEW D, D = DistancesFrom(Root), NEW d
    PROVE  Inside(d, D) \in SUBSET Nat
<1> SUFFICES ASSUME NEW c \in Inside(d, D) PROVE c \in Nat
  OBVIOUS
<1>1. PICK q \in Intra \cup Inter : q.to = d /\ q.route.cost = c
  BY InsideComplete
<1>2. q.route \in Proper
  BY InsideSound
<1>q. QED
  BY <1>1, <1>2, ProperType

(* The way to an ASBR, by the tree or by a summary.                        *)
LEMMA InAsbrCosts ==
    ASSUME NEW x, NEW c
    PROVE  c \in AsbrCosts(x) <=>
             \E s \in AsbrSummaries : Usable(s) /\ s.to = x /\ c = EntryOf(s).dist + s.metric
<1> DEFINE T == {t \in AsbrSummaries : Usable(t) /\ t.to = x}
<1>1. AsbrCosts(x) = {EntryOf(s).dist + s.metric : s \in T}
  BY Zenon DEF AsbrCosts
<1>2. \A s : s \in T <=> s \in AsbrSummaries /\ Usable(s) /\ s.to = x
  BY Zenon
<1> HIDE DEF T
<1>q. QED
  BY <1>1, <1>2, Zenon

LEMMA InToAsbr ==
    ASSUME NEW x, NEW D, NEW c
    PROVE  c \in ToAsbr(x, D) <=>
             \/ x \in Router /\ D[x] < Far /\ c = D[x]
             \/ \E s \in AsbrSummaries :
                   /\ ~s.old /\ s.metric < Infinity /\ D[s.from] < Far
                   /\ s.to = x /\ c = D[s.from] + s.metric
<1> DEFINE A == {D[r] : r \in {q \in Router : q = x /\ D[q] < Far}}
           T == {t \in Fresh(AsbrSummaries, D) : t.to = x}
           B == {D[s.from] + s.metric : s \in T}
<1>1. ToAsbr(x, D) = A \cup B
  BY Zenon DEF ToAsbr
<1>2. c \in A <=> x \in Router /\ D[x] < Far /\ c = D[x]
  OBVIOUS
<1>3. \A s : s \in T <=> /\ s \in AsbrSummaries /\ ~s.old /\ s.metric < Infinity /\ D[s.from] < Far
                         /\ s.to = x
  BY Zenon DEF Fresh
<1> HIDE DEF T, A
<1>4. c \in B <=> \E s \in AsbrSummaries :
                     /\ ~s.old /\ s.metric < Infinity /\ D[s.from] < Far
                     /\ s.to = x /\ c = D[s.from] + s.metric
  BY <1>3, Zenon
<1> HIDE DEF B
<1>q. QED
  BY <1>1, <1>2, <1>4, Zenon

LEMMA ReachedIs ==
    ASSUME Finished, NEW D, D = DistancesFrom(Root), NEW x
    PROVE  /\ Reached(x) <=> x \in Router /\ D[x] < Far
           /\ Reached(x) => /\ EntryOf([from |-> x]).dist = D[x] /\ D[x] \in Nat
                            /\ EntryOf([from |-> x]).hops \in SUBSET Nat
<1>1. CASE x \in Router
  <2>1. x \in Vertex /\ [from |-> x].from = x
    BY <1>1 DEF Vertex
  <2>2. EntryOf([from |-> x]) = tree[IdOf[x]] /\ (Reached(x) <=> InTree(x))
    BY <1>1, <2>1, Zenon DEF EntryOf, Reached
  <2>3. InTree(x) <=> D[x] < Far
    BY <2>1, TreeSays
  <2>4. InTree(x) => /\ tree[IdOf[x]].dist = D[x] /\ D[x] \in Nat
                     /\ tree[IdOf[x]].hops \in SUBSET Nat
    BY <2>1, TreeSays
  <2>q. QED
    BY <1>1, <2>2, <2>3, <2>4, Zenon
<1>2. CASE x \notin Router
  BY <1>2 DEF Reached
<1>q. QED
  BY <1>1, <1>2

LEMMA AsbrCostsAre ==
    ASSUME Finished, NEW D, D = DistancesFrom(Root), NEW x, NEW c
    PROVE  /\ c \in AsbrCosts(x) <=>
                \E s \in AsbrSummaries :
                   /\ ~s.old /\ s.metric < Infinity /\ D[s.from] < Far
                   /\ s.to = x /\ c = D[s.from] + s.metric
           /\ c \in AsbrCosts(x) => c \in Nat
<1>1. \A s \in AsbrSummaries : s.from \in Router /\ s.metric \in Nat
  BY ExtractionAssumption
<1>2. \A s \in AsbrSummaries : Usable(s) <=> ~s.old /\ s.metric < Infinity /\ D[s.from] < Far
  BY <1>1, UsableIs
<1>3. \A s \in AsbrSummaries : Usable(s) => EntryOf(s).dist = D[s.from] /\ D[s.from] \in Nat
  BY <1>1, UsableIs
<1>4. c \in AsbrCosts(x) <=>
         \E s \in AsbrSummaries : Usable(s) /\ s.to = x /\ c = EntryOf(s).dist + s.metric
  BY InAsbrCosts
<1>5. c \in AsbrCosts(x) => c \in Nat
  BY <1>1, <1>3, <1>4
<1>q. QED
  BY <1>2, <1>3, <1>4, <1>5, Zenon

LEMMA AsbrWayIs ==
    ASSUME Finished, NEW D, D = DistancesFrom(Root), NEW x
    PROVE  /\ ToAsbr(x, D) \in SUBSET Nat
           /\ ToAsbr(x, D) # {} <=> Reached(x) \/ AsbrCosts(x) # {}
           /\ AsbrWay(x).cost = Least(ToAsbr(x, D))
           /\ AsbrWay(x).hops \in SUBSET Nat
<1> DEFINE tree0 == IF Reached(x) THEN {EntryOf([from |-> x]).dist} ELSE {}
           hops0 == IF Reached(x) THEN EntryOf([from |-> x]).hops ELSE {}
<1>1. \A c : c \in tree0 <=> x \in Router /\ D[x] < Far /\ c = D[x]
  BY ReachedIs
<1>2. \A c : c \in tree0 => c \in Nat
  BY ReachedIs
<1>3. hops0 \in SUBSET Nat
  BY ReachedIs
<1>4. AsbrWay(x) = [cost |-> Least(tree0 \cup AsbrCosts(x)), hops |-> hops0]
  BY DEF AsbrWay
<1>5. tree0 # {} <=> Reached(x)
  OBVIOUS
<1> HIDE DEF tree0, hops0
<1>6. ToAsbr(x, D) = tree0 \cup AsbrCosts(x)
  <2>1. ASSUME NEW c PROVE c \in ToAsbr(x, D) <=> c \in tree0 \/ c \in AsbrCosts(x)
    <3> DEFINE E == \E s \in AsbrSummaries :
                       /\ ~s.old /\ s.metric < Infinity /\ D[s.from] < Far
                       /\ s.to = x /\ c = D[s.from] + s.metric
    <3>1. c \in AsbrCosts(x) <=> E
      BY AsbrCostsAre
    <3>2. c \in ToAsbr(x, D) <=> (x \in Router /\ D[x] < Far /\ c = D[x]) \/ E
      BY InToAsbr
    <3> HIDE DEF E
    <3>q. QED
      BY <1>1, <3>1, <3>2, Zenon
  <2>q. QED
    BY <2>1
<1>7. ToAsbr(x, D) \in SUBSET Nat
  BY <1>2, <1>6, AsbrCostsAre
<1>q. QED
  BY <1>3, <1>4, <1>5, <1>6, <1>7


(* The way to a forwarding address: the routes that _find_route_to may     *)
(* find are all the routes to one destination, the one that the reference  *)
(* takes.                                                                  *)
LEMMA InsideIsReached ==
    ASSUME Finished, NEW D, D = DistancesFrom(Root), NEW d
    PROVE  Inside(d, D) # {} <=> \E q \in Intra \cup Inter : q.to = d
<1>1. ASSUME NEW q \in Intra \cup Inter, q.to = d PROVE Inside(d, D) # {}
  BY <1>1, InsideSound
<1>2. ASSUME NEW c \in Inside(d, D) PROVE \E q \in Intra \cup Inter : q.to = d
  <2>1. \E q \in Intra \cup Inter : q.to = d /\ q.route.cost = c
    BY <1>2, InsideComplete
  <2>q. QED
    BY <2>1
<1>q. QED
  BY <1>1, <1>2

LEMMA MatchesAre ==
    ASSUME Finished, NEW D, D = DistancesFrom(Root), NEW a, NEW R \in SUBSET (Intra \cup Inter), NEW m
    PROVE  m \in Matches(a, R) <=> m \in R /\ m.to \in Nearby(a, D)
<1>1. \A d : Inside(d, D) # {} <=> \E q \in Intra \cup Inter : q.to = d
  BY InsideIsReached
<1>2. m \in Matches(a, R) <=>
         /\ m \in R /\ m.to \in Covers[a]
         /\ \A q \in Intra \cup Inter : q.to \in Covers[a] => Length[q.to] <= Length[m.to]
  BY Zenon DEF Matches
<1>3. m.to \in Nearby(a, D) <=>
         /\ m.to \in Covers[a] /\ Inside(m.to, D) # {}
         /\ \A e \in Covers[a] : Inside(e, D) # {} => Length[e] <= Length[m.to]
  BY Zenon DEF Nearby
<1>4. ASSUME m \in Matches(a, R) PROVE m \in R /\ m.to \in Nearby(a, D)
  <2>1. m \in R /\ m \in Intra \cup Inter
    BY <1>2, <1>4
  <2>2. Inside(m.to, D) # {}
    BY <1>1, <2>1, Zenon
  <2>3. ASSUME NEW e \in Covers[a], Inside(e, D) # {} PROVE Length[e] <= Length[m.to]
    <3>1. PICK q \in Intra \cup Inter : q.to = e
      BY <1>1, <2>3, Zenon
    <3>q. QED
      BY <1>2, <1>4, <3>1, Zenon
  <2>q. QED
    BY <1>2, <1>3, <1>4, <2>1, <2>2, <2>3, Zenon
<1>5. ASSUME m \in R, m.to \in Nearby(a, D) PROVE m \in Matches(a, R)
  <2>1. ASSUME NEW q \in Intra \cup Inter, q.to \in Covers[a] PROVE Length[q.to] <= Length[m.to]
    <3>1. Inside(q.to, D) # {}
      BY <1>1, Zenon
    <3>q. QED
      BY <1>3, <1>5, <2>1, <3>1, Zenon
  <2>q. QED
    BY <1>2, <1>3, <1>5, <2>1, Zenon
<1>q. QED
  BY <1>4, <1>5

LEMMA ForwardIs ==
    ASSUME Finished, NEW D, D = DistancesFrom(Root), NEW a, Covers[a] \subseteq Place,
           \A d, e \in Covers[a] : Length[d] = Length[e] => d = e
    PROVE  /\ \A m : m \in FirstMatches(a) <=> m \in Intra \cup Inter /\ m.to \in Nearby(a, D)
           /\ FirstMatches(a) # {} <=> Nearby(a, D) # {}
           /\ \A d, e \in Nearby(a, D) : d = e
<1>1. ASSUME NEW d \in Nearby(a, D), NEW e \in Nearby(a, D) PROVE d = e
  <2>1. d \in Covers[a] /\ e \in Covers[a] /\ Length[d] <= Length[e] /\ Length[e] <= Length[d]
    BY Zenon DEF Nearby
  <2>2. Length[d] \in Nat /\ Length[e] \in Nat
    BY <2>1, ExtractionAssumption
  <2>3. Length[d] = Length[e]
    BY <2>1, <2>2
  <2>q. QED
    BY <2>1, <2>3
<1>2. ASSUME NEW m PROVE m \in FirstMatches(a) <=> m \in Intra \cup Inter /\ m.to \in Nearby(a, D)
  <2>1. m \in Matches(a, Intra) <=> m \in Intra /\ m.to \in Nearby(a, D)
    BY MatchesAre
  <2>2. m \in Matches(a, Inter) <=> m \in Inter /\ m.to \in Nearby(a, D)
    BY MatchesAre
  <2>3. CASE Matches(a, Intra) = {}
    <3>1. FirstMatches(a) = Matches(a, Inter) /\ m \notin Matches(a, Intra)
      BY <2>3 DEF FirstMatches
    <3>q. QED
      BY <2>1, <2>2, <3>1, Zenon
  <2>4. ASSUME NEW k \in Matches(a, Intra) PROVE m \in FirstMatches(a) <=> m \in Intra \cup Inter /\ m.to \in Nearby(a, D)
    <3>1. FirstMatches(a) = Matches(a, Intra)
      BY <2>4 DEF FirstMatches
    <3>2. k \in Intra /\ k.to \in Nearby(a, D)
      BY <2>4, MatchesAre
    <3>3. ASSUME m \in Inter, m.to \in Nearby(a, D) PROVE m \in Intra
      <4>1. m.to = k.to
        BY <1>1, <3>2, <3>3
      <4>q. QED
        BY <3>2, <3>3, <4>1, InsideSound
    <3>q. QED
      BY <2>1, <2>2, <3>1, <3>3, Zenon
  <2>q. QED
    BY <2>3, <2>4
<1>3. ASSUME NEW d \in Nearby(a, D) PROVE \E m \in Intra \cup Inter : m.to = d
  <2>1. Inside(d, D) # {}
    BY Zenon DEF Nearby
  <2>q. QED
    BY <2>1, InsideIsReached
<1>4. FirstMatches(a) # {} => Nearby(a, D) # {}
  BY <1>2
<1>5. ASSUME NEW d \in Nearby(a, D) PROVE FirstMatches(a) # {}
  <2>1. PICK m \in Intra \cup Inter : m.to = d
    BY <1>3
  <2>2. m \in FirstMatches(a)
    BY <1>2, <2>1, Zenon
  <2>q. QED
    BY <2>2
<1>6. FirstMatches(a) # {} <=> Nearby(a, D) # {}
  BY <1>4, <1>5
<1>7. \A m : m \in FirstMatches(a) <=> m \in Intra \cup Inter /\ m.to \in Nearby(a, D)
  BY <1>2
<1>8. \A d, e \in Nearby(a, D) : d = e
  BY <1>1
<1>q. QED
  BY <1>6, <1>7, <1>8, Zenon

(* With a forwarding address that is reached at different costs, the order *)
(* of a list decides which of them counts.                                 *)
OneWay ==
    \A x \in Externals : x.forward # NoForward =>
       \A m, n \in FirstMatches(x.forward) : m.route.cost = n.route.cost

Forwarded(x) == x.forward # NoForward /\ FirstMatches(x.forward) # {}

LEMMA ForwardCost ==
    ASSUME Finished, OneWay, NEW D, D = DistancesFrom(Root), NEW x \in Externals, Forwarded(x),
           NEW m \in FirstMatches(x.forward)
    PROVE  m.route.cost = Least(WayCosts(x, D)) /\ m.route \in Proper
<1> DEFINE a == x.forward
           by == Nearby(a, D)
<1>1. a # NoForward /\ Covers[a] \subseteq Place /\ \A d, e \in Covers[a] : Length[d] = Length[e] => d = e
  BY ExtractionAssumption DEF Forwarded
<1>2. /\ \A q : q \in FirstMatches(a) <=> q \in Intra \cup Inter /\ q.to \in by
      /\ \A d, e \in by : d = e
  BY <1>1, ForwardIs
<1>3. m \in Intra \cup Inter /\ m.to \in by
  BY <1>2, Zenon
<1>4. WayCosts(x, D) = Inside(m.to, D)
  <2>1. WayCosts(x, D) = UNION {Inside(d, D) : d \in by}
    BY <1>1, <1>3, Zenon DEF WayCosts
  <2>2. by = {m.to}
    BY <1>2, <1>3, Zenon
  <2>q. QED
    BY <2>1, <2>2
<1>5. m.route.cost \in Inside(m.to, D) /\ m.route \in Proper
  BY <1>3, InsideSound
<1>6. ASSUME NEW c \in Inside(m.to, D) PROVE c = m.route.cost
  <2>1. PICK q \in Intra \cup Inter : q.to = m.to /\ q.route.cost = c
    BY <1>6, InsideComplete
  <2>2. q \in FirstMatches(a)
    BY <1>2, <1>3, <2>1, Zenon
  <2>q. QED
    BY <1>1, <2>1, <2>2 DEF OneWay
<1>7. Inside(m.to, D) \in SUBSET Nat
  BY InsideCostType
<1>8. m.route.cost = Least(Inside(m.to, D))
  <2>1. \A c \in Inside(m.to, D) : m.route.cost <= c
    BY <1>5, <1>6, <1>7
  <2>q. QED
    BY <1>5, <1>7, <2>1, LeastIs
<1>q. QED
  BY <1>4, <1>5, <1>8


(* External routes: what each LSA that counts gives has the rank that the  *)
(* reference gives it.                                                     *)
XRank(x, D) ==
    LET way == Least(WayCosts(x, D)) IN IF x.two THEN <<4, x.metric, way>> ELSE <<3, 0, way + x.metric>>

LEMMA CountedIs ==
    ASSUME Finished, NEW D, D = DistancesFrom(Root), NEW x
    PROVE  x \in Counted <=> x \in Externals /\ ~x.old /\ ToAsbr(x.from, D) # {}
<1>1. ToAsbr(x.from, D) # {} <=> Reached(x.from) \/ AsbrCosts(x.from) # {}
  BY AsbrWayIs
<1>q. QED
  BY <1>1, Zenon DEF Counted

LEMMA WaysAre ==
    ASSUME Finished, OneWay, NEW D, D = DistancesFrom(Root), NEW x \in Counted
    PROVE  /\ Ways(x) # {}
           /\ \A w \in Ways(x) : /\ w.cost = Least(WayCosts(x, D)) /\ w.cost \in Nat
                                 /\ w.hops \in SUBSET Nat
<1>0. x \in Externals /\ ToAsbr(x.from, D) # {}
  BY CountedIs
<1>1. CASE Forwarded(x)
  <2> DEFINE M == FirstMatches(x.forward)
  <2>1. Ways(x) = {[cost |-> m.route.cost, hops |-> m.route.hops] : m \in M}
    BY <1>1, Zenon DEF Ways, Forwarded
  <2>2. M # {}
    BY <1>1 DEF Forwarded
  <2>3. \A m \in M : m.route.cost = Least(WayCosts(x, D)) /\ m.route \in Proper
    BY <1>0, <1>1, ForwardCost
  <2> HIDE DEF M
  <2>4. ASSUME NEW w \in Ways(x) PROVE w.cost = Least(WayCosts(x, D)) /\ w.cost \in Nat /\ w.hops \in SUBSET Nat
    <3>1. PICK m \in M : w = [cost |-> m.route.cost, hops |-> m.route.hops]
      BY <2>1
    <3>2. w.cost = m.route.cost /\ w.hops = m.route.hops
      BY <3>1
    <3>q. QED
      BY <2>3, <3>2, ProperType
  <2>5. Ways(x) # {}
    BY <2>1, <2>2
  <2>q. QED
    BY <2>4, <2>5
<1>2. CASE ~Forwarded(x)
  <2> DEFINE w == AsbrWay(x.from)
  <2>1. Ways(x) = {w}
    BY <1>2, Zenon DEF Ways, Forwarded
  <2>2. WayCosts(x, D) = ToAsbr(x.from, D)
    <3>1. CASE x.forward = NoForward
      BY <3>1 DEF WayCosts
    <3>2. CASE x.forward # NoForward
      <4> DEFINE a == x.forward
      <4>1. Covers[a] \subseteq Place /\ \A d, e \in Covers[a] : Length[d] = Length[e] => d = e
        BY <1>0, <3>2, ExtractionAssumption
      <4>2. FirstMatches(a) # {} <=> Nearby(a, D) # {}
        BY <4>1, ForwardIs
      <4>3. Nearby(a, D) = {}
        BY <1>2, <3>2, <4>2 DEF Forwarded
      <4>q. QED
        BY <3>2, <4>3 DEF WayCosts
    <3>q. QED
      BY <3>1, <3>2
  <2>3. w.cost = Least(ToAsbr(x.from, D)) /\ w.hops \in SUBSET Nat /\ ToAsbr(x.from, D) \in SUBSET Nat
    BY AsbrWayIs
  <2>4. w.cost \in Nat
    BY <1>0, <2>3, LeastExists
  <2> HIDE DEF w
  <2>q. QED
    BY <2>1, <2>2, <2>3, <2>4
<1>q. QED
  BY <1>1, <1>2

LEMMA ExternalIs ==
    ASSUME Finished, OneWay, NEW D, D = DistancesFrom(Root), NEW x \in Counted, NEW c \in External(x)
    PROVE  c \in Proper /\ c.type \in {3, 4} /\ Rank(c) = XRank(x, D)
<1>1. PICK w \in Ways(x) :
         c = IF x.two THEN Path(4, w.cost, x.metric, w.hops) ELSE Path(3, w.cost + x.metric, 0, w.hops)
  BY Zenon DEF External
<1>2. w.cost = Least(WayCosts(x, D)) /\ w.cost \in Nat /\ w.hops \in SUBSET Nat
  BY WaysAre
<1>3. x.metric \in Nat /\ w.cost + x.metric \in Nat
  <2>1. x \in Externals
    BY CountedIs
  <2>2. x.metric \in Nat
    BY <2>1, ExtractionAssumption
  <2>q. QED
    BY <1>2, <2>2
<1>4. CASE x.two
  <2>1. c = Path(4, w.cost, x.metric, w.hops)
    BY <1>1, <1>4
  <2>2. /\ Path(4, w.cost, x.metric, w.hops) \in Proper
        /\ Path(4, w.cost, x.metric, w.hops).type = 4
        /\ Path(4, w.cost, x.metric, w.hops).cost = w.cost
        /\ Path(4, w.cost, x.metric, w.hops).cost2 = x.metric
    BY <1>2, <1>3, PathIs
  <2>q. QED
    BY <1>2, <1>4, <2>1, <2>2 DEF Rank, XRank
<1>5. CASE ~x.two
  <2>1. c = Path(3, w.cost + x.metric, 0, w.hops)
    BY <1>1, <1>5
  <2>2. /\ Path(3, w.cost + x.metric, 0, w.hops) \in Proper
        /\ Path(3, w.cost + x.metric, 0, w.hops).type = 3
        /\ Path(3, w.cost + x.metric, 0, w.hops).cost = w.cost + x.metric
        /\ Path(3, w.cost + x.metric, 0, w.hops).cost2 = 0
    BY <1>2, <1>3, PathIs
  <2>q. QED
    BY <1>2, <1>5, <2>1, <2>2 DEF Rank, XRank
<1>q. QED
  BY <1>4, <1>5

LEMMA InExternalRanks ==
    ASSUME Finished, NEW D, D = DistancesFrom(Root), NEW d, NEW k
    PROVE  k \in ExternalRanks(d, D) <=> \E x \in Counted : x.to = d /\ k = XRank(x, D)
<1> DEFINE Y == {y \in Externals : ~y.old /\ y.to = d /\ ToAsbr(y.from, D) # {}}
<1>1. ExternalRanks(d, D) = {XRank(x, D) : x \in Y}
  BY Zenon DEF ExternalRanks, XRank
<1>2. \A x : x \in Y <=> x \in Counted /\ x.to = d
  BY CountedIs
<1> HIDE DEF Y
<1>q. QED
  BY <1>1, <1>2, Zenon


(* The candidates for a destination are finitely many.                     *)
LEMMA ImageFinite ==
    ASSUME NEW A, IsFiniteSet(A), NEW f, NEW B, \A b \in B : \E a \in A : b = f[a]
    PROVE  IsFiniteSet(B)
<1> DEFINE C == {f[a] : a \in A}
           g == [a \in A |-> f[a]]
<1>1. g \in Surjection(A, C)
  BY DEF Surjection
<1> HIDE DEF g
<1>2. IsFiniteSet(C)
  BY <1>1, FS_Surjection
<1>3. B \in SUBSET C
  OBVIOUS
<1>q. QED
  BY <1>2, <1>3, FS_Subset

LEMMA InsideFinite == ASSUME Finished PROVE IsFiniteSet(Intra) /\ IsFiniteSet(Inter)
<1> DEFINE P == {p \in Placings : p.v \in Router}
           F(e) == {To(s.to, Path(1, e.dist + s.metric, 0, e.hops)) : s \in StubOf[e.v]}
           N == {To(PlaceOf[e.v], Path(1, e.dist, 0, e.hops)) : e \in {p \in Placings : p.v \in Net}}
<1>1. IsFiniteSet(Placings)
  <2> DEFINE f == [v \in Vertex |-> tree[IdOf[v]]]
  <2>1. \A b \in Placings : \E v \in Vertex : b = f[v]
    BY PlacingsAre
  <2> HIDE DEF f
  <2>q. QED
    BY <2>1, SpfAssumption, ImageFinite
<1>2. IsFiniteSet(P)
  <2>1. P \in SUBSET Placings
    OBVIOUS
  <2>q. QED
    BY <1>1, <2>1, FS_Subset
<1>3. ASSUME NEW e \in P PROVE IsFiniteSet(F(e))
  <2> DEFINE f == [s \in StubOf[e.v] |-> To(s.to, Path(1, e.dist + s.metric, 0, e.hops))]
  <2>1. \A b \in F(e) : \E s \in StubOf[e.v] : b = f[s]
    OBVIOUS
  <2>2. IsFiniteSet(StubOf[e.v])
    BY <1>3, ExtractionAssumption
  <2> HIDE DEF f, F
  <2>q. QED
    BY <2>1, <2>2, ImageFinite
<1>4. IsFiniteSet({F(e) : e \in P})
  <2> DEFINE f == [e \in P |-> F(e)]
             G == {F(e) : e \in P}
  <2>1. \A b \in G : \E e \in P : b = f[e]
    BY Zenon
  <2> HIDE DEF f, F, P
  <2>2. IsFiniteSet(G)
    <3> HIDE DEF G
    <3>q. QED
      BY <1>2, <2>1, ImageFinite
  <2>q. QED
    BY <2>2
<1>5. IsFiniteSet(N)
  <2> DEFINE f == [e \in Placings |-> To(PlaceOf[e.v], Path(1, e.dist, 0, e.hops))]
  <2>1. \A b \in N : \E e \in Placings : b = f[e]
    BY Zenon
  <2> HIDE DEF f, N
  <2>q. QED
    BY <1>1, <2>1, ImageFinite
<1>6. Intra = (UNION {F(e) : e \in P}) \cup N
  BY Zenon DEF Intra
<1>7. IsFiniteSet(UNION {F(e) : e \in P})
  <2> DEFINE G == {F(e) : e \in P}
  <2>1. \A T \in G : IsFiniteSet(T)
    BY <1>3, Zenon
  <2>2. IsFiniteSet(G)
    BY <1>4
  <2> HIDE DEF G
  <2>3. IsFiniteSet(UNION G)
    BY <2>1, <2>2, FS_UNION
  <2>q. QED
    BY <2>3 DEF G
<1>8. IsFiniteSet(Intra)
  <2> DEFINE U == UNION {F(e) : e \in P}
  <2>1. IsFiniteSet(U) /\ Intra = U \cup N
    BY <1>6, <1>7
  <2> HIDE DEF U, N
  <2>q. QED
    BY <1>5, <2>1, FS_Union
<1>9. IsFiniteSet(Inter)
  <2> DEFINE f == [s \in Summaries |-> To(s.to, Path(2, EntryOf(s).dist + s.metric, 0, EntryOf(s).hops))]
  <2>1. ASSUME NEW b \in Inter PROVE \E s \in Summaries : b = f[s]
    BY InInter, Zenon
  <2> HIDE DEF f
  <2>q. QED
    BY <2>1, ExtractionAssumption, ImageFinite
<1>q. QED
  BY <1>8, <1>9

(* The table makes of a finite set of candidates one that none is better   *)
(* than, whatever order FoldSet takes them in.                             *)
LEMMA TableRouteIs ==
    ASSUME NEW S \in SUBSET Proper, IsFiniteSet(S)
    PROVE  IF S = {} THEN TableRoute(S) = NoRoute ELSE Merged(S, TableRoute(S))
<1> DEFINE s == [x \in S |-> x]
           pick == [u \in SUBSET S |-> CHOOSE x \in u : TRUE]
           IsIt(f) == f = [u \in SUBSET S |->
                             IF u = {} THEN NoRoute
                             ELSE LET x == CHOOSE y \in u : TRUE IN Merge(f[u \ {x}], x)]
           it == CHOOSE f : IsIt(f)
<1>1. TableRoute(S) = it[S]
  BY DEF TableRoute, FoldSet, MapThenFoldSet
<1>2. \A u \in SUBSET S : u # {} => pick[u] = (CHOOSE y \in u : TRUE) /\ pick[u] \in u
  OBVIOUS
<1>3. (\A x \in S : s[x] = x /\ s[x] \in Proper) /\ \A q : q \in S <=> \E x \in S : q = s[x]
  OBVIOUS
<1> HIDE DEF s, pick
<1>4. \A u \in SUBSET S : u # {} => pick[u] \in u
  BY <1>2
<1>5. PICK f : f = [u \in SUBSET S |-> f[u]] /\ Folds1(f, S, s, pick)
  BY <1>4, FoldExists
<1> DEFINE Step(g, u) == IF u = {} THEN NoRoute
                         ELSE LET x == CHOOSE y \in u : TRUE IN Merge(g[u \ {x}], x)
<1>a. ASSUME NEW g, NEW u \in SUBSET S
      PROVE  Step(g, u) = IF u = {} THEN NoRoute ELSE Merge(g[u \ {pick[u]}], s[pick[u]])
  <2>1. CASE u = {}
    BY <2>1
  <2>2. CASE u # {}
    <3> DEFINE y == CHOOSE x \in u : TRUE
    <3>1. pick[u] = y /\ s[pick[u]] = y
      BY <1>2, <1>3, <2>2
    <3>2. Step(g, u) = Merge(g[u \ {y}], y)
      BY <2>2
    <3> HIDE DEF y, Step
    <3>q. QED
      BY <2>2, <3>1, <3>2
  <2>q. QED
    BY <2>1, <2>2
<1>b. \A g : IsIt(g) <=> g = [u \in SUBSET S |-> Step(g, u)]
  BY Zenon
<1> HIDE DEF Step
<1>6. IsIt(f)
  <2>1. \A u \in SUBSET S : f[u] = Step(f, u)
    BY <1>5, <1>a DEF Folds1
  <2>2. f = [u \in SUBSET S |-> Step(f, u)]
    BY <1>5, <2>1
  <2> HIDE DEF IsIt
  <2>q. QED
    BY <1>b, <2>2
<1>7. IsIt(it)
  <2> HIDE DEF IsIt
  <2>q. QED
    BY <1>6
<1> HIDE DEF it
<1> HIDE DEF IsIt
<1>8. Folds1(it, S, s, pick)
  <2>1. it = [u \in SUBSET S |-> Step(it, u)]
    BY <1>7, <1>b
  <2>2. \A u \in SUBSET S : it[u] = Step(it, u)
    BY <2>1
  <2>q. QED
    BY <1>a, <2>2 DEF Folds1
<1>9. IF S = {} THEN it[S] = NoRoute ELSE Merged(S, it[S])
  BY <1>3, <1>4, <1>8, FoldIsMerged
<1>q. QED
  BY <1>1, <1>9


LEMMA InWithin ==
    ASSUME NEW d, NEW c
    PROVE  c \in Within(d) <=> \E q \in Intra \cup Inter : q.to = d /\ c = q.route
  BY Zenon DEF Within

LEMMA WithinIs ==
    ASSUME Finished, NEW D, D = DistancesFrom(Root), NEW d
    PROVE  /\ Within(d) \in SUBSET Proper /\ IsFiniteSet(Within(d))
           /\ \A c \in Within(d) : /\ c.type = IF IntraCosts(d, D) # {} THEN 1 ELSE 2
                                   /\ c.cost2 = 0 /\ c.cost \in Inside(d, D)
           /\ \A n \in Inside(d, D) : \E c \in Within(d) : c.cost = n
<1>1. ASSUME NEW c \in Within(d)
      PROVE  /\ c \in Proper
             /\ c.type = IF IntraCosts(d, D) # {} THEN 1 ELSE 2
             /\ c.cost2 = 0 /\ c.cost \in Inside(d, D)
  <2>1. PICK q \in Intra \cup Inter : q.to = d /\ c = q.route
    BY InWithin
  <2>2. /\ q.route \in Proper /\ q.route.cost2 = 0 /\ q.route.cost \in Inside(q.to, D)
        /\ q \in Intra <=> IntraCosts(q.to, D) # {}
        /\ q \in Intra => q.route.type = 1
        /\ q \notin Intra => q.route.type = 2
    BY InsideSound
  <2>q. QED
    BY <2>1, <2>2
<1>2. ASSUME NEW n \in Inside(d, D) PROVE \E c \in Within(d) : c.cost = n
  <2>1. PICK q \in Intra \cup Inter : q.to = d /\ q.route.cost = n
    BY InsideComplete
  <2>2. q.route \in Within(d)
    BY <2>1, InWithin
  <2>q. QED
    BY <2>1, <2>2
<1>3. IsFiniteSet(Within(d))
  <2> DEFINE A == Intra \cup Inter
             f == [q \in A |-> q.route]
  <2>1. IsFiniteSet(A)
    BY InsideFinite, FS_Union
  <2>2. \A b \in Within(d) : \E q \in A : b = f[q]
    BY InWithin
  <2> HIDE DEF A, f
  <2>q. QED
    BY <2>1, <2>2, ImageFinite
<1>q. QED
  BY <1>1, <1>2, <1>3

LEMMA OfferIs ==
    ASSUME Finished, OneWay, NEW D, D = DistancesFrom(Root), NEW d, NEW S \in Offers(d)
    PROVE  /\ S \in SUBSET Proper /\ IsFiniteSet(S) /\ Within(d) \subseteq S
           /\ \A c \in S : \/ c \in Within(d)
                           \/ c.type \in {3, 4} /\ Rank(c) \in ExternalRanks(d, D)
           /\ \A k \in ExternalRanks(d, D) : \E c \in S : Rank(c) = k
<1> DEFINE X == {x \in Counted : x.to = d}
<1>1. PICK f : /\ \A x \in X : f[x] \in External(x)
               /\ S = Within(d) \cup {f[x] : x \in X}
  BY Zenon DEF Offers, Outside
<1>2. \A x \in X : f[x] \in Proper /\ f[x].type \in {3, 4} /\ Rank(f[x]) = XRank(x, D)
  BY <1>1, ExternalIs
<1>3. \A k : k \in ExternalRanks(d, D) <=> \E x \in X : k = XRank(x, D)
  <2>1. ASSUME NEW k PROVE k \in ExternalRanks(d, D) <=> \E x \in Counted : x.to = d /\ k = XRank(x, D)
    BY InExternalRanks
  <2>q. QED
    BY <2>1, Zenon
<1>4. IsFiniteSet(X)
  <2>1. X \in SUBSET Externals
    BY CountedIs
  <2> HIDE DEF X
  <2>q. QED
    BY <2>1, ExtractionAssumption, FS_Subset
<1> HIDE DEF X
<1> DEFINE O == {f[x] : x \in X}
<1>5. \A c \in O : \E x \in X : c = f[x]
  OBVIOUS
<1>6. \A x \in X : f[x] \in O
  OBVIOUS
<1>7. S = Within(d) \cup O
  BY <1>1
<1> HIDE DEF O
<1>8. IsFiniteSet(O)
  BY <1>4, <1>5, ImageFinite
<1>9. Within(d) \in SUBSET Proper /\ IsFiniteSet(Within(d))
  BY WithinIs
<1>10. S \in SUBSET Proper
  BY <1>2, <1>5, <1>7, <1>9
<1>11. IsFiniteSet(S)
  BY <1>7, <1>8, <1>9, FS_Union
<1>12. ASSUME NEW c \in O PROVE c.type \in {3, 4} /\ Rank(c) \in ExternalRanks(d, D)
  <2>1. PICK x \in X : c = f[x]
    BY <1>5
  <2>2. c.type \in {3, 4} /\ Rank(c) = XRank(x, D)
    BY <1>2, <2>1
  <2>q. QED
    BY <1>3, <2>2, Zenon
<1>13. ASSUME NEW k \in ExternalRanks(d, D) PROVE \E c \in S : Rank(c) = k
  <2>1. PICK x \in X : k = XRank(x, D)
    BY <1>3
  <2>2. f[x] \in S /\ Rank(f[x]) = k
    BY <1>2, <1>6, <1>7, <2>1
  <2>q. QED
    BY <2>2
<1>q. QED
  BY <1>7, <1>10, <1>11, <1>12, <1>13

RightRoute(r, K) ==
    IF K = {} THEN r = NoRoute ELSE r # NoRoute /\ Rank(r) \in K /\ \A k \in K : ~Below(k, Rank(r))

LEMMA ProperIsRoute == ASSUME NEW c \in Proper PROVE c # NoRoute
  BY ProperType DEF NoRoute

LEMMA InsideRight ==
    ASSUME Finished, OneWay, NEW D, D = DistancesFrom(Root), NEW d, NEW S \in Offers(d),
           Inside(d, D) # {}
    PROVE  RightRoute(TableRoute(S), Ranks(d, D))
<1> DEFINE t == IF IntraCosts(d, D) # {} THEN 1 ELSE 2
           m == Least(Inside(d, D))
           r == TableRoute(S)
<1>1. Inside(d, D) \in SUBSET Nat /\ m \in Inside(d, D) /\ \A n \in Inside(d, D) : m <= n
  BY InsideCostType, LeastExists
<1>2. Ranks(d, D) = {<<t, 0, m>>}
  <2>1. CASE IntraCosts(d, D) # {}
    BY <2>1 DEF Ranks, Inside
  <2>2. CASE IntraCosts(d, D) = {}
    BY <2>2 DEF Ranks, Inside
  <2>q. QED
    BY <2>1, <2>2
<1>3. t \in {1, 2} /\ m \in Nat
  BY <1>1
<1>4. \A c \in Within(d) : c.type = t /\ c.cost2 = 0 /\ c.cost \in Inside(d, D)
  BY WithinIs
<1>5. \E c \in Within(d) : c.cost = m
  BY <1>1, WithinIs
<1> HIDE DEF t, m
<1>6. PICK b \in Within(d) : b.type = t /\ b.cost2 = 0 /\ b.cost = m
  BY <1>4, <1>5
<1>7. b \in S /\ S \in SUBSET Proper /\ IsFiniteSet(S)
  BY OfferIs
<1>8. Merged(S, r)
  BY <1>7, TableRouteIs
<1>9. PICK c \in S : Rank(c) = Rank(r)
  BY <1>8 DEF Merged
<1>10. ~Below(Rank(b), Rank(c))
  BY <1>7, <1>8, <1>9 DEF Merged
<1>11. c \in Within(d) \/ c.type \in {3, 4}
  BY OfferIs
<1>12. c.type \in 1..4 /\ c.cost \in Nat /\ c.cost2 \in Nat
  BY <1>7, ProperType
<1>13. c \in Within(d)
  <2>1. Rank(b)[1] = t /\ Rank(c)[1] = c.type
    BY <1>6 DEF Rank
  <2>2. ~(t < c.type)
    BY <1>10, <2>1 DEF Below
  <2>q. QED
    BY <1>3, <1>11, <2>2
<1>14. c.type = t /\ c.cost2 = 0 /\ c.cost \in Nat /\ m <= c.cost
  BY <1>1, <1>4, <1>13
<1>15. c.cost = m
  <2>1. /\ Rank(b)[1] = t /\ Rank(b)[2] = 0 /\ Rank(b)[3] = m
        /\ Rank(c)[1] = t /\ Rank(c)[2] = 0 /\ Rank(c)[3] = c.cost
    BY <1>6, <1>14 DEF Rank
  <2>2. ~(m < c.cost)
    BY <1>10, <2>1 DEF Below
  <2>q. QED
    BY <1>3, <1>14, <2>2
<1>16. Rank(r) = <<t, 0, m>> /\ Rank(b) = <<t, 0, m>>
  BY <1>6, <1>9, <1>14, <1>15 DEF Rank
<1>17. ~Below(<<t, 0, m>>, Rank(r))
  BY <1>7, <1>8, <1>16 DEF Merged
<1>18. r # NoRoute
  BY <1>8, ProperIsRoute DEF Merged
<1> HIDE DEF r
<1>19. RightRoute(r, Ranks(d, D))
  BY <1>2, <1>16, <1>17, <1>18 DEF RightRoute
<1>q. QED
  BY <1>19 DEF r

LEMMA OutsideRight ==
    ASSUME Finished, OneWay, NEW D, D = DistancesFrom(Root), NEW d, NEW S \in Offers(d),
           Inside(d, D) = {}
    PROVE  RightRoute(TableRoute(S), Ranks(d, D))
<1> DEFINE r == TableRoute(S)
           K == ExternalRanks(d, D)
<1>1. Ranks(d, D) = K
  BY DEF Ranks, Inside
<1>2. Within(d) = {}
  BY WithinIs
<1>3. /\ S \in SUBSET Proper /\ IsFiniteSet(S)
      /\ \A c \in S : Rank(c) \in K
      /\ \A k \in K : \E c \in S : Rank(c) = k
  BY <1>2, OfferIs
<1>4. IF S = {} THEN r = NoRoute ELSE Merged(S, r)
  BY <1>3, TableRouteIs
<1> HIDE DEF r, K
<1>5. ASSUME S = {} PROVE RightRoute(r, K)
  BY <1>3, <1>4, <1>5 DEF RightRoute
<1>6. ASSUME S # {} PROVE RightRoute(r, K)
  <2>1. r \in Proper /\ Rank(r) \in K /\ \A k \in K : ~Below(k, Rank(r))
    BY <1>3, <1>4, <1>6 DEF Merged
  <2>q. QED
    BY <2>1, ProperIsRoute DEF RightRoute
<1>q. QED
  BY <1>1, <1>5, <1>6 DEF r

LEMMA RoutesHold == SInv /\ OneWay => RoutesAreShortest
<1> SUFFICES ASSUME SInv, OneWay, cand = {}, NEW D, D = DistancesFrom(Root), NEW d, NEW S \in Offers(d)
             PROVE  RightRoute(TableRoute(S), Ranks(d, D))
  BY Zenon DEF RoutesAreShortest, RightRoute
<1>1. Finished
  BY DEF Finished
<1>q. QED
  BY <1>1, InsideRight, OutsideRight

(* From the LSAs to the routing table, for every database and every set of *)
(* stub links, summaries and externals: the class and the cost of the      *)
(* route to each destination are those of the shortest path.               *)
THEOREM RoutesAreRight == ASSUME OneKeyEach PROVE Spec => [](OneWay => RoutesAreShortest)
  BY Invariance, RoutesHold, PTL


-----------------------------------------------------------------------------
(* Segment routing, whatever label ranges the routers have.                *)

LEMMA InSrRoutes ==
    ASSUME NEW e \in SrRoutes
    PROVE  \E s \in PrefixSids : \E h \in EntryOf(s).hops, l \in Labels(s) :
              /\ InTree(s.from)
              /\ e = [from |-> s.from, to |-> s.to, dist |-> EntryOf(s).dist, hop |-> h, label |-> l]
<1> DEFINE F(s) == {[from |-> s.from, to |-> s.to, dist |-> EntryOf(s).dist, hop |-> h, label |-> l] :
                      h \in EntryOf(s).hops, l \in Labels(s)}
           T == {t \in PrefixSids : InTree(t.from) /\ (t.noPhp \/ EntryOf(t).v # Root)}
<1>1. SrRoutes = UNION {F(s) : s \in T}
  BY DEF SrRoutes
<1>2. \A s \in T : s \in PrefixSids /\ InTree(s.from)
  BY Zenon
<1> HIDE DEF T
<1>3. PICK s \in T : e \in F(s)
  <2> HIDE DEF F
  <2>q. QED
    BY <1>1
<1>4. PICK h \in EntryOf(s).hops, l \in Labels(s) :
         e = [from |-> s.from, to |-> s.to, dist |-> EntryOf(s).dist, hop |-> h, label |-> l]
  BY <1>3
<1>q. QED
  BY <1>2, <1>3, <1>4, Zenon

LEMMA SrHold == SInv => SrRoutesLead
<1> SUFFICES ASSUME SInv, NEW e \in SrRoutes, e.hop # Direct
             PROVE  /\ e.hop \in Leads(lsdb, Root)
                    /\ Cost(lsdb, Root, e.hop)
                         + [s \in Leads(lsdb, Root) |-> DistancesFrom(s)][e.hop][e.from] = e.dist
                    /\ Understood(e.from, e)
                    /\ ByIndex(e) /\ RangeOf(e.hop) = RangeOf(e.from) => Understood(e.hop, e)
  BY DEF SrRoutesLead
<1> DEFINE D == [s \in Leads(lsdb, Root) |-> DistancesFrom(s)]
<1>1. PICK s \in PrefixSids : \E h \in EntryOf(s).hops, l \in Labels(s) :
         /\ InTree(s.from)
         /\ e = [from |-> s.from, to |-> s.to, dist |-> EntryOf(s).dist, hop |-> h, label |-> l]
  BY InSrRoutes
<1>2. /\ InTree(s.from) /\ e.from = s.from /\ e.to = s.to /\ e.dist = EntryOf(s).dist
      /\ e.hop \in EntryOf(s).hops /\ e.label \in Labels(s)
  BY <1>1
<1>3. s.from \in Router /\ s.sid \in Nat
  BY SegmentRoutingAssumption
<1> DEFINE v == s.from
<1>4. v \in Vertex /\ v \in Seen /\ EntryOf(s) = tree[IdOf[v]]
  BY <1>2, <1>3 DEF Vertex, Seen, EntryOf
<1>5. tree[IdOf[v]] \in Entry /\ e.hop \in tree[IdOf[v]].hops
  BY <1>2, <1>4 DEF SInv, Keyed
<1>6. e.hop \in Router
  BY <1>5 DEF Entry
<1>7. v # Root
  BY <1>4, <1>5 DEF SInv, RootFirst, RootEntry
<1>8. Placed(v)
  BY <1>4, SeenIsPlaced
<1>9. \E z \in StartOf(e.hop) : z \in Leads(lsdb, Root) /\ Cost(lsdb, Root, z) + D[z][v] = tree[IdOf[v]].dist
  BY <1>4, <1>5, <1>7, <1>8, HopsHold DEF NextHopsLead
<1>10. StartOf(e.hop) = {e.hop}
  BY DEF StartOf
<1>11. e.hop \in Leads(lsdb, Root) /\ Cost(lsdb, Root, e.hop) + D[e.hop][v] = e.dist
  BY <1>2, <1>4, <1>9, <1>10
<1>12. Understood(e.from, e)
  BY <1>2 DEF Labels, Understood
<1>13. ASSUME ByIndex(e), RangeOf(e.hop) = RangeOf(e.from) PROVE Understood(e.hop, e)
  <2>1. ~s.absolute
    BY <1>2, <1>13 DEF ByIndex
  <2>2. PICK j \in RouterInfo : j.from = e.from /\ s.sid < j.size /\ e.label = j.start + s.sid
    BY <1>2, <2>1 DEF Labels
  <2>3. <<j.start, j.size>> \in RangeOf(e.hop)
    BY <1>13, <2>2 DEF RangeOf
  <2>4. PICK i \in RouterInfo : i.from = e.hop /\ i.start = j.start /\ i.size = j.size
    BY <2>3 DEF RangeOf
  <2>q. QED
    BY <1>2, <2>1, <2>2, <2>4 DEF Understood
<1>q. QED
  BY <1>2, <1>11, <1>12, <1>13

(* compute_sr_routes, for all label ranges and SIDs: a packet that leaves  *)
(* by an SR route is on a shortest path to the router that advertises the  *)
(* prefix, with a label that stands for the prefix at that router, and at  *)
(* its next router if that one has the same range.                         *)
THEOREM SrRoutesAreRight == ASSUME OneKeyEach PROVE Spec => []SrRoutesLead
  BY Invariance, SrHold, PTL

=============================================================================
