------------------------- MODULE RouteChoiceProofs -------------------------
(***************************************************************************)
(* Proofs about module RouteChoice: merging candidates one after the other *)
(* gives what the reference says of the set of them, for any number of     *)
(* candidates and whatever their order.  The proof is by induction over    *)
(* finite sets, in a form that quantifies over sets of sets.               *)
(***************************************************************************)
EXTENDS RouteChoice, FiniteSetTheorems, WellFoundedInduction, TLAPS

-----------------------------------------------------------------------------
(* Induction.                                                              *)

(* What holds of a set when it holds of the set without any one of its     *)
(* members holds of all finite sets.                                       *)
LEMMA SetInduction ==
    ASSUME NEW D, IsFiniteSet(D), NEW T \in SUBSET SUBSET D,
           \A A \in SUBSET D : (\A x \in A : A \ {x} \in T) => A \in T
    PROVE  T = SUBSET D
<1> DEFINE F == (SUBSET D) \ T
           Less == StrictSubsetOrdering(D)
<1>1. IsWellFoundedOn(Less, SUBSET D)
  BY FS_StrictSubsetOrderingWellFounded, FS_FiniteSubsetsOfFinite
<1>2. SUFFICES ASSUME F # {} PROVE FALSE
  OBVIOUS
<1> HIDE DEF Less
<1>3. PICK A \in F : \A B \in F : ~(<<B, A>> \in Less)
  <2>1. F \subseteq SUBSET D
    OBVIOUS
  <2> HIDE DEF F
  <2>q. QED
    BY <1>1, <1>2, <2>1, WFMin
<1>4. ASSUME NEW x \in A PROVE A \ {x} \in T
  <2>1. A \ {x} \in SUBSET D /\ <<A \ {x}, A>> \in Less
    BY <1>3, <1>4 DEF Less, StrictSubsetOrdering
  <2>q. QED
    BY <1>3, <2>1
<1>5. A \in SUBSET D /\ A \notin T
  BY <1>3
<1> HIDE DEF F
<1>q. QED
  BY <1>4, <1>5

LEMMA GreatestExists ==
    ASSUME NEW D \in SUBSET Nat, IsFiniteSet(D), D # {}
    PROVE  \E m \in D : \A n \in D : n <= m
<1> DEFINE T == {A \in SUBSET D : A # {} => \E m \in A : \A n \in A : n <= m}
<1>1. ASSUME NEW A \in SUBSET D, \A x \in A : A \ {x} \in T PROVE A \in T
  <2> SUFFICES ASSUME A # {} PROVE \E m \in A : \A n \in A : n <= m
    OBVIOUS
  <2>1. PICK x \in A : TRUE
    OBVIOUS
  <2>2. CASE A \ {x} = {}
    BY <2>1, <2>2
  <2>3. CASE A \ {x} # {}
    <3>1. PICK b \in A \ {x} : \A n \in A \ {x} : n <= b
      BY <1>1, <2>1, <2>3
    <3>2. CASE x <= b
      BY <3>1, <3>2
    <3>3. CASE ~(x <= b)
      <4>1. \A n \in A : n <= x
        BY <3>1, <3>3
      <4>q. QED
        BY <2>1, <4>1
    <3>q. QED
      BY <3>2, <3>3
  <2>q. QED
    BY <2>2, <2>3
<1>2. T \in SUBSET SUBSET D
  OBVIOUS
<1> HIDE DEF T
<1>3. T = SUBSET D
  BY <1>1, <1>2, SetInduction
<1>4. D \in T
  BY <1>3
<1>q. QED
  BY <1>4 DEF T

-----------------------------------------------------------------------------
(* Folds of Merge: f[u] merges s[x] for every x of u, pick[u] last.        *)

Folds1(f, A, s, pick) ==
    \A u \in SUBSET A :
       f[u] = IF u = {} THEN NoRoute ELSE Merge(f[u \ {pick[u]}], s[pick[u]])

LEMMA FoldsAgree ==
    ASSUME NEW D, IsFiniteSet(D), NEW s, NEW pick,
           \A u \in SUBSET D : u # {} => pick[u] \in u,
           NEW A \in SUBSET D, NEW B \in SUBSET D, NEW f, NEW g,
           Folds1(f, A, s, pick), Folds1(g, B, s, pick),
           NEW C \in SUBSET A, C \in SUBSET B
    PROVE  f[C] = g[C]
<1> DEFINE T == {u \in SUBSET C : f[u] = g[u]}
<1>1. ASSUME NEW u \in SUBSET C, \A x \in u : u \ {x} \in T PROVE u \in T
  <2>1. u \in SUBSET A /\ u \in SUBSET B /\ u \in SUBSET D
    OBVIOUS
  <2>2. CASE u = {}
    BY <2>1, <2>2 DEF Folds1
  <2>3. CASE u # {}
    <3>1. pick[u] \in u
      BY <2>1, <2>3
    <3>2. f[u \ {pick[u]}] = g[u \ {pick[u]}]
      BY <1>1, <3>1
    <3>3. f[u] = Merge(f[u \ {pick[u]}], s[pick[u]])
      BY <2>1, <2>3 DEF Folds1
    <3>4. g[u] = Merge(g[u \ {pick[u]}], s[pick[u]])
      BY <2>1, <2>3 DEF Folds1
    <3>q. QED
      BY <3>2, <3>3, <3>4
  <2>q. QED
    BY <2>2, <2>3
<1>2. T \in SUBSET SUBSET C /\ IsFiniteSet(C)
  <2>1. C \in SUBSET D
    OBVIOUS
  <2>q. QED
    BY <2>1, FS_Subset
<1> HIDE DEF T
<1>3. T = SUBSET C
  <2>1. \A u \in SUBSET C : (\A x \in u : u \ {x} \in T) => u \in T
    BY <1>1
  <2>q. QED
    BY <1>2, <2>1, SetInduction
<1>4. C \in T
  BY <1>3
<1>q. QED
  BY <1>4 DEF T

LEMMA FoldExists ==
    ASSUME NEW D, IsFiniteSet(D), NEW s, NEW pick,
           \A u \in SUBSET D : u # {} => pick[u] \in u
    PROVE  \E f : /\ f = [u \in SUBSET D |-> f[u]]
                  /\ Folds1(f, D, s, pick)
<1> DEFINE T == {A \in SUBSET D : \E f : Folds1(f, A, s, pick)}
           F(A) == CHOOSE f : Folds1(f, A, s, pick)
           G(A) == [u \in SUBSET A |->
                      IF u = {} THEN NoRoute
                      ELSE LET v == u \ {pick[u]} IN Merge(F(v)[v], s[pick[u]])]
<1>1. ASSUME NEW A \in SUBSET D, \A u \in SUBSET A : u # A => u \in T
      PROVE  Folds1(G(A), A, s, pick)
  <2>1. \A u \in SUBSET A : u # A => Folds1(F(u), u, s, pick)
    BY <1>1
  <2> DEFINE g == G(A)
  <2> HIDE DEF F
  <2>2. ASSUME NEW u \in SUBSET A, u # {}
        PROVE  g[u] = Merge(g[u \ {pick[u]}], s[pick[u]])
    <3> DEFINE v == u \ {pick[u]}
    <3>1. v \in SUBSET A /\ v # A /\ v \in SUBSET D /\ pick[u] \in u
      BY <2>2
    <3>2. g[u] = Merge(F(v)[v], s[pick[u]])
      BY <2>2
    <3>3. F(v)[v] = g[v]
      <4>1. CASE v = {}
        <5>1. F(v)[v] = NoRoute
          BY <2>1, <3>1, <4>1 DEF Folds1
        <5>q. QED
          BY <4>1, <5>1
      <4>2. CASE v # {}
        <5> DEFINE w == v \ {pick[v]}
        <5>1. w \in SUBSET A /\ w # A /\ w \in SUBSET D /\ w \in SUBSET v
          BY <3>1, <4>2
        <5>2. F(v)[v] = Merge(F(v)[w], s[pick[v]])
          <6> HIDE DEF v
          <6>q. QED
            BY <2>1, <3>1, <4>2 DEF Folds1
        <5>3. F(v)[w] = F(w)[w]
          <6>1. Folds1(F(v), v, s, pick) /\ Folds1(F(w), w, s, pick)
            BY <2>1, <3>1, <5>1
          <6> HIDE DEF v, w
          <6>q. QED
            BY <3>1, <5>1, <6>1, FoldsAgree
        <5>4. g[v] = Merge(F(w)[w], s[pick[v]])
          <6> HIDE DEF v
          <6>q. QED
            BY <3>1, <4>2
        <5>q. QED
          BY <5>2, <5>3, <5>4
      <4>q. QED
        BY <4>1, <4>2
    <3>q. QED
      BY <3>2, <3>3
  <2>3. g[{}] = NoRoute
    OBVIOUS
  <2> HIDE DEF g
  <2>4. Folds1(g, A, s, pick)
    BY <2>2, <2>3 DEF Folds1
  <2>q. QED
    BY <2>4 DEF g
<1>2. ASSUME NEW A \in SUBSET D, \A x \in A : A \ {x} \in T PROVE A \in T
  <2>1. ASSUME NEW u \in SUBSET A, u # A PROVE u \in T
    <3>1. PICK x \in A : x \notin u
      BY <2>1
    <3>2. PICK f : Folds1(f, A \ {x}, s, pick)
      BY <1>2, <3>1
    <3>3. Folds1(f, u, s, pick)
      BY <3>1, <3>2 DEF Folds1
    <3>q. QED
      BY <3>3
  <2>2. Folds1(G(A), A, s, pick)
    BY <1>1, <2>1
  <2> HIDE DEF G
  <2>q. QED
    BY <2>2
<1>3. T \in SUBSET SUBSET D
  OBVIOUS
<1>4. T = SUBSET D
  <2> HIDE DEF T, F, G
  <2>q. QED
    BY <1>2, <1>3, SetInduction
<1>5. Folds1(G(D), D, s, pick)
  BY <1>1, <1>4
<1>6. G(D) = [u \in SUBSET D |-> G(D)[u]]
  OBVIOUS
<1> HIDE DEF G
<1>q. QED
  BY <1>5, <1>6

-----------------------------------------------------------------------------
(* The order of candidates.                                                *)

(* Candidates as route extraction makes them: the external metric of a     *)
(* type 2 external only.                                                   *)
Proper == {c \in Candidate : c.type # 4 => c.cost2 = 0}

LEMMA ProperType ==
    ASSUME NEW c \in Proper
    PROVE  /\ c.type \in 1..4 /\ c.cost \in Nat /\ c.cost2 \in Nat /\ c.hops \in SUBSET Nat
           /\ c.type # 4 => c.cost2 = 0
           /\ c = [type |-> c.type, cost |-> c.cost, cost2 |-> c.cost2, hops |-> c.hops]
           /\ c # NoRoute
<1>1. /\ c.type \in 1..4 /\ c.cost \in Nat /\ c.cost2 \in Nat /\ c.hops \in SUBSET Nat
      /\ c.type # 4 => c.cost2 = 0
      /\ c = [type |-> c.type, cost |-> c.cost, cost2 |-> c.cost2, hops |-> c.hops]
  BY DEF Proper, Candidate
<1>2. NoRoute.type = 0
  BY DEF NoRoute
<1>q. QED
  BY <1>1, <1>2

(* The comparison of the code is that of the ranks.                        *)
LEMMA BetterIsBelow ==
    ASSUME NEW a \in Proper, NEW b \in Proper
    PROVE  IsBetterThan(a, b) <=> Below(Rank(a), Rank(b))
<1>1. /\ Rank(a)[1] = a.type /\ Rank(a)[2] = a.cost2 /\ Rank(a)[3] = a.cost
      /\ Rank(b)[1] = b.type /\ Rank(b)[2] = b.cost2 /\ Rank(b)[3] = b.cost
  BY DEF Rank
<1>q. QED
  BY <1>1, ProperType DEF IsBetterThan, Below

LEMMA RankEqual ==
    ASSUME NEW a \in Proper, NEW b \in Proper
    PROVE  /\ Rank(a) = Rank(b) <=> a.type = b.type /\ a.cost2 = b.cost2 /\ a.cost = b.cost
           /\ Rank(a) = Rank(b) <=> ~Below(Rank(a), Rank(b)) /\ ~Below(Rank(b), Rank(a))
<1>1. /\ Rank(a)[1] = a.type /\ Rank(a)[2] = a.cost2 /\ Rank(a)[3] = a.cost
      /\ Rank(b)[1] = b.type /\ Rank(b)[2] = b.cost2 /\ Rank(b)[3] = b.cost
  BY DEF Rank
<1>2. Rank(a) = Rank(b) <=> a.type = b.type /\ a.cost2 = b.cost2 /\ a.cost = b.cost
  BY <1>1 DEF Rank
<1>3. a.type = b.type /\ a.cost2 = b.cost2 /\ a.cost = b.cost
      <=> ~Below(Rank(a), Rank(b)) /\ ~Below(Rank(b), Rank(a))
  BY <1>1, ProperType DEF Below
<1>q. QED
  BY <1>2, <1>3

LEMMA BelowTransitive ==
    ASSUME NEW a \in Proper, NEW b \in Proper, NEW c \in Proper,
           ~Below(Rank(b), Rank(a)), ~Below(Rank(c), Rank(b))
    PROVE  ~Below(Rank(c), Rank(a))
<1>1. /\ Rank(a)[1] = a.type /\ Rank(a)[2] = a.cost2 /\ Rank(a)[3] = a.cost
      /\ Rank(b)[1] = b.type /\ Rank(b)[2] = b.cost2 /\ Rank(b)[3] = b.cost
      /\ Rank(c)[1] = c.type /\ Rank(c)[2] = c.cost2 /\ Rank(c)[3] = c.cost
  BY DEF Rank
<1>q. QED
  BY <1>1, ProperType DEF Below

-----------------------------------------------------------------------------
(* What merging keeps: the route has the rank of a candidate and of all    *)
(* those as good as it the next hops, and none is better.                  *)

Merged(Q, r) ==
    /\ r \in Proper
    /\ \E c \in Q : Rank(c) = Rank(r)
    /\ \A b \in Q : ~Below(Rank(b), Rank(r))
    /\ r.hops = UNION {c.hops : c \in {b \in Q : Rank(b) = Rank(r)}}

LEMMA MergedIsBest ==
    ASSUME NEW Q \in SUBSET Proper, NEW r, Merged(Q, r)
    PROVE  BestOf(Q) = r
<1>1. PICK a \in Q : Rank(a) = Rank(r)
  BY DEF Merged
<1>2. Top(Q) = {b \in Q : Rank(b) = Rank(r)}
  <2>1. ASSUME NEW b \in Q, Rank(b) = Rank(r) PROVE b \in Top(Q)
    BY <2>1 DEF Merged, Top
  <2>2. ASSUME NEW b \in Top(Q) PROVE Rank(b) = Rank(r)
    <3>1. b \in Proper /\ r \in Proper /\ ~Below(Rank(r), Rank(b)) /\ ~Below(Rank(b), Rank(r))
      BY <1>1 DEF Merged, Top
    <3>q. QED
      BY <3>1, RankEqual
  <2>q. QED
    BY <2>1, <2>2 DEF Top
<1> DEFINE t == CHOOSE c \in Top(Q) : TRUE
           H == UNION {c.hops : c \in Top(Q)}
<1>3. t \in Proper /\ Rank(t) = Rank(r) /\ r \in Proper /\ H = r.hops
  BY <1>1, <1>2 DEF Merged
<1>4. BestOf(Q) = [t EXCEPT !.hops = H]
  BY <1>1 DEF BestOf
<1> HIDE DEF t, H
<1>5. [t EXCEPT !.hops = H] = [type |-> t.type, cost |-> t.cost, cost2 |-> t.cost2, hops |-> H]
  BY <1>3 DEF Proper, Candidate
<1>6. r.type = t.type /\ r.cost = t.cost /\ r.cost2 = t.cost2
  BY <1>3, RankEqual
<1>q. QED
  BY <1>3, <1>4, <1>5, <1>6, ProperType

LEMMA MergeFirstOne ==
    ASSUME NEW c \in Proper
    PROVE  Merged({c}, Merge(NoRoute, c))
<1>1. Merge(NoRoute, c) = c
  BY DEF Merge
<1>2. ~Below(Rank(c), Rank(c))
  BY RankEqual
<1>q. QED
  BY <1>1, <1>2 DEF Merged

LEMMA MergeOneMore ==
    ASSUME NEW Q \in SUBSET Proper, NEW old, Merged(Q, old), NEW c \in Proper
    PROVE  Merged(Q \cup {c}, Merge(old, c))
<1>0. old \in Proper /\ old # NoRoute
  BY ProperType DEF Merged
<1>1. CASE IsBetterThan(c, old)
  <2>1. Merge(old, c) = c
    BY <1>1 DEF Merge
  <2>2. Below(Rank(c), Rank(old))
    BY <1>0, <1>1, BetterIsBelow
  <2>3. ~Below(Rank(old), Rank(c)) /\ Rank(old) # Rank(c) /\ ~Below(Rank(c), Rank(c))
    <3>1. /\ Rank(c)[1] = c.type /\ Rank(c)[2] = c.cost2 /\ Rank(c)[3] = c.cost
          /\ Rank(old)[1] = old.type /\ Rank(old)[2] = old.cost2 /\ Rank(old)[3] = old.cost
      BY DEF Rank
    <3>q. QED
      BY <1>0, <2>2, <3>1, ProperType DEF Below
  <2>4. ASSUME NEW b \in Q PROVE ~Below(Rank(b), Rank(c)) /\ Rank(b) # Rank(c)
    <3>1. ~Below(Rank(b), Rank(old)) /\ b \in Proper
      BY DEF Merged
    <3>2. ~Below(Rank(b), Rank(c))
      BY <1>0, <2>3, <3>1, BelowTransitive
    <3>q. QED
      BY <2>2, <3>1, <3>2
  <2>5. {b \in Q \cup {c} : Rank(b) = Rank(c)} = {c}
    BY <2>4
  <2>6. UNION {b.hops : b \in {c}} = c.hops
    OBVIOUS
  <2>q. QED
    BY <2>1, <2>3, <2>4, <2>5, <2>6 DEF Merged
<1>2. CASE ~IsBetterThan(c, old) /\ ~IsBetterThan(old, c)
  <2> DEFINE r == [old EXCEPT !.hops = @ \cup c.hops]
  <2>1. Rank(c) = Rank(old) /\ c.type = old.type
    BY <1>0, <1>2, BetterIsBelow, RankEqual
  <2>2. Merge(old, c) = r
    BY <1>0, <1>2, <2>1 DEF Merge
  <2>3. r.type = old.type /\ r.cost = old.cost /\ r.cost2 = old.cost2 /\ r.hops = old.hops \cup c.hops /\ r \in Proper
    BY <1>0, ProperType DEF Proper, Candidate
  <2>4. Rank(r) = Rank(old)
    BY <2>3 DEF Rank
  <2> HIDE DEF r
  <2>5. \A b \in Q \cup {c} : ~Below(Rank(b), Rank(r))
    <3>1. ~Below(Rank(old), Rank(old))
      BY <1>0, RankEqual
    <3>q. QED
      BY <2>1, <2>4, <3>1 DEF Merged
  <2>6. r.hops = UNION {b.hops : b \in {b \in Q \cup {c} : Rank(b) = Rank(r)}}
    <3>1. {b \in Q \cup {c} : Rank(b) = Rank(r)} = {b \in Q : Rank(b) = Rank(old)} \cup {c}
      BY <2>1, <2>4
    <3>2. old.hops = UNION {b.hops : b \in {b \in Q : Rank(b) = Rank(old)}}
      BY DEF Merged
    <3> DEFINE B == {b \in Q : Rank(b) = Rank(old)}
    <3> HIDE DEF B
    <3>3. UNION {b.hops : b \in B \cup {c}} = (UNION {b.hops : b \in B}) \cup c.hops
      OBVIOUS
    <3>q. QED
      BY <2>3, <3>1, <3>2, <3>3 DEF B
  <2>q. QED
    BY <2>1, <2>2, <2>3, <2>4, <2>5, <2>6 DEF Merged
<1>3. CASE ~IsBetterThan(c, old) /\ IsBetterThan(old, c)
  <2>1. Merge(old, c) = old
    BY <1>0, <1>3 DEF Merge
  <2>2. ~Below(Rank(c), Rank(old)) /\ Rank(c) # Rank(old)
    BY <1>0, <1>3, BetterIsBelow, RankEqual
  <2>3. {b \in Q \cup {c} : Rank(b) = Rank(old)} = {b \in Q : Rank(b) = Rank(old)}
    BY <2>2
  <2>q. QED
    BY <2>1, <2>2, <2>3 DEF Merged
<1>q. QED
  BY <1>1, <1>2, <1>3

(* So a fold of Merge over any finite set of indices, in any order.        *)
LEMMA FoldIsMerged ==
    ASSUME NEW D, IsFiniteSet(D), NEW s, \A x \in D : s[x] \in Proper,
           NEW pick, \A u \in SUBSET D : u # {} => pick[u] \in u,
           NEW f, Folds1(f, D, s, pick), NEW Q, \A q : q \in Q <=> \E x \in D : q = s[x]
    PROVE  /\ f[D] = BestOf(Q) /\ f[D] \in Proper \cup {NoRoute}
           /\ IF Q = {} THEN f[D] = NoRoute ELSE Merged(Q, f[D])
<1> DEFINE Image(u) == {s[x] : x \in u}
           T == {u \in SUBSET D : IF u = {} THEN f[u] = NoRoute ELSE Merged(Image(u), f[u])}
<1>1. ASSUME NEW u \in SUBSET D, \A x \in u : u \ {x} \in T PROVE u \in T
  <2>1. CASE u = {}
    BY <2>1 DEF Folds1
  <2>2. CASE u # {}
    <3> DEFINE p == pick[u]
               v == u \ {p}
    <3>1. p \in u /\ v \in T /\ s[p] \in Proper
      BY <1>1, <2>2
    <3>2. f[u] = Merge(f[v], s[p])
      BY <2>2 DEF Folds1
    <3>3. CASE v = {}
      <4>1. f[v] = NoRoute /\ Image(u) = {s[p]}
        BY <3>1, <3>3
      <4>q. QED
        BY <2>2, <3>1, <3>2, <4>1, MergeFirstOne
    <3>4. CASE v # {}
      <4>1. Merged(Image(v), f[v])
        BY <3>1, <3>4
      <4>2. Image(v) \in SUBSET Proper /\ Image(u) = Image(v) \cup {s[p]}
        BY <3>1
      <4> HIDE DEF Image, v, p
      <4>3. Merged(Image(v) \cup {s[p]}, Merge(f[v], s[p]))
        BY <3>1, <4>1, <4>2, MergeOneMore
      <4>q. QED
        BY <2>2, <3>2, <4>2, <4>3
    <3>q. QED
      BY <3>3, <3>4
  <2>q. QED
    BY <2>1, <2>2
<1>2. T \in SUBSET SUBSET D
  OBVIOUS
<1>3. D \in T
  <2> HIDE DEF T
  <2>1. T = SUBSET D
    BY <1>1, <1>2, SetInduction
  <2>q. QED
    BY <2>1
<1>4. CASE D = {}
  <2>1. Q = {}
    BY <1>4
  <2>q. QED
    BY <1>3, <1>4, <2>1 DEF BestOf
<1>5. CASE D # {}
  <2>1. Merged(Q, f[D]) /\ Q \in SUBSET Proper
    <3>1. Q = Image(D)
      OBVIOUS
    <3>q. QED
      BY <1>3, <1>5, <3>1
  <2>q. QED
    BY <2>1, MergedIsBest DEF Merged
<1>q. QED
  BY <1>4, <1>5

LEMMA FoldIsBest ==
    ASSUME NEW D, IsFiniteSet(D), NEW s, \A x \in D : s[x] \in Proper,
           NEW pick, \A u \in SUBSET D : u # {} => pick[u] \in u,
           NEW f, Folds1(f, D, s, pick), NEW Q, \A q : q \in Q <=> \E x \in D : q = s[x]
    PROVE  f[D] = BestOf(Q) /\ f[D] \in Proper \cup {NoRoute}
  BY FoldIsMerged

(* FoldLeft is such a fold, over the indices, the greatest last.           *)
LEMMA FoldLeftIsBest ==
    ASSUME NEW s, IsFiniteSet(DOMAIN s), \A x \in DOMAIN s : s[x] \in Proper,
           \A u \in SUBSET DOMAIN s : u # {} => Max(u) \in u
    PROVE  Best(s) = BestOf(ToSet(s)) /\ Best(s) \in Proper \cup {NoRoute}
<1> DEFINE D == DOMAIN s
           pick == [u \in SUBSET D |-> Max(u)]
           IsIt(f) == f = [u \in SUBSET D |->
                             IF u = {} THEN NoRoute
                             ELSE LET x == Max(u) IN Merge(f[u \ {x}], s[x])]
           it == CHOOSE f : IsIt(f)
<1>1. IsFiniteSet(D) /\ \A x \in D : s[x] \in Proper
  OBVIOUS
<1>2. Best(s) = it[D]
  BY DEF Best, FoldLeft, MapThenFoldSet
<1>3. \A q : q \in ToSet(s) <=> \E x \in D : q = s[x]
  BY DEF ToSet
<1>4. \A u \in SUBSET D : pick[u] = Max(u) /\ (u # {} => pick[u] \in u)
  OBVIOUS
<1> HIDE DEF D, pick
<1>5. PICK f : f = [u \in SUBSET D |-> f[u]] /\ Folds1(f, D, s, pick)
  BY <1>1, <1>4, FoldExists
<1>6. IsIt(f)
  BY <1>4, <1>5 DEF Folds1
<1>7. IsIt(it)
  <2> HIDE DEF IsIt
  <2>q. QED
    BY <1>6
<1> HIDE DEF it
<1>8. Folds1(it, D, s, pick)
  BY <1>4, <1>7 DEF Folds1
<1> HIDE DEF IsIt
<1>9. it[D] = BestOf(ToSet(s)) /\ it[D] \in Proper \cup {NoRoute}
  BY <1>1, <1>3, <1>4, <1>8, FoldIsBest
<1>q. QED
  BY <1>2, <1>9

(* update: what is kept of a list of candidates does not depend on their   *)
(* order.                                                                  *)
THEOREM BestOfList ==
    ASSUME NEW n \in Nat, NEW s, DOMAIN s = 1..n, \A i \in 1..n : s[i] \in Proper
    PROVE  Best(s) = BestOf(ToSet(s)) /\ Best(s) \in Proper \cup {NoRoute}
<1>1. IsFiniteSet(DOMAIN s) /\ \A x \in DOMAIN s : s[x] \in Proper
  BY FS_Interval
<1>2. ASSUME NEW u \in SUBSET DOMAIN s, u # {} PROVE Max(u) \in u
  <2>1. u \in SUBSET Nat /\ IsFiniteSet(u)
    BY <1>1, FS_Subset
  <2>2. \E m \in u : \A x \in u : x <= m
    BY <1>2, <2>1, GreatestExists
  <2>3. \E m \in u : \A x \in u : m >= x
    BY <2>1, <2>2
  <2>q. QED
    BY <2>3 DEF Max
<1>q. QED
  BY <1>1, <1>2, FoldLeftIsBest
=============================================================================
