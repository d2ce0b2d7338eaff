----------------------------- MODULE PullProofs -----------------------------
(* Proofs about MCPull for any bounds: the search of the revision graph    *)
(* (Workspace) and the snapshots (Snapshots).                              *)
EXTENDS MCPull, FiniteSetTheorems, SequenceTheorems, TLAPS

-----------------------------------------------------------------------------
(* Induction over sets of naturals, from the theorem that inclusion of     *)
(* finite sets is well-founded.                                            *)

LEMMA LeastNatural ==
    ASSUME NEW T \in SUBSET Nat, T # {}
    PROVE  \E n \in T : \A m \in T : n <= m
<1> DEFINE X == {1 .. n : n \in T}
<1>1. X \subseteq FiniteSubsetsOf(Nat) /\ X # {}
  <2>1. \A n \in T : IsFiniteSet(1 .. n) /\ 1 .. n \in SUBSET Nat
    BY FS_Interval
  <2> QED
    BY <2>1 DEF FiniteSubsetsOf
<1>2. \E x \in X : \A y \in X : <<y, x>> \notin StrictSubsetOrdering(Nat)
  <2> HIDE DEF X
  <2> QED
    BY <1>1, FS_StrictSubsetOrderingWellFounded, WFMin
<1>3. PICK n \in T : \A y \in X : <<y, 1 .. n>> \notin StrictSubsetOrdering(Nat)
  BY <1>2
<1>4. ASSUME NEW m \in T, m < n PROVE FALSE
  <2>1. 1 .. m \subseteq 1 .. n /\ 1 .. m # 1 .. n
    BY <1>4
  <2>2. <<1 .. m, 1 .. n>> \in StrictSubsetOrdering(Nat)
    BY <2>1 DEF StrictSubsetOrdering
  <2> QED
    BY <1>3, <2>2
<1> QED
  BY <1>3, <1>4

LEMMA AllNaturals ==
    ASSUME NEW T \in SUBSET Nat, 0 \in T, \A n \in T : n + 1 \in T
    PROVE  T = Nat
<1> SUFFICES ASSUME Nat \ T # {} PROVE FALSE
  OBVIOUS
<1>1. PICK n \in Nat \ T : \A m \in Nat \ T : n <= m
  BY LeastNatural
<1>2. n - 1 \in Nat /\ n - 1 \notin Nat \ T
  BY <1>1
<1> QED
  BY <1>1, <1>2

-----------------------------------------------------------------------------
(* The closures of the search: what a revision reaches, level by level.    *)

AreLevels(g, N, from, F) ==
    g = [k \in 0 .. N |-> IF k = 0 THEN from
                          ELSE g[k - 1] \cup UNION {F[m] : m \in g[k - 1]}]

(* The equation that defines the levels has a solution.                    *)
LEMMA LevelsExist ==
    ASSUME NEW N \in Nat, NEW from, NEW F
    PROVE  \E g : AreLevels(g, N, from, F)
<1> DEFINE Is(g, n) ==
      g = [k \in 0 .. n |-> IF k = 0 THEN from
                            ELSE g[k - 1] \cup UNION {F[m] : m \in g[k - 1]}]
           T == {n \in Nat : \E g : Is(g, n)}
<1>1. 0 \in T
  <2>1. Is([k \in 0 .. 0 |-> from], 0)
    OBVIOUS
  <2> QED
    BY <2>1
<1>2. ASSUME NEW n \in T PROVE n + 1 \in T
  <2>1. PICK g : Is(g, n)
    BY <1>2
  <2> DEFINE h == [k \in 0 .. (n + 1) |-> IF k <= n THEN g[k]
                                          ELSE g[n] \cup UNION {F[m] : m \in g[n]}]
  <2>2. \A k \in 0 .. n : g[k] = IF k = 0 THEN from
                                 ELSE g[k - 1] \cup UNION {F[m] : m \in g[k - 1]}
    BY <2>1
  <2>3. ASSUME NEW k \in 0 .. (n + 1)
        PROVE  h[k] = IF k = 0 THEN from
                      ELSE h[k - 1] \cup UNION {F[m] : m \in h[k - 1]}
    <3>1. CASE k <= n /\ k # 0
      <4>1. k \in 0 .. n /\ k - 1 \in 0 .. (n + 1) /\ k - 1 <= n
        BY <3>1
      <4>2. h[k] = g[k] /\ h[k - 1] = g[k - 1]
        BY <4>1, <3>1
      <4> HIDE DEF h
      <4> QED
        BY <4>2, <4>1, <3>1, <2>2
    <3>2. CASE k = 0
      <4>1. 0 \in 0 .. n /\ h[k] = g[0]
        BY <3>2
      <4> HIDE DEF h
      <4> QED
        BY <3>2, <4>1, <2>2
    <3>3. CASE k = n + 1
      <4>1. h[k] = g[n] \cup UNION {F[m] : m \in g[n]} /\ h[k - 1] = g[n] /\ k # 0
        BY <3>3
      <4> HIDE DEF h
      <4> QED
        BY <4>1
    <3> QED
      BY <3>1, <3>2, <3>3
  <2>4. Is(h, n + 1)
    BY <2>3
  <2> HIDE DEF h
  <2> QED
    BY <2>4
<1>3. N \in T
  <2> HIDE DEF T
  <2> QED
    BY <1>1, <1>2, AllNaturals DEF T
<1> QED
  BY <1>3 DEF AreLevels

(* So a closure is the last of levels that grow by what is next.           *)
LEMMA ClosureByLevels ==
    ASSUME NEW F, NEW n
    PROVE  \E g : /\ g[0] = {n}
                  /\ \A k \in 0 .. MaxNodes :
                        g[k + 1] = g[k] \cup UNION {F[m] : m \in g[k]}
                  /\ W!Closure(F, n) = g[MaxNodes + 1]
<1>0. MaxNodes \in Nat /\ MaxNodes + 1 \in Nat
  BY NodesAssumption
<1> DEFINE Is(g) == AreLevels(g, MaxNodes + 1, {n}, F)
           level == CHOOSE g : Is(g)
<1>1. \E g : Is(g)
  BY <1>0, LevelsExist
<1>2. Is(level)
  BY <1>1
<1>3. W!Closure(F, n) = level[MaxNodes + 1]
  BY DEF W!Closure, AreLevels
<1> HIDE DEF level
<1>4. level[0] = {n}
  BY <1>0, <1>2 DEF AreLevels
<1>5. ASSUME NEW k \in 0 .. MaxNodes
      PROVE  level[k + 1] = level[k] \cup UNION {F[m] : m \in level[k]}
  <2>1. k + 1 \in 0 .. MaxNodes + 1 /\ k + 1 # 0 /\ (k + 1) - 1 = k
    BY <1>0
  <2>2. level[k + 1] = IF k + 1 = 0 THEN {n} ELSE level[(k + 1) - 1] \cup UNION {F[m] : m \in level[(k + 1) - 1]}
    BY <1>2, <2>1 DEF AreLevels
  <2> QED
    BY <2>1, <2>2
<1> QED
  BY <1>3, <1>4, <1>5

(* It is within every set that is closed,                                  *)
LEMMA ClosureLeast ==
    ASSUME NEW F, NEW n, NEW S, n \in S, \A m \in S : F[m] \subseteq S
    PROVE  n \in W!Closure(F, n) /\ W!Closure(F, n) \subseteq S
<1>0. MaxNodes \in Nat /\ MaxNodes + 1 \in Nat
  BY NodesAssumption
<1>1. PICK g : /\ g[0] = {n}
               /\ \A k \in 0 .. MaxNodes :
                     g[k + 1] = g[k] \cup UNION {F[m] : m \in g[k]}
               /\ W!Closure(F, n) = g[MaxNodes + 1]
  BY ClosureByLevels, SMTT(20)
<1> DEFINE T == {k \in Nat : k <= MaxNodes + 1 => n \in g[k] /\ g[k] \subseteq S}
<1>2. 0 \in T
  BY <1>1
<1>3. ASSUME NEW k \in T PROVE k + 1 \in T
  <2> SUFFICES ASSUME k + 1 <= MaxNodes + 1 PROVE n \in g[k + 1] /\ g[k + 1] \subseteq S
    OBVIOUS
  <2>1. k \in 0 .. MaxNodes /\ k <= MaxNodes + 1
    BY <1>0
  <2>2. n \in g[k] /\ g[k] \subseteq S
    BY <2>1
  <2>3. g[k + 1] = g[k] \cup UNION {F[m] : m \in g[k]}
    BY <1>1, <2>1
  <2> QED
    BY <2>2, <2>3
<1>4. MaxNodes + 1 \in T
  <2>1. T \in SUBSET Nat
    OBVIOUS
  <2> HIDE DEF T
  <2> QED
    BY <1>0, <1>2, <1>3, <2>1, AllNaturals
<1> QED
  BY <1>0, <1>1, <1>4

(* and closed itself, when what is next has a lower rank below the number  *)
(* of levels.                                                              *)
LEMMA ClosureClosed ==
    ASSUME NEW F, NEW n, NEW S, n \in S,
           NEW rank \in [S -> 0 .. MaxNodes],
           \A m \in S : F[m] \subseteq S /\ \A p \in F[m] : rank[p] < rank[m]
    PROVE  \A m \in W!Closure(F, n) : F[m] \subseteq W!Closure(F, n)
<1>0. MaxNodes \in Nat /\ MaxNodes + 1 \in Nat
  BY NodesAssumption
<1>1. PICK g : /\ g[0] = {n}
               /\ \A k \in 0 .. MaxNodes :
                     g[k + 1] = g[k] \cup UNION {F[m] : m \in g[k]}
               /\ W!Closure(F, n) = g[MaxNodes + 1]
  BY ClosureByLevels
<1> DEFINE T == {k \in Nat : k <= MaxNodes =>
                    /\ g[k] \subseteq S
                    /\ \A m \in g[k + 1] : m \in g[k] \/ rank[m] + k + 1 <= MaxNodes}
<1>2. 0 \in T
  <2>1. g[0 + 1] = g[0] \cup UNION {F[m] : m \in g[0]}
    BY <1>0, <1>1
  <2>2. ASSUME NEW p \in g[0 + 1], p \notin g[0] PROVE rank[p] + 0 + 1 <= MaxNodes
    <3>1. p \in F[n]
      BY <2>1, <2>2, <1>1
    <3>2. p \in S /\ rank[p] < rank[n] /\ rank[p] \in 0 .. MaxNodes /\ rank[n] \in 0 .. MaxNodes
      BY <3>1
    <3> QED
      BY <3>2, <1>0
  <2> QED
    BY <1>1, <2>2
<1>3. ASSUME NEW k \in T PROVE k + 1 \in T
  <2> SUFFICES ASSUME k + 1 <= MaxNodes
               PROVE  /\ g[k + 1] \subseteq S
                      /\ \A p \in g[(k + 1) + 1] :
                            p \in g[k + 1] \/ rank[p] + (k + 1) + 1 <= MaxNodes
    OBVIOUS
  <2>1. k \in 0 .. MaxNodes /\ k + 1 \in 0 .. MaxNodes
    BY <1>0
  <2>2. /\ g[k + 1] = g[k] \cup UNION {F[m] : m \in g[k]}
        /\ g[(k + 1) + 1] = g[k + 1] \cup UNION {F[m] : m \in g[k + 1]}
    BY <1>1, <2>1
  <2>3. g[k] \subseteq S /\ \A m \in g[k + 1] : m \in g[k] \/ rank[m] + k + 1 <= MaxNodes
    BY <1>3, <2>1
  <2>4. g[k + 1] \subseteq S
    BY <2>2, <2>3
  <2>5. ASSUME NEW p \in g[(k + 1) + 1], p \notin g[k + 1]
        PROVE  rank[p] + (k + 1) + 1 <= MaxNodes
    <3>1. PICK m \in g[k + 1] : p \in F[m]
      BY <2>2, <2>5
    <3>2. m \notin g[k]
      BY <2>2, <2>5, <3>1
    <3>3. rank[m] + k + 1 <= MaxNodes
      BY <2>3, <3>2
    <3>4. p \in S /\ rank[p] < rank[m] /\ rank[p] \in 0 .. MaxNodes /\ rank[m] \in 0 .. MaxNodes
      BY <2>4, <3>1
    <3> QED
      BY <3>3, <3>4, <1>0
  <2> QED
    BY <2>4, <2>5
<1>4. MaxNodes \in T
  <2>1. T \in SUBSET Nat
    OBVIOUS
  <2> HIDE DEF T
  <2> QED
    BY <1>0, <1>2, <1>3, <2>1, AllNaturals
<1>5. /\ g[MaxNodes + 1] = g[MaxNodes] \cup UNION {F[m] : m \in g[MaxNodes]}
      /\ g[MaxNodes] \subseteq S
      /\ \A m \in g[MaxNodes + 1] : m \in g[MaxNodes] \/ rank[m] + MaxNodes + 1 <= MaxNodes
  BY <1>0, <1>1, <1>4
<1>6. g[MaxNodes + 1] \subseteq S
  BY <1>5
<1>7. \A m \in g[MaxNodes + 1] : m \in g[MaxNodes]
  <2> SUFFICES ASSUME NEW m \in g[MaxNodes + 1] PROVE m \in g[MaxNodes]
    OBVIOUS
  <2>1. rank[m] \in 0 .. MaxNodes
    BY <1>6
  <2> QED
    BY <1>0, <1>5, <2>1
<1> QED
  BY <1>1, <1>5, <1>7
-----------------------------------------------------------------------------
(* The graph that is searched.                                             *)

Knots == W!Node \cup {W!NULL_NODE}

Parented == \A n \in W!Node : parents[n] \in W!ParentLists(n)

LEMMA NodeFacts ==
    /\ W!Node = 1 .. MaxNodes /\ MaxNodes \in Nat /\ W!NULL_NODE = 0
    /\ W!None = MaxNodes + 1 /\ Knots = 0 .. MaxNodes /\ W!None \notin Knots
    /\ W!NULL_NODE \notin W!Node
  BY NodesAssumption DEF W!Node, W!NULL_NODE, W!None, Knots

(* Parents are older revisions, and there are at most two.                 *)
LEMMA ParentFacts ==
    ASSUME Parented, NEW n \in W!Node
    PROVE  /\ parents[n] \in Seq(1 .. n - 1)
           /\ Len(parents[n]) \in 0 .. 2
           /\ W!ParentSet(n) \subseteq 1 .. n - 1
           /\ W!ParentSet(n) \subseteq W!Node
           /\ W!ParentSet(n) = {} => parents[n] = <<>>
           /\ W!ParentSet(n) # {} => parents[n][1] \in W!ParentSet(n)
           /\ \A p \in W!ParentSet(n) : 
                 p = parents[n][1] \/ (Len(parents[n]) = 2 /\ p = parents[n][2])
<1>1. n \in 1 .. MaxNodes /\ MaxNodes \in Nat /\ 1 .. n - 1 \subseteq W!Node
  BY NodeFacts
<1>2. \/ parents[n] = <<>>
      \/ \E p \in 1 .. n - 1 : parents[n] = <<p>>
      \/ \E p, q \in 1 .. n - 1 : parents[n] = <<p, q>>
  BY DEF Parented, W!ParentLists
<1>3. parents[n] = <<>> => W!ParentSet(n) = {}
  BY DEF W!ParentSet, W!ToSet
<1>4. ASSUME NEW p \in 1 .. n - 1, parents[n] = <<p>>
      PROVE  W!ParentSet(n) = {p} /\ Len(parents[n]) = 1 /\ parents[n] \in Seq(1 .. n - 1)
             /\ parents[n][1] = p
  BY <1>4 DEF W!ParentSet, W!ToSet
<1>5. ASSUME NEW p \in 1 .. n - 1, NEW q \in 1 .. n - 1, parents[n] = <<p, q>>
      PROVE  W!ParentSet(n) = {p, q} /\ Len(parents[n]) = 2 /\ parents[n] \in Seq(1 .. n - 1)
             /\ parents[n][1] = p /\ parents[n][2] = q
  BY <1>5 DEF W!ParentSet, W!ToSet
<1>6. CASE \E p \in 1 .. n - 1 : parents[n] = <<p>>
  <2>1. PICK p \in 1 .. n - 1 : parents[n] = <<p>>
    BY <1>6
  <2>2. /\ W!ParentSet(n) = {p} /\ Len(parents[n]) = 1
        /\ parents[n] \in Seq(1 .. n - 1) /\ parents[n][1] = p
    BY <1>4, <2>1
  <2>3. W!ParentSet(n) \subseteq 1 .. n - 1 /\ W!ParentSet(n) # {} /\ 1 \in 0 .. 2
    BY <2>2
  <2>4. W!ParentSet(n) \subseteq W!Node
    BY <1>1, <2>3
  <2> QED
    <3>1. Len(parents[n]) \in 0 .. 2
      BY <2>2
    <3>2. \A x \in W!ParentSet(n) : x = parents[n][1]
      BY <2>2
    <3>3. parents[n][1] \in W!ParentSet(n)
      BY <2>2
    <3> QED
      BY <2>2, <2>3, <2>4, <3>1, <3>2, <3>3
<1>7. CASE \E p, q \in 1 .. n - 1 : parents[n] = <<p, q>>
  <2>1. PICK p \in 1 .. n - 1, q \in 1 .. n - 1 : parents[n] = <<p, q>>
    BY <1>7
  <2>2. /\ W!ParentSet(n) = {p, q} /\ Len(parents[n]) = 2
        /\ parents[n] \in Seq(1 .. n - 1) /\ parents[n][1] = p /\ parents[n][2] = q
    BY <1>5, <2>1
  <2>3. W!ParentSet(n) \subseteq 1 .. n - 1 /\ W!ParentSet(n) # {} /\ 2 \in 0 .. 2
    BY <2>2
  <2>4. W!ParentSet(n) \subseteq W!Node
    BY <1>1, <2>3
  <2> QED
    <3>1. Len(parents[n]) \in 0 .. 2
      BY <2>2
    <3>2. \A x \in W!ParentSet(n) :
             x = parents[n][1] \/ (Len(parents[n]) = 2 /\ x = parents[n][2])
      BY <2>2
    <3>3. parents[n][1] \in W!ParentSet(n)
      BY <2>2
    <3> QED
      BY <2>2, <2>3, <2>4, <3>1, <3>2, <3>3
<1>8. CASE parents[n] = <<>>
  <2>1. parents[n] \in Seq(1 .. n - 1) /\ Len(parents[n]) = 0
    BY <1>8
  <2> QED
    BY <1>3, <1>8, <2>1
<1> QED
  BY <1>2, <1>6, <1>7, <1>8

(* Past(n) is the least set with n and the parents of its members.         *)
LEMMA PastFacts ==
    ASSUME Parented, NEW n \in W!Node
    PROVE  /\ n \in W!Past(n)
           /\ W!Past(n) \subseteq 1 .. n
           /\ W!Past(n) \subseteq W!Node
           /\ \A m \in W!Past(n) : W!ParentSet(m) \subseteq W!Past(n)
<1> DEFINE F == [m \in W!Node |-> W!ParentSet(m)]
<1>1. n \in 1 .. MaxNodes /\ MaxNodes \in Nat /\ 1 .. n \subseteq W!Node /\ n \in 1 .. n
  BY NodeFacts
<1>2. W!Past(n) = W!Closure(F, n)
  BY DEF W!Past
<1>3. \A m \in W!Node : F[m] = W!ParentSet(m)
  OBVIOUS
<1> HIDE DEF F
<1>4. \A m \in 1 .. n : F[m] \subseteq 1 .. n
  <2> SUFFICES ASSUME NEW m \in 1 .. n PROVE F[m] \subseteq 1 .. n
    OBVIOUS
  <2>1. m \in W!Node /\ F[m] \subseteq 1 .. m - 1
    BY <1>1, <1>3, ParentFacts
  <2> QED
    BY <1>1, <2>1
<1>5. n \in W!Closure(F, n) /\ W!Closure(F, n) \subseteq 1 .. n
  BY <1>1, <1>4, ClosureLeast
<1> DEFINE rank == [m \in W!Node |-> m]
<1>6. rank \in [W!Node -> 0 .. MaxNodes]
  BY NodeFacts
<1>7. \A m \in W!Node : F[m] \subseteq W!Node /\ \A p \in F[m] : rank[p] < rank[m]
  <2> SUFFICES ASSUME NEW m \in W!Node PROVE F[m] \subseteq W!Node /\ \A p \in F[m] : rank[p] < rank[m]
    OBVIOUS
  <2>1. F[m] \subseteq 1 .. m - 1 /\ F[m] \subseteq W!Node /\ m \in Nat
    BY <1>3, ParentFacts, NodeFacts
  <2> QED
    BY <2>1
<1> HIDE DEF rank
<1>8. \A m \in W!Closure(F, n) : F[m] \subseteq W!Closure(F, n)
  BY <1>6, <1>7, ClosureClosed
<1> QED
  BY <1>1, <1>2, <1>3, <1>5, <1>8

LEMMA PastLeast ==
    ASSUME Parented, NEW n \in W!Node, NEW S, n \in S,
           \A m \in S \cap W!Node : W!ParentSet(m) \subseteq S
    PROVE  W!Past(n) \subseteq S
<1> DEFINE F == [m \in W!Node |-> W!ParentSet(m)]
           R == S \cap W!Node
<1>1. W!Past(n) = W!Closure(F, n)
  BY DEF W!Past
<1>2. n \in R /\ \A m \in R : F[m] \subseteq R
  BY ParentFacts
<1> HIDE DEF F
<1>3. W!Closure(F, n) \subseteq R
  <2> HIDE DEF R
  <2> QED
    BY <1>2, ClosureLeast
<1> QED
  BY <1>1, <1>3

LEMMA PastMonotone ==
    ASSUME Parented, NEW n \in W!Node, NEW m \in W!Past(n)
    PROVE  m \in W!Node /\ W!Past(m) \subseteq W!Past(n)
  BY PastFacts, PastLeast

(* What lies above a revision, by back links of any kind.                  *)
Reach(links, n) ==
    W!Closure([m \in Knots |-> {l[2] : l \in {k \in links : k[1] = m}}], n)

LEMMA ReachIsAbove == \A n : W!Above(n) = Reach(backLinks, n)
  BY DEF W!Above, Reach, Knots, W!Children

Linked(links) ==
    /\ links \subseteq Knots \X W!Node
    /\ \A l \in links : l[1] < l[2]

LEMMA ReachFacts ==
    ASSUME NEW links, Linked(links), NEW n \in Knots
    PROVE  /\ n \in Reach(links, n)
           /\ Reach(links, n) \subseteq Knots
           /\ \A l \in links : l[1] \in Reach(links, n) => l[2] \in Reach(links, n)
<1> DEFINE F == [m \in Knots |-> {l[2] : l \in {k \in links : k[1] = m}}]
<1>1. Reach(links, n) = W!Closure(F, n)
  BY DEF Reach
<1>2. \A m \in Knots : F[m] \subseteq Knots /\ \A p \in F[m] : m < p
  BY NodeFacts DEF Linked
<1>3. \A l \in links : l[1] \in Knots /\ l[2] \in F[l[1]]
  BY DEF Linked
<1> HIDE DEF F
<1>4. n \in W!Closure(F, n) /\ W!Closure(F, n) \subseteq Knots
  BY <1>2, ClosureLeast
<1> DEFINE rank == [m \in Knots |-> MaxNodes - m]
<1>5. rank \in [Knots -> 0 .. MaxNodes]
  BY NodeFacts
<1>6. \A m \in Knots : F[m] \subseteq Knots /\ \A p \in F[m] : rank[p] < rank[m]
  BY <1>2, NodeFacts
<1> HIDE DEF rank
<1>7. \A m \in W!Closure(F, n) : F[m] \subseteq W!Closure(F, n)
  BY <1>5, <1>6, ClosureClosed
<1> QED
  BY <1>1, <1>3, <1>4, <1>7

LEMMA ReachLeast ==
    ASSUME NEW links, Linked(links), NEW n \in Knots, NEW S, n \in S,
           \A l \in links : l[1] \in S => l[2] \in S
    PROVE  Reach(links, n) \subseteq S
<1> DEFINE F == [m \in Knots |-> {l[2] : l \in {k \in links : k[1] = m}}]
           R == S \cap Knots
<1>1. Reach(links, n) = W!Closure(F, n)
  BY DEF Reach
<1>2. n \in R /\ \A m \in R : F[m] \subseteq R
  BY NodeFacts DEF Linked, Knots
<1> HIDE DEF F
<1>3. W!Closure(F, n) \subseteq R
  <2> HIDE DEF R
  <2> QED
    BY <1>2, ClosureLeast
<1> QED
  BY <1>1, <1>3

LEMMA ReachTransitive ==
    ASSUME NEW links, Linked(links), NEW n \in Knots, NEW m \in Reach(links, n)
    PROVE  m \in Knots /\ Reach(links, m) \subseteq Reach(links, n)
<1>1. m \in Knots /\ \A l \in links : l[1] \in Reach(links, n) => l[2] \in Reach(links, n)
  BY ReachFacts
<1> QED
  BY <1>1, ReachLeast

LEMMA ReachGrows ==
    ASSUME NEW links, Linked(links), NEW more, Linked(more), links \subseteq more,
           NEW n \in Knots
    PROVE  Reach(links, n) \subseteq Reach(more, n)
<1>1. n \in Reach(more, n)
      /\ \A l \in links : l[1] \in Reach(more, n) => l[2] \in Reach(more, n)
  BY ReachFacts
<1> QED
  BY <1>1, ReachLeast
-----------------------------------------------------------------------------
(* The decision on the region is the decision on the whole histories.      *)

Compared ==
    /\ theirs \in W!Node
    /\ ours \in W!Node \ {theirs}
    /\ W!Node = W!Past(theirs) \cup W!Past(ours)

(* Every back link that does not start at the null node is a parent's.     *)
LinksReal ==
    /\ Linked(backLinks)
    /\ \A l \in backLinks : l[1] # W!NULL_NODE => l[1] \in W!ParentSet(l[2])

Region ==
    /\ ancestor \in Knots
    /\ region = W!Above(ancestor)
    /\ W!RegionClosed
    /\ theirs \in region /\ ours \in region

LEMMA RegionParentFacts ==
    ASSUME Parented, LinksReal, Region, NEW m \in region
    PROVE  /\ m \in Knots
           /\ W!RegionParents(m) \subseteq region
           /\ W!RegionParents(m) \subseteq W!Node
           /\ \A p \in W!RegionParents(m) : p < m
           /\ m \in W!Node => W!RegionParents(m) \subseteq W!ParentSet(m)
           /\ m \in W!Node /\ m # ancestor => W!RegionParents(m) = W!ParentSet(m)
           /\ m = W!NULL_NODE => W!RegionParents(m) = {}
<1>1. m \in Knots /\ (m = W!NULL_NODE \/ m \in W!Node)
  <2>1. Reach(backLinks, ancestor) \subseteq Knots
    BY ReachFacts DEF LinksReal, Region
  <2> QED
    BY <2>1, ReachIsAbove DEF Region, Knots
<1>2. W!RegionParents(m) \subseteq region
  BY DEF Region, W!RegionClosed
<1>3. m = W!NULL_NODE => W!RegionParents(m) = {}
  BY DEF W!RegionParents, W!ParentsAt
<1>4. m \in W!Node => W!RegionParents(m) = IF m = ancestor THEN {} ELSE W!ParentSet(m)
  BY NodeFacts DEF W!RegionParents, W!ParentsAt
<1>5. m \in W!Node => /\ W!ParentSet(m) \subseteq W!Node
                      /\ \A p \in W!ParentSet(m) : p < m
  BY ParentFacts, NodeFacts
<1> QED
  BY <1>1, <1>2, <1>3, <1>4, <1>5

(* all_ancestors() finds the part of the history that is in the region.    *)
LEMMA AncestorFacts ==
    ASSUME Parented, LinksReal, Region, NEW n \in region \cap W!Node
    PROVE  /\ n \in W!AllAncestors(n)
           /\ W!AllAncestors(n) \subseteq region
           /\ W!AllAncestors(n) \subseteq W!Past(n)
           /\ \A m \in W!AllAncestors(n) : m # ancestor => W!ParentSet(m) \subseteq W!AllAncestors(n)
<1> DEFINE F == [m \in region |-> W!RegionParents(m)]
           S == W!Past(n) \cap region
<1>1. W!AllAncestors(n) = W!Closure(F, n)
  BY DEF W!AllAncestors
<1>2. \A m \in region : F[m] = W!RegionParents(m)
  OBVIOUS
<1> HIDE DEF F
<1>3. n \in S /\ S \subseteq W!Node
  BY PastFacts
<1>4. \A m \in S : F[m] \subseteq S
  <2> SUFFICES ASSUME NEW m \in S PROVE F[m] \subseteq S
    OBVIOUS
  <2>1. F[m] \subseteq region /\ F[m] \subseteq W!ParentSet(m)
    BY <1>2, <1>3, RegionParentFacts
  <2>2. W!ParentSet(m) \subseteq W!Past(n)
    BY PastFacts
  <2> QED
    BY <2>1, <2>2
<1>5. n \in W!Closure(F, n) /\ W!Closure(F, n) \subseteq S
  <2> HIDE DEF S
  <2> QED
    BY <1>3, <1>4, ClosureLeast
<1> DEFINE rank == [m \in region |-> m]
<1>6. rank \in [region -> 0 .. MaxNodes]
  BY NodeFacts, RegionParentFacts
<1>7. \A m \in region : F[m] \subseteq region /\ \A p \in F[m] : rank[p] < rank[m]
  <2> SUFFICES ASSUME NEW m \in region
               PROVE  F[m] \subseteq region /\ \A p \in F[m] : rank[p] < rank[m]
    OBVIOUS
  <2>1. F[m] \subseteq region /\ \A p \in F[m] : p < m
    BY <1>2, RegionParentFacts
  <2> QED
    BY <2>1
<1> HIDE DEF rank
<1>8. \A m \in W!Closure(F, n) : F[m] \subseteq W!Closure(F, n)
  BY <1>6, <1>7, ClosureClosed
<1>9. ASSUME NEW m \in W!AllAncestors(n), m # ancestor
      PROVE  W!ParentSet(m) \subseteq W!AllAncestors(n)
  <2>1. m \in region /\ m \in W!Node
    BY <1>1, <1>3, <1>5
  <2>2. F[m] = W!ParentSet(m)
    BY <1>2, <1>9, <2>1, RegionParentFacts
  <2> QED
    BY <1>1, <1>8, <2>2
<1> QED
  BY <1>1, <1>5, <1>9

(* What is in the history and not in the region lies below the ancestor.   *)
LEMMA HistoryBelow ==
    ASSUME Parented, LinksReal, Region, NEW n \in region \cap W!Node, NEW x \in W!Past(n)
    PROVE  \/ x \in W!AllAncestors(n)
           \/ ancestor \in W!AllAncestors(n) /\ ancestor \in W!Node /\ x \in W!Past(ancestor)
<1> DEFINE S == W!AllAncestors(n) \cup
                (IF ancestor \in W!AllAncestors(n) /\ ancestor \in W!Node
                 THEN W!Past(ancestor) ELSE {})
<1>1. n \in S
  BY AncestorFacts
<1>2. ASSUME NEW m \in S \cap W!Node PROVE W!ParentSet(m) \subseteq S
  <2>1. CASE m \in W!AllAncestors(n) /\ m # ancestor
    BY <2>1, AncestorFacts
  <2>2. CASE m \in W!AllAncestors(n) /\ m = ancestor
    <3>1. W!ParentSet(m) \subseteq W!Past(ancestor)
      BY <2>2, PastFacts
    <3> QED
      BY <2>2, <3>1
  <2>3. CASE m \notin W!AllAncestors(n)
    <3>1. ancestor \in W!AllAncestors(n) /\ ancestor \in W!Node /\ m \in W!Past(ancestor)
      BY <2>3
    <3>2. W!ParentSet(m) \subseteq W!Past(ancestor)
      BY <3>1, PastFacts
    <3> QED
      BY <3>1, <3>2
  <2> QED
    BY <2>1, <2>2, <2>3
<1>3. W!Past(n) \subseteq S
  <2> HIDE DEF S
  <2> QED
    BY <1>1, <1>2, PastLeast
<1> QED
  BY <1>3

(* Every revision of the region has the ancestor in its history.           *)
LEMMA AncestorInHistory ==
    ASSUME Parented, LinksReal, Region, ancestor \in W!Node, NEW n \in region
    PROVE  n \in W!Node /\ ancestor \in W!Past(n)
<1> DEFINE S == {m \in W!Node : ancestor \in W!Past(m)}
<1>1. ancestor \in S
  BY PastFacts
<1>2. ASSUME NEW l \in backLinks, l[1] \in S PROVE l[2] \in S
  <2>1. l[2] \in W!Node /\ l[1] \in W!Node /\ l[1] # W!NULL_NODE
    BY <1>2, NodeFacts DEF LinksReal, Linked
  <2>2. l[1] \in W!Past(l[2])
    BY <2>1, PastFacts DEF LinksReal
  <2>3. W!Past(l[1]) \subseteq W!Past(l[2])
    BY <2>1, <2>2, PastMonotone
  <2> QED
    BY <1>2, <2>1, <2>3
<1>3. Reach(backLinks, ancestor) \subseteq S
  <2> HIDE DEF S
  <2> QED
    BY <1>1, <1>2, ReachLeast DEF LinksReal, Region
<1> QED
  BY <1>3, ReachIsAbove DEF Region

LEMMA OnlyAncestorBelow ==
    ASSUME Parented, LinksReal, Region, ancestor \in W!Node,
           NEW n \in region, n \in W!Past(ancestor)
    PROVE  n = ancestor
<1>1. n \in W!Node /\ ancestor \in W!Past(n)
  BY AncestorInHistory
<1>2. ancestor \in 1 .. n /\ n \in 1 .. ancestor
  BY <1>1, PastFacts
<1>3. n \in Nat /\ ancestor \in Nat
  BY <1>1, NodeFacts
<1> QED
  BY <1>2, <1>3

(* Of two revisions of the region one is in the history of the other just  *)
(* if all_ancestors() says so.                                             *)
LEMMA AncestorsAgree ==
    ASSUME Parented, LinksReal, Region,
           NEW n \in region \cap W!Node, NEW x \in region
    PROVE  x \in W!AllAncestors(n) <=> x \in W!Past(n)
<1>1. x \in W!AllAncestors(n) => x \in W!Past(n)
  BY AncestorFacts
<1>2. ASSUME x \in W!Past(n), x \notin W!AllAncestors(n) PROVE FALSE
  <2>1. ancestor \in W!AllAncestors(n) /\ ancestor \in W!Node /\ x \in W!Past(ancestor)
    BY <1>2, HistoryBelow
  <2>2. x = ancestor
    BY <2>1, OnlyAncestorBelow
  <2> QED
    BY <1>2, <2>1, <2>2
<1> QED
  BY <1>1, <1>2

LEMMA RightDecision ==
    ASSUME Parented, LinksReal, Compared, Region
    PROVE  W!Decision(W!AllAncestors(theirs), W!AllAncestors(ours), region)
           = W!Decision(W!Past(theirs), W!Past(ours), W!Past(theirs) \cup W!Past(ours))
<1>1. /\ theirs \in region \cap W!Node /\ ours \in region \cap W!Node
      /\ W!NULL_NODE \notin W!Node
  BY NodeFacts DEF Region, Compared
<1>2. /\ theirs \in W!AllAncestors(ours) <=> theirs \in W!Past(ours)
      /\ ours \in W!AllAncestors(theirs) <=> ours \in W!Past(theirs)
  BY <1>1, AncestorsAgree
<1>3. (region \ {W!NULL_NODE, ours}) \ W!AllAncestors(ours)
      = ((W!Past(theirs) \cup W!Past(ours)) \ {W!NULL_NODE, ours}) \ W!Past(ours)
  <2>1. ASSUME NEW x \in region, x # W!NULL_NODE, x \notin W!AllAncestors(ours)
        PROVE  x \in W!Past(theirs) \cup W!Past(ours) /\ x \notin W!Past(ours)
    <3>1. x \in W!Node
      BY <2>1, RegionParentFacts DEF Knots
    <3> QED
      BY <1>1, <2>1, <3>1, AncestorsAgree DEF Compared
  <2>2. ASSUME NEW x \in W!Past(theirs), x \notin W!Past(ours)
        PROVE  x \in region /\ x \notin W!AllAncestors(ours)
    <3>1. x \notin W!AllAncestors(ours)
      BY <1>1, <2>2, AncestorFacts
    <3>2. ASSUME x \notin W!AllAncestors(theirs) PROVE FALSE
      <4>1. ancestor \in W!Node /\ x \in W!Past(ancestor)
        BY <1>1, <3>2, HistoryBelow
      <4>2. ancestor \in W!Past(ours)
        BY <1>1, <4>1, AncestorInHistory
      <4>3. W!Past(ancestor) \subseteq W!Past(ours)
        BY <1>1, <4>2, PastMonotone
      <4> QED
        BY <2>2, <4>1, <4>3
    <3>3. W!AllAncestors(theirs) \subseteq region
      BY <1>1, AncestorFacts
    <3> QED
      BY <3>1, <3>2, <3>3
  <2> QED
    BY <2>1, <2>2
<1> QED
  BY <1>2, <1>3 DEF W!Decision
-----------------------------------------------------------------------------
(* What the search does to its vectors.                                    *)

LEMMA AppendedSet ==
    ASSUME NEW S, NEW s \in Seq(S), NEW x \in S
    PROVE  /\ Append(s, x) \in Seq(S)
           /\ W!ToSet(Append(s, x)) = W!ToSet(s) \cup {x}
<1>1. /\ Append(s, x) \in Seq(S)
      /\ Len(Append(s, x)) = Len(s) + 1
      /\ \A i \in 1 .. Len(s) : Append(s, x)[i] = s[i]
      /\ Append(s, x)[Len(s) + 1] = x
  BY AppendProperties
<1>2. /\ Len(s) \in Nat /\ DOMAIN s = 1 .. Len(s)
      /\ DOMAIN Append(s, x) = 1 .. Len(s) + 1
  BY <1>1, LenProperties
<1> QED
  BY <1>1, <1>2 DEF W!ToSet

LEMMA MemberSet ==
    ASSUME NEW S, NEW s \in Seq(S)
    PROVE  /\ Len(s) \in Nat
           /\ W!ToSet(s) \subseteq S
           /\ \A i \in 1 .. Len(s) : s[i] \in W!ToSet(s)
           /\ \A i \in DOMAIN s : i \in 1 .. Len(s) /\ s[i] \in W!ToSet(s)
<1>1. Len(s) \in Nat /\ DOMAIN s = 1 .. Len(s) /\ \A i \in 1 .. Len(s) : s[i] \in S
  BY LenProperties, ElementOfSeq
<1> QED
  BY <1>1 DEF W!ToSet

LEMMA RemovedSet ==
    ASSUME NEW S, NEW s \in Seq(S), NEW i \in 1 .. Len(s)
    PROVE  /\ W!RemoveAt(s, i) \in Seq(S)
           /\ W!ToSet(W!RemoveAt(s, i)) \subseteq W!ToSet(s)
<1> DEFINE a == SubSeq(s, 1, i - 1)
           b == SubSeq(s, i + 1, Len(s))
           R == W!ToSet(s)
<1>1. /\ Len(s) \in Nat /\ i \in 1 .. Len(s)
      /\ \A k \in 1 .. Len(s) : s[k] \in R
      /\ R \subseteq S
  BY MemberSet
<1> HIDE DEF R
<1>2. a \in Seq(R) /\ b \in Seq(R)
  <2>1. \A k \in 1 .. i - 1 : s[k] \in R
    BY <1>1
  <2>2. \A k \in i + 1 .. Len(s) : s[k] \in R
    BY <1>1
  <2>3. i - 1 \in Int /\ i + 1 \in Int /\ 1 \in Int /\ Len(s) \in Int
    BY <1>1
  <2>4. a \in Seq(R)
    BY <2>1, <2>3, SubSeqProperties
  <2>5. b \in Seq(R)
    BY <2>2, <2>3, SubSeqProperties
  <2> QED
    BY <2>4, <2>5
<1>3. a \o b \in Seq(R)
  <2> HIDE DEF a, b
  <2> QED
    BY <1>2, ConcatProperties
<1>4. W!RemoveAt(s, i) = a \o b
  BY DEF W!RemoveAt
<1> HIDE DEF a, b
<1>5. W!RemoveAt(s, i) \in Seq(S)
  BY <1>1, <1>3, <1>4, SeqMonotonic
<1>6. W!ToSet(W!RemoveAt(s, i)) \subseteq R
  BY <1>3, <1>4, MemberSet
<1> QED
  BY <1>5, <1>6 DEF R

(* dedup() keeps elements of the vector: for every number up to that of    *)
(* the kept places there is a place that comes at that number.             *)
Ranked(K) == \A k \in 1 .. Cardinality(K) :
                 \E i \in K : Cardinality({j \in K : j <= i}) = k

LEMMA PlaceOfRank ==
    ASSUME NEW n \in Nat
    PROVE  \A K \in SUBSET (1 .. n) : Ranked(K)
<1> USE DEF Ranked
<1> DEFINE T == {m \in Nat : \A K \in SUBSET (1 .. m) : Ranked(K)}
<1>1. 0 \in T
  <2>1. \A K \in SUBSET (1 .. 0) : K = {}
    OBVIOUS
  <2>2. Cardinality({}) = 0
    BY FS_EmptySet
  <2> QED
    BY <2>1, <2>2
<1>2. ASSUME NEW m \in T PROVE m + 1 \in T
  <2> SUFFICES ASSUME NEW K \in SUBSET (1 .. m + 1), NEW k \in 1 .. Cardinality(K)
               PROVE  \E i \in K : Cardinality({j \in K : j <= i}) = k
    OBVIOUS
  <2>1. m \in Nat /\ \A L \in SUBSET (1 .. m) : Ranked(L)
    BY <1>2
  <2> DEFINE L == K \ {m + 1}
  <2>2. L \in SUBSET (1 .. m)
    BY <2>1
  <2>3. IsFiniteSet(L) /\ Cardinality(L) \in Nat
    <3>1. IsFiniteSet(1 .. m)
      BY <2>1, FS_Interval
    <3> QED
      BY <2>2, <3>1, FS_Subset, FS_CardinalityType
  <2>4. ASSUME NEW i \in L, Cardinality({j \in L : j <= i}) = k
        PROVE  Cardinality({j \in K : j <= i}) = k
    <3>1. {j \in K : j <= i} = {j \in L : j <= i}
      BY <2>1, <2>2
    <3> QED
      BY <2>4, <3>1
  <2>5. CASE k \in 1 .. Cardinality(L)
    <3>1. Ranked(L)
      BY <2>1, <2>2
    <3>2. PICK i \in L : Cardinality({j \in L : j <= i}) = k
      BY <2>5, <3>1
    <3> QED
      BY <2>4, <3>2
  <2>6. CASE k \notin 1 .. Cardinality(L)
    <3>1. m + 1 \in K
      BY <2>6
    <3>2. K = L \cup {m + 1} /\ m + 1 \notin L
      BY <3>1
    <3>3. Cardinality(K) = Cardinality(L) + 1
      <4> HIDE DEF L
      <4> QED
        BY <2>3, <3>2, FS_AddElement
    <3>4. k = Cardinality(K)
      <4> HIDE DEF L
      <4> QED
        BY <2>3, <2>6, <3>3
    <3>5. {j \in K : j <= m + 1} = K
      <4>1. \A j \in K : j <= m + 1
        BY <2>1
      <4> HIDE DEF L
      <4> QED
        BY <4>1
    <3> QED
      BY <3>1, <3>4, <3>5
  <2> QED
    BY <2>5, <2>6
<1>3. T = Nat
  <2>1. T \in SUBSET Nat
    OBVIOUS
  <2> HIDE DEF T
  <2> QED
    BY <1>1, <1>2, <2>1, AllNaturals
<1> QED
  BY <1>3

LEMMA SameCardinality == \A S : W!Cardinality(S) = Cardinality(S)
  BY DEF Cardinality, W!Cardinality

LEMMA DedupSet ==
    ASSUME NEW S, NEW s \in Seq(S)
    PROVE  /\ W!Dedup(s) \in Seq(S)
           /\ W!ToSet(W!Dedup(s)) \subseteq W!ToSet(s)
<1> DEFINE kept == {i \in DOMAIN s : i = 1 \/ s[i] # s[i - 1]}
           at(k) == CHOOSE i \in kept : W!Cardinality({j \in kept : j <= i}) = k
           n == W!Cardinality(kept)
           R == W!ToSet(s)
<1>1. Len(s) \in Nat /\ DOMAIN s = 1 .. Len(s) /\ R \subseteq S
      /\ \A i \in 1 .. Len(s) : s[i] \in R
  BY MemberSet, LenProperties
<1>2. kept \in SUBSET (1 .. Len(s))
  BY <1>1
<1>3. W!Dedup(s) = [k \in 1 .. n |-> s[at(k)]]
  BY DEF W!Dedup
<1> HIDE DEF kept, R
<1>4. \A k \in 1 .. n : \E i \in kept : W!Cardinality({j \in kept : j <= i}) = k
  <2> SUFFICES ASSUME NEW k \in 1 .. n
               PROVE  \E i \in kept : W!Cardinality({j \in kept : j <= i}) = k
    OBVIOUS
  <2>1. Ranked(kept) /\ k \in 1 .. Cardinality(kept)
    BY <1>1, <1>2, PlaceOfRank, SameCardinality
  <2>2. PICK i \in kept : Cardinality({j \in kept : j <= i}) = k
    BY <2>1 DEF Ranked
  <2> QED
    BY <2>2, SameCardinality
<1>5. \A k \in 1 .. n : at(k) \in kept
  BY <1>4
<1> HIDE DEF at
<1>6. \A k \in 1 .. n : s[at(k)] \in R
  BY <1>1, <1>2, <1>5
<1>7. n \in Nat
  <2>1. IsFiniteSet(1 .. Len(s))
    BY <1>1, FS_Interval
  <2>2. IsFiniteSet(kept)
    BY <1>2, <2>1, FS_Subset
  <2> QED
    BY <2>2, FS_CardinalityType, SameCardinality
<1> HIDE DEF n
<1>8. W!Dedup(s) \in Seq(R)
  BY <1>3, <1>6, <1>7
<1>9. W!Dedup(s) \in Seq(S)
  BY <1>1, <1>8, SeqMonotonic
<1>10. W!ToSet(W!Dedup(s)) \subseteq R
  BY <1>8, MemberSet
<1> QED
  BY <1>9, <1>10 DEF R

LEMMA AsSequence ==
    ASSUME NEW S, NEW new \in SUBSET S, IsFiniteSet(new)
    PROVE  W!SetToSeq(new) \in Seq(S) /\ W!ToSet(W!SetToSeq(new)) \subseteq new
<1> DEFINE n == W!Cardinality(new)
           fits(f) == W!IsInjective(f)
<1>1. n \in Nat /\ ExistsBijection(1 .. n, new)
  BY FS_CardinalityType, SameCardinality
<1>2. \E f \in [1 .. n -> new] : fits(f)
  BY <1>1 DEF ExistsBijection, Bijection, Injection, IsInjective, W!IsInjective
<1>3. W!SetToSeq(new) = CHOOSE f \in [1 .. n -> new] : fits(f)
  BY DEF W!SetToSeq
<1> HIDE DEF fits
<1>5. W!SetToSeq(new) \in [1 .. n -> new]
  BY <1>2, <1>3
<1> HIDE DEF n
<1>4. W!SetToSeq(new) \in Seq(new)
  BY <1>1, <1>5
<1> QED
  BY <1>4, SeqMonotonic, MemberSet
-----------------------------------------------------------------------------
(* The inductive invariant of the search.                                  *)

SearchState == [found : Seq(Knots), branches : Seq(Knots), ended : BOOLEAN]

FoundBy(s)  == W!ToSet(searches[s].found)
OpenFor(s)  == W!ToSet(searches[s].branches)
Nodes(s)    == FoundBy(s) \cup OpenFor(s)

SearchTyped ==
    /\ pc \in {"pass", "branch", "sort", "decide", "done", "error"}
    /\ side \in W!Side
    /\ count \in Nat
    /\ index \in 1 .. count + 1
    /\ searches \in [W!Side -> SearchState]
    /\ ancestor \in Knots \cup {W!None}
    /\ diffs \subseteq Knots
    /\ region \subseteq Knots

(* What was found, and what is linked, is among the diffs.                 *)
Noted ==
    /\ \A l \in backLinks : l[2] \in diffs
    /\ \A s \in W!Side :
          /\ FoundBy(s) \subseteq diffs
          /\ W!NULL_NODE \in OpenFor(s) => W!NULL_NODE \in diffs
          /\ searches[s].ended => searches[s].found # <<>>

(* In the first search each side only comes to what is below the revision  *)
(* it started from; in every other one our side only comes to what is      *)
(* below both revisions.                                                   *)
Joined ==
    \/ \A n \in Nodes("ours") : theirs \in Reach(backLinks, n) /\ ours \in Reach(backLinks, n)
    \/ /\ \A n \in Nodes("ours") : ours \in Reach(backLinks, n)
       /\ \A n \in Nodes("theirs") : theirs \in Reach(backLinks, n)

AncestorBelow ==
    ancestor # W!None => /\ ancestor \in diffs
                         /\ theirs \in Reach(backLinks, ancestor)
                         /\ ours \in Reach(backLinks, ancestor)

Progressed ==
    /\ pc = "branch" /\ index <= count => count <= Len(searches[side].branches)
    /\ pc \in {"sort", "decide", "done"} => ancestor # W!None
    /\ pc \in {"decide", "done"} => /\ region = W!Above(ancestor)
                                    /\ W!SideBranches(ancestor) = {}
    /\ pc = "done" => outcome = W!Decision(W!AllAncestors(theirs), W!AllAncestors(ours), region)
    /\ pc # "error"

SearchInv ==
    /\ Parented
    /\ Compared
    /\ SearchTyped
    /\ LinksReal
    /\ Noted
    /\ Joined
    /\ AncestorBelow
    /\ Progressed

-----------------------------------------------------------------------------
LEMMA GraphKept ==
    ASSUME UNCHANGED W!graph
    PROVE  /\ Parented => Parented'
           /\ Compared => Compared'
           /\ \A n : W!ParentSet(n)' = W!ParentSet(n)
<1>1. parents' = parents /\ theirs' = theirs /\ ours' = ours
  BY DEF W!graph
<1> QED
  BY <1>1 DEF Parented, Compared, W!ParentSet, W!Past

LEMMA SideFacts ==
    /\ W!Side = {"theirs", "ours"} /\ "theirs" # "ours"
    /\ \A s \in W!Side : /\ W!OtherSide(s) \in W!Side /\ W!OtherSide(s) # s
                         /\ W!Side = {s, W!OtherSide(s)}
  BY DEF W!Side, W!OtherSide

LEMMA BranchFacts ==
    ASSUME SearchInv, W!AtBranch
    PROVE  /\ side \in W!Side
           /\ W!Search \in SearchState /\ W!Other \in SearchState
           /\ index \in 1 .. Len(W!Search.branches)
           /\ index \in 1 .. count
           /\ W!Current \in OpenFor(side)
           /\ W!Current \in Knots
           /\ W!Current \in W!Node \/ W!Current = W!NULL_NODE
<1>1. /\ side \in W!Side /\ W!OtherSide(side) \in W!Side
      /\ W!Search \in SearchState /\ W!Other \in SearchState
  BY SideFacts DEF SearchInv, SearchTyped, W!Search, W!Other
<1>2. W!Search.branches \in Seq(Knots)
  BY <1>1 DEF SearchState
<1>3. Len(W!Search.branches) \in Nat
  BY <1>2, MemberSet
<1>4. index \in 1 .. count /\ count <= Len(W!Search.branches) /\ count \in Nat
  BY DEF SearchInv, SearchTyped, Progressed, W!AtBranch, W!Search
<1>5. index \in 1 .. Len(W!Search.branches)
  BY <1>3, <1>4
<1>6. W!Current \in W!ToSet(W!Search.branches) /\ W!ToSet(W!Search.branches) \subseteq Knots
  BY <1>2, <1>5, MemberSet DEF W!Current
<1> QED
  BY <1>1, <1>4, <1>5, <1>6 DEF OpenFor, W!Search, Knots

(* A visit of one branch keeps the invariant, if what it adds to either    *)
(* side is linked to what was there, and an ancestor is found by both.     *)
LEMMA VisitKeeps ==
    ASSUME SearchInv, W!AtBranch,
           UNCHANGED <<W!graph, pc, side, count, region, outcome>>,
           index' \in 1 .. count + 1,
           index' <= count => count <= Len(searches'[side].branches),
           searches' \in [W!Side -> SearchState],
           diffs \subseteq diffs', diffs' \subseteq Knots,
           backLinks \subseteq backLinks', Linked(backLinks'),
           \A l \in backLinks' \ backLinks :
               l[2] \in diffs' /\ (l[1] # W!NULL_NODE => l[1] \in W!ParentSet(l[2])),
           \A s \in W!Side :
               /\ FoundBy(s)' \subseteq diffs'
               /\ W!NULL_NODE \in OpenFor(s)' => W!NULL_NODE \in diffs'
               /\ searches'[s].ended => searches'[s].found # <<>>
               /\ \A n \in Nodes(s)' : \E m \in Nodes(s) : m \in Reach(backLinks', n),
           \/ ancestor' = ancestor
           \/ ancestor' \in FoundBy("theirs")' /\ ancestor' \in FoundBy("ours")'
    PROVE  SearchInv'
<1>1. /\ Parented' /\ Compared' /\ \A n : W!ParentSet(n)' = W!ParentSet(n)
      /\ theirs' = theirs /\ ours' = ours /\ pc' = pc /\ side' = side /\ count' = count
      /\ region' = region /\ outcome' = outcome
  <2>1. UNCHANGED W!graph
    OBVIOUS
  <2> QED
    BY <2>1, GraphKept DEF SearchInv, W!graph
<1>2. LinksReal' /\ Noted'
  BY <1>1 DEF SearchInv, LinksReal, Noted
<1>3. \A s \in W!Side : Nodes(s)' \subseteq Knots /\ Nodes(s) \subseteq Knots
  <2> SUFFICES ASSUME NEW s \in W!Side
               PROVE  Nodes(s)' \subseteq Knots /\ Nodes(s) \subseteq Knots
    OBVIOUS
  <2>1. searches[s] \in SearchState /\ searches'[s] \in SearchState
    BY DEF SearchInv, SearchTyped
  <2> QED
    BY <2>1, MemberSet DEF SearchState, Nodes, FoundBy, OpenFor
<1>4. ASSUME NEW s \in W!Side, NEW n \in Nodes(s)', NEW x,
             \A m \in Nodes(s) : x \in Reach(backLinks, m)
      PROVE  x \in Reach(backLinks', n)
  <2>1. PICK m \in Nodes(s) : m \in Reach(backLinks', n)
    OBVIOUS
  <2>2. n \in Knots /\ m \in Knots
    BY <1>3
  <2>3. Reach(backLinks, m) \subseteq Reach(backLinks', m)
    BY <2>2, ReachGrows DEF SearchInv, LinksReal
  <2>4. Reach(backLinks', m) \subseteq Reach(backLinks', n)
    BY <2>1, <2>2, ReachTransitive
  <2> QED
    BY <1>4, <2>3, <2>4
<1>5. Joined'
  <2>1. CASE \A n \in Nodes("ours") :
                theirs \in Reach(backLinks, n) /\ ours \in Reach(backLinks, n)
    <3>1. \A n \in Nodes("ours")' :
             theirs \in Reach(backLinks', n) /\ ours \in Reach(backLinks', n)
      BY <1>4, <2>1, SideFacts
    <3> QED
      BY <1>1, <3>1 DEF Joined
  <2>2. CASE /\ \A n \in Nodes("ours") : ours \in Reach(backLinks, n)
             /\ \A n \in Nodes("theirs") : theirs \in Reach(backLinks, n)
    <3>1. /\ \A n \in Nodes("ours")' : ours \in Reach(backLinks', n)
          /\ \A n \in Nodes("theirs")' : theirs \in Reach(backLinks', n)
      BY <1>4, <2>2, SideFacts
    <3> QED
      BY <1>1, <3>1 DEF Joined
  <2> QED
    BY <2>1, <2>2 DEF SearchInv, Joined
<1>6. AncestorBelow' /\ ancestor' \in Knots \cup {W!None}
  <2>1. CASE ancestor' = ancestor
    <3>1. ancestor \in Knots => Reach(backLinks, ancestor) \subseteq Reach(backLinks', ancestor)
      BY ReachGrows DEF SearchInv, LinksReal
    <3> QED
      BY <1>1, <2>1, <3>1 DEF SearchInv, SearchTyped, AncestorBelow
  <2>2. CASE ancestor' \in FoundBy("theirs")' /\ ancestor' \in FoundBy("ours")'
    <3>1. ancestor' \in Nodes("theirs")' /\ ancestor' \in Nodes("ours")'
      BY <2>2 DEF Nodes
    <3>2. theirs' \in Reach(backLinks', ancestor') /\ ours' \in Reach(backLinks', ancestor')
      BY <1>5, <3>1 DEF Joined
    <3>3. ancestor' \in diffs'
      BY <2>2, SideFacts
    <3> QED
      BY <3>2, <3>3 DEF AncestorBelow
  <2> QED
    BY <2>1, <2>2
<1>7. SearchTyped'
  BY <1>1, <1>6 DEF SearchInv, SearchTyped
<1>8. Progressed'
  BY <1>1 DEF W!AtBranch, Progressed
<1> QED
  BY <1>1, <1>2, <1>5, <1>6, <1>7, <1>8 DEF SearchInv
-----------------------------------------------------------------------------
(* The steps of the search.                                                *)

LEMMA WithFoundFacts ==
    ASSUME NEW q \in SearchState, NEW n \in Knots
    PROVE  /\ W!WithFound(q, n) \in SearchState
           /\ W!WithFound(q, n).branches = q.branches
           /\ W!WithFound(q, n).ended = q.ended
           /\ W!WithFound(q, n).found # <<>>
           /\ W!ToSet(W!WithFound(q, n).found) = W!ToSet(q.found) \cup {n}
<1>1. q.found \in Seq(Knots) /\ q.branches \in Seq(Knots) /\ q.ended \in BOOLEAN
  BY DEF SearchState
<1>2. CASE n \in W!ToSet(q.found)
  <2>1. q.found # <<>>
    BY <1>2 DEF W!ToSet
  <2> QED
    BY <1>2, <2>1 DEF W!WithFound
<1>3. CASE n \notin W!ToSet(q.found)
  <2>1. W!WithFound(q, n) = [q EXCEPT !.found = Append(@, n)]
    BY <1>3 DEF W!WithFound
  <2>2. Append(q.found, n) \in Seq(Knots) /\ Append(q.found, n) # <<>>
    BY <1>1, AppendProperties
  <2>3. W!ToSet(Append(q.found, n)) = W!ToSet(q.found) \cup {n}
    BY <1>1, AppendedSet
  <2> QED
    BY <2>1, <2>2, <2>3 DEF SearchState
<1> QED
  BY <1>2, <1>3

LEMMA ClosedFacts ==
    ASSUME NEW q \in SearchState, NEW n \in Knots, index \in 1 .. Len(q.branches)
    PROVE  /\ W!Closed(q, n) \in SearchState
           /\ W!Closed(q, n).found # <<>>
           /\ W!ToSet(W!Closed(q, n).found) = W!ToSet(q.found) \cup {n}
           /\ W!ToSet(W!Closed(q, n).branches) \subseteq W!ToSet(q.branches)
<1> DEFINE w == W!WithFound(q, n)
<1>1. /\ w \in SearchState /\ w.branches = q.branches /\ w.found # <<>>
      /\ W!ToSet(w.found) = W!ToSet(q.found) \cup {n}
  BY WithFoundFacts
<1>2. W!Closed(q, n) = [w EXCEPT !.branches = W!RemoveAt(@, index), !.ended = TRUE]
  BY DEF W!Closed
<1> HIDE DEF w
<1>3. /\ W!RemoveAt(w.branches, index) \in Seq(Knots)
      /\ W!ToSet(W!RemoveAt(w.branches, index)) \subseteq W!ToSet(q.branches)
  BY <1>1, RemovedSet DEF SearchState
<1> QED
  BY <1>1, <1>2, <1>3 DEF SearchState

LEMMA ReachSelf ==
    ASSUME NEW links, Linked(links), NEW n \in Knots
    PROVE  n \in Reach(links, n)
  BY ReachFacts

LEMMA NodesTyped ==
    ASSUME SearchInv, NEW s \in W!Side
    PROVE  /\ searches[s] \in SearchState
           /\ Nodes(s) \subseteq Knots
           /\ FoundBy(s) \subseteq diffs
           /\ \A n \in Nodes(s) : n \in Reach(backLinks, n)
<1>1. searches[s] \in SearchState
  BY DEF SearchInv, SearchTyped
<1>2. Nodes(s) \subseteq Knots
  BY <1>1, MemberSet DEF SearchState, Nodes, FoundBy, OpenFor
<1> QED
  BY <1>1, <1>2, ReachSelf DEF SearchInv, Noted, LinksReal

LEMMA AlreadyVisitedStep ==
    ASSUME SearchInv, W!AlreadyVisited
    PROVE  SearchInv'
<1> DEFINE q == [searches[side] EXCEPT !.branches = W!RemoveAt(@, index)]
<1>1. W!AtBranch /\ W!Break /\ UNCHANGED <<ancestor, diffs, backLinks>>
  BY DEF W!AlreadyVisited
<1>2. /\ side \in W!Side /\ searches[side] \in SearchState
      /\ index \in 1 .. Len(searches[side].branches) /\ count \in Nat
  BY <1>1, BranchFacts DEF W!Search, SearchInv, SearchTyped
<1>3. searches' = [searches EXCEPT ![side] = q] /\ searches \in [W!Side -> SearchState]
  BY DEF W!AlreadyVisited, SearchInv, SearchTyped
<1>4. /\ W!RemoveAt(searches[side].branches, index) \in Seq(Knots)
      /\ W!ToSet(W!RemoveAt(searches[side].branches, index)) \subseteq W!ToSet(searches[side].branches)
  BY <1>2, RemovedSet DEF SearchState
<1>5. /\ q \in SearchState /\ q.found = searches[side].found /\ q.ended = searches[side].ended
      /\ W!ToSet(q.branches) \subseteq W!ToSet(searches[side].branches)
  BY <1>2, <1>4 DEF SearchState
<1> HIDE DEF q
<1>6. /\ searches' \in [W!Side -> SearchState]
      /\ \A s \in W!Side : /\ FoundBy(s)' = FoundBy(s)
                            /\ OpenFor(s)' \subseteq OpenFor(s)
                            /\ searches'[s].ended = searches[s].ended
                            /\ searches'[s].found = searches[s].found
  BY <1>2, <1>3, <1>5 DEF FoundBy, OpenFor
<1>7. \A s \in W!Side : \A n \in Nodes(s)' : n \in Nodes(s) /\ n \in Reach(backLinks', n)
  BY <1>1, <1>6, NodesTyped DEF Nodes
<1>8. Linked(backLinks') /\ diffs' \subseteq Knots
  BY <1>1 DEF SearchInv, LinksReal, SearchTyped
<1>9. \A s \in W!Side :
          /\ FoundBy(s)' \subseteq diffs'
          /\ W!NULL_NODE \in OpenFor(s)' => W!NULL_NODE \in diffs'
          /\ searches'[s].ended => searches'[s].found # <<>>
  BY <1>1, <1>6 DEF SearchInv, Noted
<1>10. /\ UNCHANGED <<W!graph, pc, side, count, region, outcome>>
       /\ index' \in 1 .. count + 1 /\ ~(index' <= count)
  BY <1>1, <1>2 DEF W!Break
<1> QED
  BY <1>1, <1>6, <1>7, <1>8, <1>9, <1>10, VisitKeeps

LEMMA SeenOnOtherSideStep ==
    ASSUME SearchInv, W!SeenOnOtherSide
    PROVE  SearchInv'
<1> DEFINE n == W!Current
           o == W!OtherSide(side)
<1>1. /\ W!AtBranch /\ W!MetOther /\ W!Break
      /\ searches' = [s \in W!Side |-> W!WithFound(searches[s], n)]
      /\ diffs' = diffs \cup ({n} \ {W!NULL_NODE})
      /\ ancestor' = n /\ backLinks' = backLinks
  BY DEF W!SeenOnOtherSide
<1>2. /\ side \in W!Side /\ o \in W!Side /\ W!Side = {side, o}
      /\ n \in OpenFor(side) /\ n \in Knots /\ count \in Nat
  BY <1>1, BranchFacts, SideFacts DEF SearchInv, SearchTyped
<1>3. n \in Nodes(o)
  BY <1>1, <1>2, NodesTyped, MemberSet
     DEF W!MetOther, W!Found, W!OnBranch, Nodes, FoundBy, OpenFor, SearchState, W!ToSet
<1> HIDE DEF n, o
<1>4. \A s \in W!Side : searches[s] \in SearchState /\ n \in Nodes(s)
  BY <1>2, <1>3, NodesTyped DEF Nodes
<1>5. /\ searches' \in [W!Side -> SearchState]
      /\ \A s \in W!Side : /\ FoundBy(s)' = FoundBy(s) \cup {n}
                            /\ OpenFor(s)' = OpenFor(s)
                            /\ searches'[s].found # <<>>
  BY <1>1, <1>2, <1>4, WithFoundFacts DEF FoundBy, OpenFor
<1>6. \A s \in W!Side : \A m \in Nodes(s)' : m \in Nodes(s) /\ m \in Reach(backLinks', m)
  BY <1>1, <1>4, <1>5, NodesTyped DEF Nodes
<1>7. n = W!NULL_NODE => n \in diffs
  BY <1>2, <1>4 DEF SearchInv, Noted, Nodes
<1>8. n \in diffs' /\ diffs \subseteq diffs' /\ diffs' \subseteq Knots /\ Linked(backLinks')
  BY <1>1, <1>2, <1>7 DEF SearchInv, SearchTyped, LinksReal
<1>9. \A s \in W!Side :
          /\ FoundBy(s)' \subseteq diffs'
          /\ W!NULL_NODE \in OpenFor(s)' => W!NULL_NODE \in diffs'
  BY <1>5, <1>8 DEF SearchInv, Noted
<1>10. /\ UNCHANGED <<W!graph, pc, side, count, region, outcome>>
       /\ index' \in 1 .. count + 1 /\ ~(index' <= count)
  BY <1>1, <1>2 DEF W!Break
<1>11. ancestor' \in FoundBy("theirs")' /\ ancestor' \in FoundBy("ours")'
  BY <1>1, <1>5, SideFacts
<1> QED
  BY <1>1, <1>5, <1>6, <1>8, <1>9, <1>10, <1>11, VisitKeeps
LEMMA LastFound ==
    ASSUME NEW f \in Seq(Knots), f # <<>>
    PROVE  W!Last(<<W!NULL_NODE>> \o f) \in W!ToSet(f)
<1> DEFINE a == <<W!NULL_NODE>>
<1>1. a \in Seq(Knots) /\ Len(a) = 1
  BY DEF Knots
<1>2. Len(f) \in Nat \ {0}
  BY EmptySeq
<1> HIDE DEF a
<1>3. /\ Len(a \o f) = 1 + Len(f)
      /\ \A i \in 1 .. 1 + Len(f) : (a \o f)[i] = IF i <= 1 THEN a[i] ELSE f[i - 1]
  <2>1. /\ Len(a \o f) = Len(a) + Len(f)
        /\ \A i \in 1 .. Len(a) + Len(f) :
              (a \o f)[i] = IF i <= Len(a) THEN a[i] ELSE f[i - Len(a)]
    BY <1>1, ConcatProperties
  <2> QED
    BY <1>1, <2>1
<1>4. (a \o f)[Len(f) + 1] = f[Len(f)] /\ Len(a \o f) = Len(f) + 1
  BY <1>2, <1>3
<1>5. W!Last(a \o f) = f[Len(f)]
  BY <1>4 DEF W!Last
<1>6. f[Len(f)] \in W!ToSet(f)
  BY <1>2, MemberSet
<1> QED
  BY <1>5, <1>6 DEF a

LEMMA ReachLinked ==
    ASSUME NEW links, Linked(links), NEW l \in links
    PROVE  l[2] \in Reach(links, l[1])
<1>1. l[1] \in Knots
  BY DEF Linked
<1> QED
  BY <1>1, ReachFacts

(* terminate_with_null_node(): both sides end below the null node.         *)
LEMMA BothEndedStep ==
    ASSUME SearchInv, W!ReachedEnd, ancestor = W!None, W!Other.ended
    PROVE  SearchInv'
<1>0. side \in W!Side /\ W!OtherSide(side) \in W!Side
  BY SideFacts DEF SearchInv, SearchTyped
<1> PICK i \in W!Side, o \in W!Side : i = side /\ o = W!OtherSide(side)
  BY <1>0
<1> DEFINE n == W!Current
           z == W!Last(<<W!NULL_NODE>> \o W!Other.found)
           here == W!Closed(W!Search, n)
<1>1. /\ W!AtBranch /\ W!Break
      /\ searches' = [s \in W!Side |->
              W!WithFound(IF s = side THEN here ELSE W!Other, W!NULL_NODE)]
      /\ ancestor' = W!NULL_NODE
      /\ diffs' = diffs \cup {n, W!NULL_NODE}
      /\ backLinks' = backLinks \cup ({W!NULL_NODE} \X W!Tips(n))
  BY DEF W!ReachedEnd
<1>2. /\ W!Side = {i, o} /\ o # i
      /\ n \in OpenFor(i) /\ n \in Knots /\ count \in Nat
      /\ W!Search \in SearchState /\ W!Other \in SearchState
      /\ index \in 1 .. Len(W!Search.branches)
      /\ searches[i] = W!Search /\ searches[o] = W!Other
  BY <1>1, BranchFacts, SideFacts DEF SearchInv, SearchTyped, W!Search, W!Other
<1>3. z \in FoundBy(o) /\ z \in Knots /\ z \in diffs
  <2>1. W!Other.found # <<>> /\ W!Other.found \in Seq(Knots)
    BY <1>2 DEF SearchInv, Noted, SearchState
  <2>2. z \in FoundBy(o)
    BY <1>2, <2>1, LastFound DEF FoundBy
  <2> QED
    BY <1>2, <2>2, NodesTyped DEF Nodes
<1>4. W!Tips(n) = {n, z} \ {W!NULL_NODE}
  BY DEF W!Tips
<1> HIDE DEF n, z
<1>5. /\ here \in SearchState /\ here.found # <<>>
      /\ W!ToSet(here.found) = FoundBy(i) \cup {n}
      /\ W!ToSet(here.branches) \subseteq OpenFor(i)
  BY <1>2, ClosedFacts DEF FoundBy, OpenFor
<1> HIDE DEF here
<1>6. W!NULL_NODE \in Knots
  BY DEF Knots
<1>7. searches' \in [W!Side -> SearchState]
  BY <1>1, <1>2, <1>5, <1>6, WithFoundFacts
<1>8. /\ FoundBy(i)' = FoundBy(i) \cup {n, W!NULL_NODE}
      /\ OpenFor(i)' \subseteq OpenFor(i)
      /\ FoundBy(o)' = FoundBy(o) \cup {W!NULL_NODE}
      /\ OpenFor(o)' = OpenFor(o)
      /\ \A s \in W!Side : searches'[s].found # <<>>
  <2>1. /\ searches'[i] = W!WithFound(here, W!NULL_NODE)
        /\ searches'[o] = W!WithFound(W!Other, W!NULL_NODE)
    BY <1>1, <1>2
  <2>2. /\ W!ToSet(searches'[i].found) = (FoundBy(i) \cup {n}) \cup {W!NULL_NODE}
        /\ searches'[i].branches = here.branches /\ searches'[i].found # <<>>
    BY <1>5, <1>6, <2>1, WithFoundFacts
  <2>3. /\ W!ToSet(searches'[o].found) = FoundBy(o) \cup {W!NULL_NODE}
        /\ searches'[o].branches = searches[o].branches /\ searches'[o].found # <<>>
    <3>1. /\ W!ToSet(W!WithFound(W!Other, W!NULL_NODE).found)
                 = W!ToSet(W!Other.found) \cup {W!NULL_NODE}
          /\ W!WithFound(W!Other, W!NULL_NODE).branches = W!Other.branches
          /\ W!WithFound(W!Other, W!NULL_NODE).found # <<>>
      BY <1>2, <1>6, WithFoundFacts
    <3>2. searches[o] = W!Other
      BY <1>2
    <3> QED
      BY <2>1, <3>1, <3>2 DEF FoundBy
  <2> QED
    BY <1>2, <1>5, <2>2, <2>3 DEF FoundBy, OpenFor
<1>9. Linked(backLinks') /\ backLinks \subseteq backLinks'
  <2>1. W!Tips(n) \subseteq W!Node
    BY <1>2, <1>3, <1>4 DEF Knots
  <2>2. \A t \in W!Node : W!NULL_NODE < t
    BY NodeFacts
  <2> QED
    BY <1>1, <1>6, <2>1, <2>2 DEF SearchInv, LinksReal, Linked
<1>10. n \in Reach(backLinks', W!NULL_NODE) /\ z \in Reach(backLinks', W!NULL_NODE)
  <2> SUFFICES ASSUME NEW t \in {n, z} PROVE t \in Reach(backLinks', W!NULL_NODE)
    OBVIOUS
  <2>1. CASE t = W!NULL_NODE
    BY <1>6, <1>9, <2>1, ReachSelf
  <2>2. CASE t # W!NULL_NODE
    <3>1. <<W!NULL_NODE, t>> \in backLinks'
      BY <1>1, <1>4, <2>2
    <3> QED
      BY <1>9, <3>1, ReachLinked
  <2> QED
    BY <2>1, <2>2
<1>11. \A s \in W!Side : \A m \in Nodes(s)' : \E k \in Nodes(s) : k \in Reach(backLinks', m)
  <2> SUFFICES ASSUME NEW s \in W!Side, NEW m \in Nodes(s)'
               PROVE  \E k \in Nodes(s) : k \in Reach(backLinks', m)
    OBVIOUS
  <2>1. m \in Nodes(s) \/ m = W!NULL_NODE
    BY <1>2, <1>8 DEF Nodes
  <2>2. CASE m \in Nodes(s)
    BY <1>9, <2>2, NodesTyped, ReachSelf
  <2>3. CASE m = W!NULL_NODE
    BY <1>2, <1>3, <1>10, <2>3 DEF Nodes
  <2> QED
    BY <2>1, <2>2, <2>3
<1>12. /\ diffs \subseteq diffs' /\ diffs' \subseteq Knots /\ W!NULL_NODE \in diffs' /\ n \in diffs'
  BY <1>1, <1>2, <1>6 DEF SearchInv, SearchTyped
<1>13. \A l \in backLinks' \ backLinks :
          l[2] \in diffs' /\ (l[1] # W!NULL_NODE => l[1] \in W!ParentSet(l[2]))
  BY <1>1, <1>3, <1>4, <1>12
<1>14. \A s \in W!Side : FoundBy(s)' \subseteq diffs'
  BY <1>2, <1>8, <1>12, NodesTyped
<1>15. /\ UNCHANGED <<W!graph, pc, side, count, region, outcome>>
       /\ index' \in 1 .. count + 1 /\ ~(index' <= count)
  BY <1>1, <1>2 DEF W!Break
<1>16. ancestor' \in FoundBy("theirs")' /\ ancestor' \in FoundBy("ours")'
  <2>1. \A s \in W!Side : ancestor' \in FoundBy(s)'
    BY <1>1, <1>2, <1>8
  <2> QED
    BY <2>1, SideFacts
<1> QED
  BY <1>1, <1>7, <1>8, <1>9, <1>11, <1>12, <1>13, <1>14, <1>15, <1>16, VisitKeeps

LEMMA ReachedEndStep ==
    ASSUME SearchInv, W!ReachedEnd
    PROVE  SearchInv'
<1> DEFINE n == W!Current
           here == W!Closed(W!Search, n)
<1>1. CASE ancestor = W!None /\ W!Other.ended
  BY <1>1, BothEndedStep
<1>2. CASE ~(ancestor = W!None /\ W!Other.ended)
  <2>1. /\ W!AtBranch /\ W!Break
        /\ searches' = [searches EXCEPT ![side] = here]
        /\ diffs' = diffs \cup ({n} \ {W!NULL_NODE})
        /\ UNCHANGED <<ancestor, backLinks>>
    BY <1>2 DEF W!ReachedEnd
  <2>2. /\ side \in W!Side /\ n \in OpenFor(side) /\ n \in Knots /\ count \in Nat
        /\ W!Search \in SearchState /\ index \in 1 .. Len(W!Search.branches)
        /\ searches[side] = W!Search /\ searches \in [W!Side -> SearchState]
    BY <2>1, BranchFacts DEF SearchInv, SearchTyped, W!Search
  <2> HIDE DEF n
  <2>3. /\ here \in SearchState /\ here.found # <<>>
        /\ W!ToSet(here.found) = FoundBy(side) \cup {n}
        /\ W!ToSet(here.branches) \subseteq OpenFor(side)
    BY <2>2, ClosedFacts DEF FoundBy, OpenFor
  <2> HIDE DEF here
  <2>4. searches' \in [W!Side -> SearchState]
    BY <2>1, <2>2, <2>3
  <2>5. \A s \in W!Side : /\ FoundBy(s)' \subseteq FoundBy(s) \cup (IF s = side THEN {n} ELSE {})
                          /\ OpenFor(s)' \subseteq OpenFor(s)
                          /\ searches'[s].ended => searches'[s].found # <<>>
    <3> SUFFICES ASSUME NEW s \in W!Side
                 PROVE  /\ FoundBy(s)' \subseteq FoundBy(s) \cup (IF s = side THEN {n} ELSE {})
                        /\ OpenFor(s)' \subseteq OpenFor(s)
                        /\ searches'[s].ended => searches'[s].found # <<>>
      OBVIOUS
    <3>1. searches'[s] = IF s = side THEN here ELSE searches[s]
      BY <2>1, <2>2
    <3> QED
      BY <2>3, <3>1 DEF FoundBy, OpenFor, SearchInv, Noted
  <2>6. n = W!NULL_NODE => n \in diffs
    BY <2>2 DEF SearchInv, Noted
  <2>7. /\ n \in diffs' /\ diffs \subseteq diffs' /\ diffs' \subseteq Knots
        /\ Linked(backLinks') /\ backLinks' = backLinks
    BY <2>1, <2>2, <2>6 DEF SearchInv, SearchTyped, LinksReal
  <2>8. \A s \in W!Side :
            /\ FoundBy(s)' \subseteq diffs'
            /\ W!NULL_NODE \in OpenFor(s)' => W!NULL_NODE \in diffs'
    BY <2>5, <2>7 DEF SearchInv, Noted
  <2>9. \A s \in W!Side : \A m \in Nodes(s)' : m \in Nodes(s) /\ m \in Reach(backLinks', m)
    BY <2>2, <2>5, <2>7, NodesTyped DEF Nodes
  <2>10. /\ UNCHANGED <<W!graph, pc, side, count, region, outcome>>
         /\ index' \in 1 .. count + 1 /\ ~(index' <= count)
    BY <2>1, <2>2 DEF W!Break
  <2> QED
    BY <2>1, <2>4, <2>5, <2>7, <2>8, <2>9, <2>10, VisitKeeps
<1> QED
  BY <1>1, <1>2

LEMMA ToParentsStep ==
    ASSUME SearchInv, W!ToParents
    PROVE  SearchInv'
<1>0. side \in W!Side
  BY DEF SearchInv, SearchTyped
<1> PICK i \in W!Side : i = side
  BY <1>0
<1> DEFINE n == W!Current
           q == searches[i]
           found == Append(q.found, n)
           moved == [q.branches EXCEPT ![index] = parents[n][1]]
           second == {p \in W!ParentSet(n) : Len(parents[n]) = 2 /\ p = parents[n][2]}
           new == {p \in second : /\ p \notin W!ToSet(found)
                                  /\ ~W!OnBranch(W!OtherSide(side), p)
                                  /\ ~W!Found(W!OtherSide(side), p)}
           branches == moved \o W!SetToSeq(new)
           links == {<<p, n>> : p \in W!ParentSet(n)}
<1>1. /\ W!AtBranch /\ W!ParentsAt(n) # {}
      /\ searches' = [searches EXCEPT ![i].found = found, ![i].branches = branches]
      /\ diffs' = diffs \cup {n}
      /\ backLinks' = backLinks \cup links
      /\ index' = index + 1
      /\ UNCHANGED <<W!graph, pc, side, count, ancestor, region, outcome>>
  BY DEF W!ToParents, W!Search
<1>2. /\ n \in OpenFor(i) /\ n \in Knots /\ count \in Nat
      /\ index \in 1 .. Len(q.branches) /\ index \in 1 .. count
      /\ count <= Len(q.branches)
      /\ q \in SearchState /\ searches \in [W!Side -> SearchState]
      /\ q.found \in Seq(Knots) /\ q.branches \in Seq(Knots)
      /\ W!NULL_NODE \notin W!Node
      /\ (n \in W!Node \/ n = W!NULL_NODE)
  <2>1. /\ n \in OpenFor(i) /\ n \in Knots /\ (n \in W!Node \/ n = W!NULL_NODE)
        /\ index \in 1 .. Len(q.branches) /\ index \in 1 .. count
    BY <1>1, BranchFacts DEF W!Search
  <2>2. count <= Len(q.branches) /\ count \in Nat /\ searches \in [W!Side -> SearchState]
    BY <1>1 DEF SearchInv, SearchTyped, Progressed, W!AtBranch
  <2>3. q \in SearchState
    BY <2>2
  <2>4. q.found \in Seq(Knots) /\ q.branches \in Seq(Knots)
    BY <2>3 DEF SearchState
  <2> HIDE DEF n, q
  <2> QED
    BY <2>1, <2>2, <2>3, <2>4, NodeFacts
<1>3. n \in W!Node /\ W!ParentSet(n) # {}
  BY <1>1, <1>2 DEF W!ParentsAt
<1> HIDE DEF n
<1>4. /\ W!ParentSet(n) \subseteq 1 .. n - 1 /\ W!ParentSet(n) \subseteq W!Node
      /\ parents[n][1] \in W!ParentSet(n)
  BY <1>3, ParentFacts DEF SearchInv
<1>5. found \in Seq(Knots) /\ W!ToSet(found) = W!ToSet(q.found) \cup {n} /\ found # <<>>
  <2> HIDE DEF q
  <2> QED
    BY <1>2, AppendedSet, AppendProperties
<1>6. /\ new \subseteq W!ParentSet(n)
      /\ IsFiniteSet(new)
  <2>1. new \subseteq {parents[n][2]} /\ new \subseteq W!ParentSet(n)
    OBVIOUS
  <2>2. IsFiniteSet({parents[n][2]})
    BY FS_Singleton
  <2> HIDE DEF new
  <2> QED
    BY <2>1, <2>2, FS_Subset
<1> HIDE DEF new, found
<1>7. /\ branches \in Seq(Knots) /\ Len(branches) >= Len(q.branches)
      /\ W!ToSet(branches) \subseteq W!ToSet(q.branches) \cup W!ParentSet(n)
  <2> DEFINE all == W!ToSet(q.branches) \cup W!ParentSet(n)
  <2>1. W!ToSet(q.branches) \subseteq Knots /\ Len(q.branches) \in Nat
        /\ q.branches \in Seq(all)
    <3> DEFINE b == q.branches
    <3>1. b \in Seq(Knots) /\ Len(b) \in Nat
          /\ W!ToSet(b) \subseteq Knots /\ \A k \in 1 .. Len(b) : b[k] \in all
      BY <1>2, MemberSet
    <3>2. DOMAIN b = 1 .. Len(b) /\ b = [k \in 1 .. Len(b) |-> b[k]]
      BY <3>1, LenProperties
    <3> HIDE DEF b, all
    <3>3. b \in Seq(all)
      BY <3>1, <3>2
    <3> QED
      BY <3>1, <3>3 DEF b
  <2>2. parents[n][1] \in all /\ all \subseteq Knots
    BY <1>4, <2>1 DEF Knots
  <2>3. moved \in Seq(all) /\ Len(moved) = Len(q.branches)
    <3> HIDE DEF all, q
    <3> QED
      BY <1>2, <2>1, <2>2, ExceptSeq
  <2>4. W!SetToSeq(new) \in Seq(all)
    <3>1. new \in SUBSET all
      BY <1>6
    <3> HIDE DEF all
    <3> QED
      BY <1>6, <3>1, AsSequence
  <2> HIDE DEF moved, all
  <2>5. branches \in Seq(all) /\ Len(branches) = Len(moved) + Len(W!SetToSeq(new))
        /\ Len(W!SetToSeq(new)) \in Nat
    BY <2>3, <2>4, ConcatProperties, LenProperties
  <2> HIDE DEF branches, q
  <2>6. branches \in Seq(Knots) /\ W!ToSet(branches) \subseteq all
    BY <2>2, <2>5, SeqMonotonic, MemberSet
  <2> QED
    BY <2>1, <2>3, <2>5, <2>6 DEF all
<1> HIDE DEF branches
<1>8. /\ searches' \in [W!Side -> SearchState]
      /\ searches'[i].found = found /\ searches'[i].branches = branches
      /\ searches'[i].ended = searches[i].ended
      /\ \A s \in W!Side \ {i} : searches'[s] = searches[s]
  BY <1>1, <1>2, <1>5, <1>7 DEF SearchState
<1>9. Linked(backLinks') /\ backLinks \subseteq backLinks' /\ links \subseteq backLinks'
  <2>1. links \subseteq Knots \X W!Node /\ \A l \in links : l[1] < l[2]
    BY <1>3, <1>4, NodeFacts
  <2> HIDE DEF links
  <2> QED
    BY <1>1, <2>1 DEF SearchInv, LinksReal, Linked
<1>10. \A p \in W!ParentSet(n) : n \in Reach(backLinks', p)
  <2> SUFFICES ASSUME NEW p \in W!ParentSet(n) PROVE n \in Reach(backLinks', p)
    OBVIOUS
  <2>1. <<p, n>> \in backLinks'
    BY <1>9
  <2> HIDE DEF links
  <2> QED
    BY <1>9, <2>1, ReachLinked
<1>11. \A s \in W!Side : \A m \in Nodes(s)' : \E k \in Nodes(s) : k \in Reach(backLinks', m)
  <2> SUFFICES ASSUME NEW s \in W!Side, NEW m \in Nodes(s)'
               PROVE  \E k \in Nodes(s) : k \in Reach(backLinks', m)
    OBVIOUS
  <2>1. m \in Nodes(s) \/ (s = i /\ m \in W!ParentSet(n))
    BY <1>2, <1>5, <1>7, <1>8 DEF Nodes, FoundBy, OpenFor
  <2>2. CASE m \in Nodes(s)
    BY <1>9, <2>2, NodesTyped, ReachSelf
  <2>3. CASE s = i /\ m \in W!ParentSet(n)
    BY <1>2, <1>10, <2>3 DEF Nodes
  <2> QED
    BY <2>1, <2>2, <2>3
<1>12. /\ diffs \subseteq diffs' /\ diffs' \subseteq Knots /\ n \in diffs'
  BY <1>1, <1>2 DEF SearchInv, SearchTyped
<1>13. \A l \in backLinks' \ backLinks :
          l[2] \in diffs' /\ (l[1] # W!NULL_NODE => l[1] \in W!ParentSet(l[2]))
  BY <1>1, <1>12
<1>14. \A s \in W!Side :
          /\ FoundBy(s)' \subseteq diffs'
          /\ W!NULL_NODE \in OpenFor(s)' => W!NULL_NODE \in diffs'
          /\ searches'[s].ended => searches'[s].found # <<>>
  <2> SUFFICES ASSUME NEW s \in W!Side
               PROVE  /\ FoundBy(s)' \subseteq diffs'
                      /\ W!NULL_NODE \in OpenFor(s)' => W!NULL_NODE \in diffs'
                      /\ searches'[s].ended => searches'[s].found # <<>>
    OBVIOUS
  <2>1. /\ FoundBy(s) \subseteq diffs
        /\ W!NULL_NODE \in OpenFor(s) => W!NULL_NODE \in diffs
        /\ searches[s].ended => searches[s].found # <<>>
    BY DEF SearchInv, Noted
  <2>2. CASE s # i
    BY <1>8, <1>12, <2>1, <2>2 DEF FoundBy, OpenFor
  <2>3. CASE s = i
    <3>1. FoundBy(s)' = W!ToSet(found) /\ OpenFor(s)' = W!ToSet(branches)
          /\ searches'[s].found = found
      BY <1>8, <2>3 DEF FoundBy, OpenFor
    <3>2. W!NULL_NODE \notin W!ParentSet(n)
      BY <1>2, <1>4
    <3> QED
      BY <1>5, <1>7, <1>12, <2>1, <2>3, <3>1, <3>2 DEF FoundBy, OpenFor
  <2> QED
    BY <2>2, <2>3
<1>15. /\ index' \in 1 .. count + 1
       /\ index' <= count => count <= Len(searches'[side].branches)
  <2>1. Len(q.branches) \in Nat /\ Len(branches) \in Nat
    BY <1>2, <1>7, MemberSet
  <2> QED
    BY <1>1, <1>2, <1>7, <1>8, <2>1
<1> QED
  BY <1>1, <1>8, <1>9, <1>11, <1>12, <1>13, <1>14, <1>15, VisitKeeps

LEMMA NewSearchFacts ==
    ASSUME NEW n \in Knots
    PROVE  /\ W!NewSearch(n) \in SearchState
           /\ W!ToSet(W!NewSearch(n).found) = {}
           /\ W!ToSet(W!NewSearch(n).branches) = {n}
           /\ ~W!NewSearch(n).ended
<1>1. <<n>> \in Seq(Knots) /\ <<>> \in Seq(Knots)
  OBVIOUS
<1>2. W!ToSet(<<n>>) = {n} /\ W!ToSet(<<>>) = {}
  BY DEF W!ToSet
<1> QED
  BY <1>1, <1>2 DEF W!NewSearch, SearchState

LEMMA PassBeginsStep ==
    ASSUME SearchInv, W!PassBegins
    PROVE  SearchInv'
<1> DEFINE b == W!Dedup(W!Search.branches)
<1>1. /\ pc = "pass" /\ pc' = "branch" /\ index' = 1 /\ count' = Len(b)
      /\ searches' = [searches EXCEPT ![side].branches = b]
      /\ UNCHANGED <<W!graph, side, ancestor, diffs, backLinks, region, outcome>>
  BY DEF W!PassBegins
<1>2. /\ side \in W!Side /\ searches[side] \in SearchState /\ searches \in [W!Side -> SearchState]
      /\ W!Search = searches[side]
  BY DEF SearchInv, SearchTyped, W!Search
<1>3. b \in Seq(Knots) /\ W!ToSet(b) \subseteq OpenFor(side) /\ Len(b) \in Nat
  <2>1. searches[side].branches \in Seq(Knots)
    BY <1>2 DEF SearchState
  <2> QED
    BY <1>2, <2>1, DedupSet, MemberSet DEF OpenFor
<1> HIDE DEF b
<1>4. /\ searches' \in [W!Side -> SearchState]
      /\ searches'[side].branches = b
      /\ \A s \in W!Side : /\ searches'[s].found = searches[s].found
                           /\ searches'[s].ended = searches[s].ended
                           /\ s # side => searches'[s] = searches[s]
  BY <1>1, <1>2, <1>3 DEF SearchState
<1>5. \A s \in W!Side : FoundBy(s)' = FoundBy(s) /\ OpenFor(s)' \subseteq OpenFor(s)
  <2> SUFFICES ASSUME NEW s \in W!Side
               PROVE  FoundBy(s)' = FoundBy(s) /\ OpenFor(s)' \subseteq OpenFor(s)
    OBVIOUS
  <2>1. CASE s = side
    BY <1>3, <1>4, <2>1 DEF FoundBy, OpenFor
  <2>2. CASE s # side
    BY <1>4, <2>2 DEF FoundBy, OpenFor
  <2> QED
    BY <2>1, <2>2
<1>6. Parented' /\ Compared' /\ theirs' = theirs /\ ours' = ours
      /\ \A n : W!ParentSet(n)' = W!ParentSet(n)
  BY <1>1, GraphKept DEF SearchInv, W!graph
<1>7. SearchTyped'
  BY <1>1, <1>3, <1>4 DEF SearchInv, SearchTyped
<1>8. LinksReal' /\ Noted' /\ AncestorBelow'
  BY <1>1, <1>4, <1>5, <1>6 DEF SearchInv, LinksReal, Noted, AncestorBelow
<1>9. Joined'
  BY <1>1, <1>5, <1>6, SideFacts DEF SearchInv, Joined, Nodes
<1>10. Progressed'
  BY <1>1, <1>3, <1>4 DEF Progressed
<1> QED
  BY <1>6, <1>7, <1>8, <1>9, <1>10 DEF SearchInv

LEMMA PassEndsStep ==
    ASSUME SearchInv, W!PassEnds
    PROVE  SearchInv'
<1>1. /\ pc = "branch" /\ side' = W!OtherSide(side)
      /\ pc' = "pass" \/ (pc' = "sort" /\ ancestor # W!None)
      /\ UNCHANGED <<W!graph, searches, index, count, ancestor, diffs, backLinks, region, outcome>>
  BY DEF W!PassEnds
<1>2. Parented' /\ Compared' /\ theirs' = theirs /\ ours' = ours
      /\ \A n : W!ParentSet(n)' = W!ParentSet(n)
  BY <1>1, GraphKept DEF SearchInv, W!graph
<1>3. SearchTyped'
  BY <1>1, SideFacts DEF SearchInv, SearchTyped
<1>4. LinksReal' /\ Noted' /\ AncestorBelow' /\ Joined'
  BY <1>1, <1>2 DEF SearchInv, LinksReal, Noted, AncestorBelow, Joined, Nodes, FoundBy, OpenFor
<1>5. Progressed'
  BY <1>1 DEF Progressed
<1> QED
  BY <1>2, <1>3, <1>4, <1>5 DEF SearchInv

(* Whatever is above a common ancestor was found: diffs are populated.     *)
LEMMA AlwaysPopulated ==
    ASSUME SearchInv, ancestor # W!None
    PROVE  W!Populated /\ W!Above(ancestor) \subseteq Knots /\ ancestor \in Knots
<1>1. ancestor \in Knots /\ ancestor \in diffs /\ diffs \subseteq Knots
  BY DEF SearchInv, SearchTyped, AncestorBelow
<1>2. Linked(backLinks) /\ \A l \in backLinks : l[2] \in diffs
  BY DEF SearchInv, LinksReal, Noted
<1>3. Reach(backLinks, ancestor) \subseteq diffs
  BY <1>1, <1>2, ReachLeast
<1> QED
  BY <1>1, <1>3, ReachIsAbove DEF W!Populated

LEMMA SortStep ==
    ASSUME SearchInv, W!Sort
    PROVE  SearchInv'
<1>0. /\ pc = "sort" /\ ancestor # W!None /\ ancestor \in Knots
      /\ W!Populated /\ W!Above(ancestor) \subseteq Knots
      /\ UNCHANGED <<W!graph, index, count, diffs, backLinks, outcome>>
      /\ side' = "theirs" /\ region' = W!Above(ancestor)
  BY AlwaysPopulated DEF W!Sort, SearchInv, Progressed
<1>1. Parented' /\ Compared' /\ theirs' = theirs /\ ours' = ours /\ parents' = parents
      /\ backLinks' = backLinks /\ \A n : W!ParentSet(n)' = W!ParentSet(n)
  BY <1>0, GraphKept DEF SearchInv, W!graph
<1>2. LinksReal'
  BY <1>0, <1>1 DEF SearchInv, LinksReal
<1>3. CASE W!SideBranches(ancestor) = {}
  <2>1. pc' = "decide" /\ UNCHANGED <<searches, ancestor>>
    BY <1>0, <1>3 DEF W!Sort
  <2>2. W!Above(ancestor)' = W!Above(ancestor) /\ W!SideBranches(ancestor)' = W!SideBranches(ancestor)
    BY <1>1, <2>1 DEF W!Above, W!SideBranches, W!Children, W!ParentsAt, W!ParentSet
  <2>3. SearchTyped'
    BY <1>0, <2>1, SideFacts DEF SearchInv, SearchTyped
  <2>4. Noted' /\ Joined' /\ AncestorBelow'
    BY <1>0, <1>1, <2>1 DEF SearchInv, Noted, Joined, AncestorBelow, Nodes, FoundBy, OpenFor
  <2>5. Progressed'
    BY <1>0, <1>3, <2>1, <2>2 DEF Progressed
  <2> QED
    BY <1>1, <1>2, <2>3, <2>4, <2>5 DEF SearchInv
<1>4. CASE W!SideBranches(ancestor) # {}
  <2>1. PICK branch \in W!SideBranches(ancestor) :
           searches' = W!SearchesFrom(branch, ancestor)
    BY <1>0, <1>4 DEF W!Sort
  <2>2. ancestor' = W!None /\ pc' = "pass"
    BY <1>0, <1>4 DEF W!Sort
  <2>3. branch \in W!Node /\ branch \in Knots
    <3>1. PICK c \in UNION {W!Children(m) : m \in W!Above(ancestor)} : branch \in W!ParentsAt(c)
      BY DEF W!SideBranches
    <3>2. c \in W!Node
      BY <3>1 DEF W!Children, SearchInv, LinksReal, Linked
    <3>3. branch \in W!ParentSet(c)
      BY <3>1, <3>2, NodeFacts DEF W!ParentsAt
    <3> QED
      BY <3>2, <3>3, ParentFacts DEF SearchInv, Knots
  <2>4. /\ searches'["theirs"] = W!NewSearch(branch) /\ searches'["ours"] = W!NewSearch(ancestor)
        /\ searches' = [s \in W!Side |-> W!NewSearch(IF s = "theirs" THEN branch ELSE ancestor)]
    BY <2>1, SideFacts DEF W!SearchesFrom
  <2>5. \A n \in Knots : /\ W!NewSearch(n) \in SearchState
                         /\ W!ToSet(W!NewSearch(n).found) = {}
                         /\ W!ToSet(W!NewSearch(n).branches) = {n}
                         /\ ~W!NewSearch(n).ended
    BY NewSearchFacts
  <2>6. searches' \in [W!Side -> SearchState]
    BY <1>0, <2>3, <2>4, <2>5
  <2>7. /\ FoundBy("theirs")' = {} /\ FoundBy("ours")' = {}
        /\ OpenFor("theirs")' = {branch} /\ OpenFor("ours")' = {ancestor}
        /\ ~searches'["theirs"].ended /\ ~searches'["ours"].ended
    BY <1>0, <2>3, <2>4, <2>5 DEF FoundBy, OpenFor
  <2>8. SearchTyped'
    BY <1>0, <2>2, <2>6, SideFacts DEF SearchInv, SearchTyped
  <2>9. Noted'
    <3>1. \A l \in backLinks' : l[2] \in diffs'
      BY <1>0 DEF SearchInv, Noted
    <3>2. ancestor \in diffs /\ branch # W!NULL_NODE /\ diffs' = diffs
      BY <1>0, <2>3, NodeFacts DEF SearchInv, AncestorBelow
    <3>3. \A s \in W!Side : /\ FoundBy(s)' = {} /\ ~searches'[s].ended
                            /\ OpenFor(s)' \subseteq {branch} \/ OpenFor(s)' \subseteq {ancestor}
      BY <2>7, SideFacts
    <3> QED
      BY <3>1, <3>2, <3>3 DEF Noted
  <2>10. Joined'
    <3>1. Nodes("ours")' = {ancestor}
      BY <2>7 DEF Nodes
    <3>2. theirs \in Reach(backLinks, ancestor) /\ ours \in Reach(backLinks, ancestor)
      BY <1>0 DEF SearchInv, AncestorBelow
    <3> QED
      BY <1>1, <3>1, <3>2 DEF Joined
  <2>11. AncestorBelow' /\ Progressed'
    BY <2>2 DEF AncestorBelow, Progressed
  <2> QED
    BY <1>1, <1>2, <2>8, <2>9, <2>10, <2>11 DEF SearchInv
<1> QED
  BY <1>3, <1>4

(* Without side branches the region has all parents of its revisions, and  *)
(* it has what is compared.                                                *)
LEMMA RegionFound ==
    ASSUME SearchInv, pc \in {"decide", "done"}
    PROVE  Region /\ W!Decidable
<1>1. /\ ancestor # W!None /\ ancestor \in Knots
      /\ region = W!Above(ancestor) /\ W!SideBranches(ancestor) = {}
      /\ Linked(backLinks)
  BY DEF SearchInv, SearchTyped, Progressed, LinksReal
<1>2. region = Reach(backLinks, ancestor)
  BY <1>1, ReachIsAbove
<1>3. theirs \in region /\ ours \in region
  BY <1>1, <1>2 DEF SearchInv, AncestorBelow
<1> DEFINE S == {n \in region : W!RegionParents(n) \subseteq region}
<1>4. ancestor \in S
  BY <1>1, <1>2, ReachFacts DEF W!RegionParents
<1>5. ASSUME NEW l \in backLinks, l[1] \in S PROVE l[2] \in S
  <2>1. l[1] \in region /\ l[2] \in region
    BY <1>1, <1>2, <1>5, ReachFacts
  <2>2. l[2] \in W!Children(l[1])
    BY DEF W!Children
  <2>3. W!ParentsAt(l[2]) \subseteq W!Above(ancestor)
    <3> SUFFICES ASSUME NEW p \in W!ParentsAt(l[2]), p \notin W!Above(ancestor) PROVE FALSE
      OBVIOUS
    <3> DEFINE C == UNION {W!Children(m) : m \in W!Above(ancestor)}
               child == l[2]
    <3>1. child \in C /\ p \in W!ParentsAt(child)
      BY <1>1, <1>5, <2>2
    <3>2. W!SideBranches(ancestor) = (UNION {W!ParentsAt(c) : c \in C}) \ W!Above(ancestor)
      BY DEF W!SideBranches
    <3> HIDE DEF C, child
    <3>3. p \in UNION {W!ParentsAt(c) : c \in C}
      BY <3>1
    <3>4. p \in W!SideBranches(ancestor)
      BY <3>2, <3>3
    <3> QED
      BY <1>1, <3>4
  <2> QED
    BY <1>1, <2>1, <2>3 DEF W!RegionParents
<1>6. region \subseteq S
  <2> HIDE DEF S
  <2> QED
    BY <1>1, <1>2, <1>4, <1>5, ReachLeast
<1>7. W!RegionClosed
  BY <1>6 DEF W!RegionClosed
<1> QED
  BY <1>1, <1>3, <1>7 DEF Region, W!Decidable

LEMMA DecideStep ==
    ASSUME SearchInv, W!Decide
    PROVE  SearchInv'
<1>1. /\ pc = "decide" /\ W!Decidable
      /\ UNCHANGED <<W!graph, searches, side, index, count, ancestor, diffs, backLinks, region>>
  BY RegionFound DEF W!Decide
<1>2. pc' = "done" /\ outcome' = W!Decision(W!AllAncestors(theirs), W!AllAncestors(ours), region)
  BY <1>1 DEF W!Decide
<1>3. Parented' /\ Compared' /\ theirs' = theirs /\ ours' = ours /\ parents' = parents
      /\ backLinks' = backLinks /\ ancestor' = ancestor /\ region' = region
      /\ \A n : W!ParentSet(n)' = W!ParentSet(n)
  BY <1>1, GraphKept DEF SearchInv, W!graph
<1>4. SearchTyped' /\ LinksReal' /\ Noted' /\ Joined' /\ AncestorBelow'
  BY <1>1, <1>2, <1>3
     DEF SearchInv, SearchTyped, LinksReal, Noted, Joined, AncestorBelow, Nodes, FoundBy, OpenFor
<1>5. W!Above(ancestor)' = W!Above(ancestor) /\ W!SideBranches(ancestor)' = W!SideBranches(ancestor)
  BY <1>3 DEF W!Above, W!SideBranches, W!Children, W!ParentsAt, W!ParentSet
<1>6. W!Decision(W!AllAncestors(theirs), W!AllAncestors(ours), region)'
      = W!Decision(W!AllAncestors(theirs), W!AllAncestors(ours), region)
  BY <1>3 DEF W!Decision, W!AllAncestors, W!RegionParents, W!ParentsAt, W!ParentSet
<1>7. Progressed'
  BY <1>1, <1>2, <1>3, <1>5, <1>6 DEF SearchInv, Progressed
<1> QED
  BY <1>3, <1>4, <1>7 DEF SearchInv

LEMMA SearchUnchanged ==
    ASSUME SearchInv, UNCHANGED searchVars
    PROVE  SearchInv'
<1>1. /\ UNCHANGED W!graph
      /\ UNCHANGED <<parents, theirs, ours, pc, searches, side, index, count, ancestor, diffs,
                     backLinks, region, outcome>>
  BY DEF searchVars, W!graph
<1>2. Parented' /\ Compared' /\ \A n : W!ParentSet(n)' = W!ParentSet(n)
  BY <1>1, GraphKept DEF SearchInv
<1>3. SearchTyped' /\ LinksReal' /\ Noted' /\ Joined' /\ AncestorBelow'
  BY <1>1, <1>2
     DEF SearchInv, SearchTyped, LinksReal, Noted, Joined, AncestorBelow, Nodes, FoundBy, OpenFor
<1>4. W!Above(ancestor)' = W!Above(ancestor) /\ W!SideBranches(ancestor)' = W!SideBranches(ancestor)
  BY <1>1 DEF W!Above, W!SideBranches, W!Children, W!ParentsAt, W!ParentSet
<1>5. W!Decision(W!AllAncestors(theirs), W!AllAncestors(ours), region)'
      = W!Decision(W!AllAncestors(theirs), W!AllAncestors(ours), region)
  BY <1>1 DEF W!Decision, W!AllAncestors, W!RegionParents, W!ParentsAt, W!ParentSet
<1>6. Progressed'
  BY <1>1, <1>4, <1>5 DEF SearchInv, Progressed
<1> QED
  BY <1>2, <1>3, <1>6 DEF SearchInv

LEMMA SearchStep ==
    ASSUME SearchInv, W!Next
    PROVE  SearchInv'
  BY PassBeginsStep, PassEndsStep, AlreadyVisitedStep, SeenOnOtherSideStep, ReachedEndStep,
     ToParentsStep, SortStep, DecideStep
     DEF W!Next
-----------------------------------------------------------------------------
(* The graphs of the initial states: every revision has a list of older    *)
(* parents.                                                                *)

GrownBy(n, gs) == {Append(h, l) : h \in gs, l \in W!ParentLists(n)}

AreGraphs(g, N) ==
    g = [n \in 0 .. N |-> IF n = 0 THEN {<<>>} ELSE GrownBy(n, g[n - 1])]

LEMMA GraphsExist ==
    ASSUME NEW N \in Nat
    PROVE  \E g : AreGraphs(g, N)
<1> DEFINE T == {n \in Nat : \E g : AreGraphs(g, n)}
<1>1. 0 \in T
  <2>1. AreGraphs([n \in 0 .. 0 |-> {<<>>}], 0)
    BY DEF AreGraphs
  <2> QED
    BY <2>1
<1>2. ASSUME NEW n \in T PROVE n + 1 \in T
  <2>1. PICK g : AreGraphs(g, n)
    BY <1>2
  <2> DEFINE f == [k \in 0 .. (n + 1) |-> IF k <= n THEN g[k] ELSE GrownBy(k, g[n])]
  <2>2. n \in Nat /\ \A k \in 0 .. n : g[k] = IF k = 0 THEN {<<>>} ELSE GrownBy(k, g[k - 1])
    BY <1>2, <2>1 DEF AreGraphs
  <2>3. ASSUME NEW k \in 0 .. (n + 1)
        PROVE  f[k] = IF k = 0 THEN {<<>>} ELSE GrownBy(k, f[k - 1])
    <3>1. CASE k <= n /\ k # 0
      <4>1. k \in 0 .. n /\ k - 1 \in 0 .. (n + 1) /\ k - 1 <= n
        BY <2>2, <3>1
      <4>2. f[k] = g[k] /\ f[k - 1] = g[k - 1]
        BY <4>1, <3>1
      <4> HIDE DEF f
      <4> QED
        BY <4>2, <4>1, <3>1, <2>2
    <3>2. CASE k = 0
      <4>1. 0 \in 0 .. n /\ f[k] = g[0]
        BY <2>2, <3>2
      <4> HIDE DEF f
      <4> QED
        BY <3>2, <4>1, <2>2
    <3>3. CASE k = n + 1
      <4>1. f[k] = GrownBy(k, g[n]) /\ f[k - 1] = g[n] /\ k # 0
        BY <2>2, <3>3
      <4> HIDE DEF f
      <4> QED
        BY <4>1
    <3> QED
      BY <2>2, <3>1, <3>2, <3>3
  <2>4. f = [k \in 0 .. (n + 1) |-> IF k = 0 THEN {<<>>} ELSE GrownBy(k, f[k - 1])]
    BY <2>3
  <2> HIDE DEF f
  <2>5. AreGraphs(f, n + 1)
    BY <2>4 DEF AreGraphs
  <2> QED
    BY <2>2, <2>5
<1>3. N \in T
  <2>1. T \in SUBSET Nat
    OBVIOUS
  <2> HIDE DEF T
  <2> QED
    BY <1>1, <1>2, <2>1, AllNaturals
<1> QED
  BY <1>3

LEMMA GraphsParented ==
    ASSUME parents \in W!Graphs
    PROVE  Parented
<1> DEFINE upTo == CHOOSE g : AreGraphs(g, MaxNodes)
           V == UNION {W!ParentLists(n) : n \in Nat}
           Lists(h, n) == /\ h \in Seq(V) /\ Len(h) = n
                          /\ \A m \in 1 .. n : h[m] \in W!ParentLists(m)
           T == {n \in Nat : n <= MaxNodes => \A h \in upTo[n] : Lists(h, n)}
<1>0. MaxNodes \in Nat
  BY NodesAssumption
<1>1. AreGraphs(upTo, MaxNodes)
  BY <1>0, GraphsExist
<1>2. W!Graphs = upTo[MaxNodes]
  BY DEF W!Graphs, AreGraphs, GrownBy
<1> HIDE DEF upTo
<1>3. \A n \in 0 .. MaxNodes :
         upTo[n] = IF n = 0 THEN {<<>>} ELSE GrownBy(n, upTo[n - 1])
  BY <1>1 DEF AreGraphs
<1>4. 0 \in T
  <2>1. upTo[0] = {<<>>}
    BY <1>0, <1>3
  <2>2. <<>> \in Seq(V) /\ Len(<<>>) = 0
    OBVIOUS
  <2>3. Lists(<<>>, 0)
    BY <2>2
  <2> HIDE DEF Lists
  <2>4. \A h \in upTo[0] : Lists(h, 0)
    BY <2>1, <2>3
  <2> QED
    BY <2>4
<1>5. ASSUME NEW n \in T PROVE n + 1 \in T
  <2> SUFFICES ASSUME n + 1 <= MaxNodes, NEW h \in upTo[n + 1] PROVE Lists(h, n + 1)
    OBVIOUS
  <2>1. n + 1 \in 0 .. MaxNodes /\ n + 1 # 0 /\ (n + 1) - 1 = n /\ n <= MaxNodes
    BY <1>0
  <2>2. upTo[n + 1] = GrownBy(n + 1, upTo[n])
    BY <1>3, <2>1
  <2>3. PICK g \in upTo[n], l \in W!ParentLists(n + 1) : h = Append(g, l)
    BY <2>2 DEF GrownBy
  <2>4. Lists(g, n)
    BY <2>1
  <2>5. l \in V
    BY <2>1
  <2> HIDE DEF V
  <2>6. /\ h \in Seq(V) /\ Len(h) = n + 1
        /\ \A m \in 1 .. n : h[m] = g[m]
        /\ h[n + 1] = l
    BY <2>3, <2>4, <2>5, AppendProperties
  <2> QED
    BY <2>4, <2>6
<1>6. MaxNodes \in T
  <2>1. T \in SUBSET Nat
    OBVIOUS
  <2> HIDE DEF T
  <2> QED
    BY <1>0, <1>4, <1>5, <2>1, AllNaturals
<1>7. Lists(parents, MaxNodes)
  BY <1>0, <1>2, <1>6
<1> QED
  BY <1>7, NodeFacts DEF Parented

LEMMA SearchBegins ==
    ASSUME W!Init
    PROVE  SearchInv
<1>1. /\ parents \in W!Graphs /\ theirs \in W!Node /\ ours \in W!Node \ {theirs}
      /\ W!Node = W!Past(theirs) \cup W!Past(ours)
      /\ pc = "pass" /\ searches = W!SearchesFrom(theirs, ours)
      /\ side = "theirs" /\ index = 1 /\ count = 0 /\ ancestor = W!None
      /\ diffs = {} /\ backLinks = {} /\ region = {}
  BY DEF W!Init
<1>2. Parented /\ Compared
  BY <1>1, GraphsParented DEF Compared
<1>3. theirs \in Knots /\ ours \in Knots /\ theirs # W!NULL_NODE /\ ours # W!NULL_NODE
  BY <1>1, NodeFacts
<1>4. /\ searches["theirs"] = W!NewSearch(theirs) /\ searches["ours"] = W!NewSearch(ours)
      /\ searches = [s \in W!Side |-> W!NewSearch(IF s = "theirs" THEN theirs ELSE ours)]
  BY <1>1, SideFacts DEF W!SearchesFrom
<1>5. searches \in [W!Side -> SearchState]
  BY <1>3, <1>4, NewSearchFacts
<1>6. /\ FoundBy("theirs") = {} /\ FoundBy("ours") = {}
      /\ OpenFor("theirs") = {theirs} /\ OpenFor("ours") = {ours}
      /\ ~searches["theirs"].ended /\ ~searches["ours"].ended
  BY <1>3, <1>4, NewSearchFacts DEF FoundBy, OpenFor
<1>7. SearchTyped
  BY <1>1, <1>5, SideFacts DEF SearchTyped
<1>8. LinksReal /\ AncestorBelow /\ Progressed
  BY <1>1 DEF LinksReal, Linked, AncestorBelow, Progressed
<1>9. Noted
  BY <1>1, <1>3, <1>6, SideFacts DEF Noted
<1>10. Joined
  <2>1. theirs \in Reach(backLinks, theirs) /\ ours \in Reach(backLinks, ours)
    BY <1>3, <1>8, ReachSelf DEF LinksReal
  <2> QED
    BY <1>6, <2>1 DEF Joined, Nodes
<1> QED
  BY <1>2, <1>7, <1>8, <1>9, <1>10 DEF SearchInv

-----------------------------------------------------------------------------
(* Every pull with a revision keeps the invariant of its search, however   *)
(* large the graph is and whichever side branch it takes first.            *)
THEOREM SearchKept == PullSpec => [](~first => SearchInv)
<1>1. PullInit => (~first => SearchInv)
  BY SearchBegins DEF PullInit
<1>2. (~first => SearchInv) /\ [PullNext]_<<first, searchVars, vars>> => (~first => SearchInv)'
  <2> SUFFICES ASSUME ~first => SearchInv, [PullNext]_<<first, searchVars, vars>>
               PROVE  (~first => SearchInv)'
    OBVIOUS
  <2>1. CASE GrowsHistory
    BY <2>1 DEF GrowsHistory
  <2>2. CASE Searches
    BY <2>2, SearchStep DEF Searches
  <2>3. CASE UNCHANGED <<first, searchVars, vars>>
    BY <2>3, SearchUnchanged
  <2> QED
    BY <2>1, <2>2, <2>3 DEF PullNext
<1> QED
  BY <1>1, <1>2, PTL DEF PullSpec

(* The pull decides as if it had compared the whole histories, and hands   *)
(* over exactly the revisions in theirs that are not in ours: the region   *)
(* above the common ancestor is enough, for every graph.                   *)
THEOREM PullDecidesRight == PullSpec => []DecidesRight
<1>1. (~first => SearchInv) => DecidesRight
  BY RegionFound, RightDecision DEF DecidesRight, W!DecidesRight, SearchInv, Progressed
<1> QED
  BY <1>1, SearchKept, PTL

(* No expect of the search fails, no error ends it, and no branch is read  *)
(* out of bounds.                                                          *)
THEOREM PullNeverFails == PullSpec => []NeverFails
<1>1. (~first => SearchInv) => NeverFails
  BY DEF NeverFails, W!NeverFails, W!InBounds, W!AtBranch, W!Search, SearchInv, SearchTyped,
         Progressed
<1> QED
  BY <1>1, SearchKept, PTL

LEMMA SearchTypes ==
    ASSUME SearchInv
    PROVE  W!TypeOK
<1>1. \A s \in W!Side : /\ W!ToSet(searches[s].found) \subseteq Knots
                        /\ W!ToSet(searches[s].branches) \subseteq Knots
                        /\ searches[s].ended \in BOOLEAN
  BY NodesTyped DEF Nodes, FoundBy, OpenFor, SearchState
<1>2. \A l \in backLinks : l[1] < l[2] /\ l[2] \in W!Node
  BY DEF SearchInv, LinksReal, Linked
<1> QED
  BY <1>1, <1>2 DEF W!TypeOK, SearchInv, SearchTyped, Knots

-----------------------------------------------------------------------------
(* What a number reaches when everything leads to smaller ones: the least  *)
(* set with it and with all that its members lead to.                      *)

Older(F, n) == \A m \in 1 .. n : F[m] \subseteq 1 .. m - 1

Hist(F, q) ==
    {x \in 1 .. q : \A S \in SUBSET (1 .. q) :
        (q \in S /\ \A m \in S : F[m] \subseteq S) => x \in S}

LEMMA HistFacts ==
    ASSUME NEW n \in Nat, NEW F, Older(F, n), NEW q \in 1 .. n
    PROVE  /\ q \in Hist(F, q)
           /\ Hist(F, q) \subseteq 1 .. q
           /\ \A m \in Hist(F, q) : F[m] \subseteq Hist(F, q)
<1>1. q \in 1 .. q /\ \A m \in 1 .. q : F[m] \subseteq 1 .. q
  <2> SUFFICES ASSUME NEW m \in 1 .. q PROVE F[m] \subseteq 1 .. q
    OBVIOUS
  <2>1. m \in 1 .. n /\ F[m] \subseteq 1 .. m - 1
    BY DEF Older
  <2> QED
    BY <2>1
<1> QED
  BY <1>1 DEF Hist

LEMMA HistLeast ==
    ASSUME NEW n \in Nat, NEW F, Older(F, n), NEW q \in 1 .. n,
           NEW S, q \in S, \A m \in S \cap (1 .. q) : F[m] \subseteq S
    PROVE  Hist(F, q) \subseteq S
<1> DEFINE R == S \cap (1 .. q)
<1>1. q \in R /\ R \in SUBSET (1 .. q)
  OBVIOUS
<1>2. \A m \in R : F[m] \subseteq R
  <2> SUFFICES ASSUME NEW m \in R PROVE F[m] \subseteq R
    OBVIOUS
  <2>1. m \in 1 .. n /\ m \in 1 .. q /\ F[m] \subseteq 1 .. m - 1 /\ F[m] \subseteq S
    BY DEF Older
  <2> QED
    BY <2>1
<1> HIDE DEF R
<1>3. Hist(F, q) \subseteq R
  BY <1>1, <1>2 DEF Hist
<1> QED
  BY <1>3 DEF R

LEMMA HistTransitive ==
    ASSUME NEW n \in Nat, NEW F, Older(F, n), NEW q \in 1 .. n, NEW m \in Hist(F, q)
    PROVE  m \in 1 .. q /\ Hist(F, m) \subseteq Hist(F, q)
<1>1. m \in 1 .. q /\ m \in 1 .. n /\ \A k \in Hist(F, q) : F[k] \subseteq Hist(F, q)
  BY HistFacts
<1> QED
  BY <1>1, HistLeast

LEMMA HistEquation ==
    ASSUME NEW n \in Nat, NEW F, Older(F, n), NEW q \in 1 .. n
    PROVE  Hist(F, q) = {q} \cup UNION {Hist(F, p) : p \in F[q]}
<1> DEFINE S == {q} \cup UNION {Hist(F, p) : p \in F[q]}
<1>1. \A p \in F[q] : p \in 1 .. n /\ p \in Hist(F, q) /\ Hist(F, p) \subseteq Hist(F, q)
  <2> SUFFICES ASSUME NEW p \in F[q]
               PROVE  p \in 1 .. n /\ p \in Hist(F, q) /\ Hist(F, p) \subseteq Hist(F, q)
    OBVIOUS
  <2>1. p \in Hist(F, q)
    BY HistFacts
  <2>2. p \in 1 .. n
    BY DEF Older
  <2> QED
    BY <2>1, <2>2, HistTransitive
<1>2. S \subseteq Hist(F, q)
  BY <1>1, HistFacts
<1>3. \A m \in S : F[m] \subseteq S
  <2> SUFFICES ASSUME NEW m \in S PROVE F[m] \subseteq S
    OBVIOUS
  <2>1. CASE m = q
    BY <1>1, <2>1, HistFacts
  <2>2. CASE m # q
    <3>1. PICK p \in F[q] : m \in Hist(F, p)
      BY <2>2
    <3>2. F[m] \subseteq Hist(F, p)
      BY <1>1, <3>1, HistFacts
    <3> QED
      BY <3>2
  <2> QED
    BY <2>1, <2>2
<1>4. Hist(F, q) \subseteq S
  <2>1. q \in S
    OBVIOUS
  <2> HIDE DEF S
  <2> QED
    BY <1>3, <2>1, HistLeast
<1> QED
  BY <1>2, <1>4

LEMMA HistLocal ==
    ASSUME NEW F, NEW G, NEW q, \A m \in 1 .. q : F[m] = G[m]
    PROVE  Hist(F, q) = Hist(G, q)
  BY DEF Hist

(* Past(r) and ReadBeforeSnapshots(r), in any graph and with any snapshots.*)
ParentsOf(g) == [q \in DOMAIN g |-> ToSet(g[q].parents)]

ArePasts(past, g, r) ==
    past = [q \in 1 .. r |-> {q} \cup UNION {past[p] : p \in ToSet(g[q].parents)}]

PastIn(g, r) == (CHOOSE past : ArePasts(past, g, r))[r]

LEMMA PastIsPastIn == \A r : Past(r) = PastIn(refs, r) /\ Past(r)' = PastIn(refs', r)
  BY DEF Past, PastIn, ArePasts

LEMMA PastIsHist ==
    ASSUME NEW n \in Nat, NEW g, DOMAIN g = 1 .. n, Older(ParentsOf(g), n), NEW r \in 1 .. n
    PROVE  PastIn(g, r) = Hist(ParentsOf(g), r)
<1> DEFINE F == ParentsOf(g)
           past == CHOOSE past : ArePasts(past, g, r)
<1>1. \A q \in 1 .. r : q \in 1 .. n /\ F[q] = ToSet(g[q].parents)
  BY DEF ParentsOf
<1>2. ArePasts([q \in 1 .. r |-> Hist(F, q)], g, r)
  <2> DEFINE h == [q \in 1 .. r |-> Hist(F, q)]
  <2>1. ASSUME NEW q \in 1 .. r
        PROVE  h[q] = {q} \cup UNION {h[p] : p \in ToSet(g[q].parents)}
    <3>1. h[q] = {q} \cup UNION {Hist(F, p) : p \in F[q]}
      BY <1>1, HistEquation
    <3>2. \A p \in F[q] : p \in 1 .. r
      BY <1>1 DEF Older
    <3>3. \A p \in F[q] : h[p] = Hist(F, p)
      BY <3>2
    <3>4. {h[p] : p \in F[q]} = {Hist(F, p) : p \in F[q]}
      <4> HIDE DEF h, F
      <4> QED
        BY <3>3
    <3> QED
      BY <1>1, <3>1, <3>4
  <2> QED
    BY <2>1 DEF ArePasts
<1>3. ArePasts(past, g, r)
  BY <1>2
<1> HIDE DEF past, F
<1>4. \A q \in 1 .. r : past[q] = {q} \cup UNION {past[p] : p \in F[q]}
  BY <1>1, <1>3 DEF ArePasts
<1> DEFINE Wrong == {q \in 1 .. r : past[q] # Hist(F, q)}
<1>5. Wrong = {}
  <2> SUFFICES ASSUME Wrong # {} PROVE FALSE
    OBVIOUS
  <2>1. Wrong \in SUBSET Nat
    OBVIOUS
  <2>2. PICK q \in Wrong : \A m \in Wrong : q <= m
    <3> HIDE DEF Wrong
    <3> QED
      BY <2>1, LeastNatural
  <2>3. q \in 1 .. r /\ q \in 1 .. n
    BY <1>1
  <2>4. \A p \in F[q] : p \in 1 .. r /\ p \notin Wrong
    <3> SUFFICES ASSUME NEW p \in F[q] PROVE p \in 1 .. r /\ p \notin Wrong
      OBVIOUS
    <3>1. p \in 1 .. q - 1
      BY <2>3 DEF Older, F
    <3> QED
      BY <2>2, <2>3, <3>1
  <2>5. \A p \in F[q] : past[p] = Hist(F, p)
    BY <2>4
  <2>6. {past[p] : p \in F[q]} = {Hist(F, p) : p \in F[q]}
    BY <2>5
  <2>7. Hist(F, q) = {q} \cup UNION {Hist(F, p) : p \in F[q]}
    BY <2>3, HistEquation DEF F
  <2> QED
    BY <1>4, <2>2, <2>3, <2>6, <2>7
<1> QED
  BY <1>5 DEF PastIn, past, F
-----------------------------------------------------------------------------
(* Loops that are written as recursive functions.  Every such equation has *)
(* a solution,                                                             *)

IsLoop(f, S, done, step, result) ==
    f = [w \in S |-> IF w \in done THEN result[w] ELSE f[step[w]]]

RunFrom(S, done, step, w) ==
    {v \in S : \A T \in SUBSET S :
        (w \in T /\ \A u \in T \ done : step[u] \in T) => v \in T}

LEMMA LoopDefined ==
    ASSUME NEW S, NEW done, NEW step, NEW result, \A w \in S \ done : step[w] \in S
    PROVE  \E f : IsLoop(f, S, done, step, result)
<1> DEFINE run(w) == RunFrom(S, done, step, w)
           end(w) == CHOOSE v : v \in run(w) \cap done
           f == [w \in S |-> result[end(w)]]
<1>1. ASSUME NEW w \in S
      PROVE  w \in run(w) /\ run(w) \subseteq S
             /\ \A u \in run(w) \ done : step[u] \in run(w)
    BY DEF RunFrom
<1>2. ASSUME NEW w \in S, NEW T \in SUBSET S, w \in T, \A u \in T \ done : step[u] \in T
      PROVE  run(w) \subseteq T
  BY <1>2 DEF RunFrom
<1>3. ASSUME NEW w \in S \cap done PROVE end(w) = w
  <2>1. run(w) \cap done = {w}
    <3>1. run(w) \subseteq {w}
      BY <1>2
    <3> QED
      BY <1>1, <3>1
  <2> HIDE DEF run
  <2> QED
    BY <2>1
<1>4. ASSUME NEW w \in S \ done PROVE end(w) = end(step[w])
  <2>1. step[w] \in S
    OBVIOUS
  <2>2. run(w) \subseteq {w} \cup run(step[w])
    <3>1. {w} \cup run(step[w]) \in SUBSET S
      BY <1>1, <2>1
    <3>2. \A u \in ({w} \cup run(step[w])) \ done : step[u] \in {w} \cup run(step[w])
      BY <1>1, <2>1
    <3> HIDE DEF run
    <3> QED
      BY <1>2, <3>1, <3>2
  <2>3. run(step[w]) \subseteq run(w)
    <3>1. step[w] \in run(w) /\ run(w) \in SUBSET S /\ \A u \in run(w) \ done : step[u] \in run(w)
      BY <1>1
    <3> HIDE DEF run
    <3> QED
      BY <1>2, <2>1, <3>1
  <2>4. run(w) \cap done = run(step[w]) \cap done
    BY <2>2, <2>3
  <2> HIDE DEF run
  <2> QED
    BY <2>4
<1> HIDE DEF end
<1>5. \A w \in S : f[w] = IF w \in done THEN result[w] ELSE f[step[w]]
  BY <1>3, <1>4
<1>6. f = [w \in S |-> IF w \in done THEN result[w] ELSE f[step[w]]]
  <2>1. f = [w \in S |-> f[w]]
    OBVIOUS
  <2> HIDE DEF f
  <2> QED
    BY <1>5, <2>1
<1> HIDE DEF f
<1> QED
  BY <1>6 DEF IsLoop

(* and it runs to an end, inside every set that its steps do not leave, if *)
(* some number becomes smaller with every step.                            *)
Progresses(Good, done, step, fuel) ==
    \A w \in Good \ done :
        /\ fuel[w] \in SUBSET Nat /\ fuel[w] # {}
        /\ step[w] \in Good
        /\ \A n \in fuel[w] : \E m \in fuel[step[w]] : m < n

LEMMA LoopEnds ==
    ASSUME NEW f, NEW S, NEW done, NEW step, NEW result, IsLoop(f, S, done, step, result),
           NEW Good \in SUBSET S, NEW fuel, Progresses(Good, done, step, fuel)
    PROVE  \A w \in Good : \E v \in Good \cap done : f[w] = result[v]
<1> DEFINE ends(w) == \E v \in Good \cap done : f[w] = result[v]
           Bad == {w \in Good : ~ends(w)}
           T == {n \in Nat : \E w \in Bad : n \in fuel[w]}
<1>0. \A w \in Good \ done :
        /\ fuel[w] \in SUBSET Nat /\ fuel[w] # {}
        /\ step[w] \in Good
        /\ \A n \in fuel[w] : \E m \in fuel[step[w]] : m < n
  BY DEF Progresses
<1>1. \A w \in Good : f[w] = IF w \in done THEN result[w] ELSE f[step[w]]
  BY DEF IsLoop
<1>2. \A w \in Bad : w \in Good /\ w \notin done
  BY <1>1
<1>3. ASSUME NEW w \in Bad PROVE step[w] \in Bad
  <2>1. f[w] = f[step[w]] /\ step[w] \in Good
    BY <1>0, <1>1, <1>2
  <2> QED
    BY <1>2, <2>1
<1> SUFFICES ASSUME NEW b \in Bad PROVE FALSE
  OBVIOUS
<1> HIDE DEF Bad
<1>4. T # {} /\ T \in SUBSET Nat
  BY <1>0, <1>2
<1>5. PICK n \in T : \A m \in T : n <= m
  <2> HIDE DEF T
  <2> QED
    BY <1>4, LeastNatural
<1>6. PICK w \in Bad : n \in fuel[w]
  BY <1>5
<1>7. w \in Good \ done /\ step[w] \in Bad
  BY <1>2, <1>3
<1>8. step[w] \in Good \ done
  BY <1>2, <1>7
<1>9. PICK m \in fuel[step[w]] : m < n
  BY <1>0, <1>6, <1>7, <1>8
<1>10. m \in T
  BY <1>0, <1>7, <1>8, <1>9
<1> QED
  BY <1>4, <1>5, <1>9, <1>10

-----------------------------------------------------------------------------
(* The number for a queue of revisions in which the first is replaced by   *)
(* its parents: every revision weighs more than any two older ones.        *)

Weights(wt, N) ==
    /\ wt \in [0 .. N -> Nat]
    /\ \A p, q, r \in 0 .. N : p < r /\ q < r => wt[p] + wt[q] < wt[r]

LEMMA WeightsExist ==
    ASSUME NEW N \in Nat
    PROVE  \E wt : Weights(wt, N)
<1> DEFINE T == {n \in Nat : \E wt : Weights(wt, n) /\ \A p \in 0 .. n : wt[p] <= wt[n]}
<1>1. 0 \in T
  <2>1. Weights([k \in 0 .. 0 |-> 0], 0)
    BY DEF Weights
  <2> QED
    BY <2>1
<1>2. ASSUME NEW n \in T PROVE n + 1 \in T
  <2>1. PICK wt : Weights(wt, n) /\ \A p \in 0 .. n : wt[p] <= wt[n]
    BY <1>2
  <2> DEFINE more == [k \in 0 .. n + 1 |-> IF k <= n THEN wt[k] ELSE wt[n] + wt[n] + 1]
  <2>2. n \in Nat /\ n \in 0 .. n /\ wt[n] \in Nat /\ \A k \in 0 .. n : wt[k] \in Nat
    BY <1>2, <2>1 DEF Weights
  <2>3. /\ \A k \in 0 .. n : more[k] = wt[k]
        /\ more[n + 1] = wt[n] + wt[n] + 1
        /\ more \in [0 .. n + 1 -> Nat]
    BY <2>2
  <2> HIDE DEF more
  <2>4. \A p \in 0 .. n + 1 : more[p] <= more[n + 1]
    <3> SUFFICES ASSUME NEW p \in 0 .. n + 1 PROVE more[p] <= more[n + 1]
      OBVIOUS
    <3>1. CASE p \in 0 .. n
      BY <2>1, <2>2, <2>3, <3>1
    <3>2. CASE p = n + 1
      BY <2>2, <2>3, <3>2
    <3> QED
      BY <2>2, <3>1, <3>2
  <2>5. ASSUME NEW p \in 0 .. n + 1, NEW q \in 0 .. n + 1, NEW r \in 0 .. n + 1, p < r, q < r
        PROVE  more[p] + more[q] < more[r]
    <3>1. p \in 0 .. n /\ q \in 0 .. n
      BY <2>2, <2>5
    <3>2. CASE r \in 0 .. n
      BY <2>1, <2>3, <2>5, <3>1, <3>2 DEF Weights
    <3>3. CASE r = n + 1
      <4>1. wt[p] <= wt[n] /\ wt[q] <= wt[n] /\ wt[p] \in Nat /\ wt[q] \in Nat
        BY <2>1, <2>2, <3>1
      <4> QED
        BY <2>2, <2>3, <3>1, <3>3, <4>1
    <3> QED
      BY <2>2, <3>2, <3>3
  <2>6. Weights(more, n + 1)
    BY <2>3, <2>5 DEF Weights
  <2> QED
    BY <2>2, <2>4, <2>6
<1>3. N \in T
  <2>1. T \in SUBSET Nat
    OBVIOUS
  <2> HIDE DEF T
  <2> QED
    BY <1>1, <1>2, <2>1, AllNaturals
<1> QED
  BY <1>3

LEMMA WeightFacts ==
    ASSUME NEW N \in Nat, NEW wt, Weights(wt, N)
    PROVE  /\ \A p \in 1 .. N : wt[p] \in Nat /\ wt[p] > 0
           /\ \A p, q, r \in 1 .. N : p < r /\ q < r => wt[p] + wt[q] < wt[r]
<1>1. 1 .. N \subseteq 0 .. N /\ 0 \in 0 .. N /\ \A p \in 1 .. N : 0 < p
  OBVIOUS
<1>2. \A p \in 0 .. N : wt[p] \in Nat
  BY DEF Weights
<1>3. \A p \in 1 .. N : wt[0] + wt[0] < wt[p]
  BY <1>1 DEF Weights
<1>4. \A p, q, r \in 1 .. N : p < r /\ q < r => wt[p] + wt[q] < wt[r]
  BY <1>1 DEF Weights
<1> QED
  BY <1>1, <1>2, <1>3, <1>4

Sums(t, wt, q) ==
    /\ t \in [1 .. Len(q) + 1 -> Nat]
    /\ t[Len(q) + 1] = 0
    /\ \A k \in 1 .. Len(q) : t[k] = wt[q[k]] + t[k + 1]

Fuel(wt, q) == {n \in Nat : \E t : Sums(t, wt, q) /\ n = t[1]}

LEMMA LessByOne == \A x, w, z \in Nat : z + z < w => x < w + x
  OBVIOUS

LEMMA FuelStart ==
    ASSUME NEW N \in Nat, NEW wt, Weights(wt, N), NEW r \in 1 .. N
    PROVE  Fuel(wt, <<r>>) # {}
<1> DEFINE t == [k \in 1 .. 2 |-> IF k = 1 THEN wt[r] ELSE 0]
<1>1. wt[r] \in Nat
  BY DEF Weights
<1>2. Sums(t, wt, <<r>>) /\ t[1] \in Nat
  BY <1>1 DEF Sums
<1> QED
  BY <1>2 DEF Fuel

LEMMA FuelTail ==
    ASSUME NEW N \in Nat, NEW wt, Weights(wt, N), NEW q \in Seq(1 .. N), q # <<>>,
           NEW n \in Fuel(wt, q)
    PROVE  \E m \in Fuel(wt, Tail(q)) : m < n
<1>1. PICK t : Sums(t, wt, q) /\ n = t[1]
  BY DEF Fuel
<1>2. /\ Len(q) \in Nat /\ Len(q) >= 1 /\ q[1] \in 1 .. N
      /\ Len(Tail(q)) = Len(q) - 1
      /\ \A k \in 1 .. Len(q) - 1 : Tail(q)[k] = q[k + 1]
  OBVIOUS
<1> DEFINE s == [k \in 1 .. Len(q) |-> t[k + 1]]
<1>3. Sums(s, wt, Tail(q))
  <2>1. s \in [1 .. Len(Tail(q)) + 1 -> Nat] /\ s[Len(Tail(q)) + 1] = 0
    BY <1>1, <1>2 DEF Sums
  <2>2. ASSUME NEW k \in 1 .. Len(q) - 1 PROVE s[k] = wt[Tail(q)[k]] + s[k + 1]
    <3>1. k + 1 \in 1 .. Len(q) /\ k \in 1 .. Len(q)
      BY <1>2
    <3>2. t[k + 1] = wt[q[k + 1]] + t[(k + 1) + 1]
      BY <1>1, <3>1 DEF Sums
    <3> QED
      BY <1>2, <3>1, <3>2
  <2> HIDE DEF s
  <2> QED
    BY <1>2, <2>1, <2>2 DEF Sums
<1>4. s[1] = t[2] /\ t[2] \in Nat /\ t[1] = wt[q[1]] + t[2]
  BY <1>1, <1>2 DEF Sums
<1>5. wt[q[1]] \in Nat /\ wt[0] \in Nat /\ wt[0] + wt[0] < wt[q[1]]
  BY <1>2 DEF Weights
<1> HIDE DEF s
<1>6. s[1] < n
  <2>1. s[1] \in Nat /\ n = wt[q[1]] + s[1]
    BY <1>1, <1>4
  <2> QED
    BY <1>5, <2>1, LessByOne
<1>7. s[1] \in Fuel(wt, Tail(q))
  BY <1>3, <1>4 DEF Fuel
<1> QED
  BY <1>6, <1>7

LEMMA FuelReplaced ==
    ASSUME NEW N \in Nat, NEW wt, Weights(wt, N), NEW q \in Seq(1 .. N), q # <<>>,
           NEW n \in Fuel(wt, q), NEW p \in 1 .. N
    PROVE  n - wt[q[1]] + wt[p] \in Fuel(wt, <<p>> \o Tail(q))
<1>1. PICK t : Sums(t, wt, q) /\ n = t[1]
  BY DEF Fuel
<1> DEFINE b == <<p>> \o Tail(q)
           s == [t EXCEPT ![1] = wt[p] + t[2]]
<1>2. /\ Len(q) \in Nat /\ Len(q) >= 1 /\ q[1] \in 1 .. N
      /\ Len(b) = Len(q) /\ b[1] = p
      /\ \A k \in 2 .. Len(q) : b[k] = q[k]
  OBVIOUS
<1>3. /\ wt[p] \in Nat /\ wt[q[1]] \in Nat /\ t[2] \in Nat /\ t[1] = wt[q[1]] + t[2]
      /\ t \in [1 .. Len(q) + 1 -> Nat] /\ t[Len(q) + 1] = 0
      /\ \A k \in 1 .. Len(q) : t[k] = wt[q[k]] + t[k + 1]
  <2>1. wt[p] \in Nat /\ wt[q[1]] \in Nat
    BY <1>2, WeightFacts
  <2>2. /\ t \in [1 .. Len(q) + 1 -> Nat] /\ t[Len(q) + 1] = 0
        /\ \A k \in 1 .. Len(q) : t[k] = wt[q[k]] + t[k + 1]
    BY <1>1 DEF Sums
  <2>3. 2 \in 1 .. Len(q) + 1 /\ 1 \in 1 .. Len(q) /\ 1 + 1 = 2
    BY <1>2
  <2>4. t[2] \in Nat /\ t[1] = wt[q[1]] + t[1 + 1]
    BY <2>2, <2>3
  <2> QED
    BY <2>1, <2>2, <2>3, <2>4
<1>4. /\ s \in [1 .. Len(q) + 1 -> Nat] /\ s[1] = wt[p] + t[2]
      /\ \A k \in 2 .. Len(q) + 1 : s[k] = t[k]
  <2> DEFINE l == Len(q) + 1
             x == wt[p] + t[2]
  <2>1. t \in [1 .. l -> Nat] /\ l \in Nat /\ 1 \in 1 .. l /\ x \in Nat /\ s = [t EXCEPT ![1] = x]
    BY <1>2, <1>3
  <2> HIDE DEF l, x, s
  <2>2. s \in [1 .. l -> Nat] /\ s[1] = x /\ \A k \in 1 .. l : k # 1 => s[k] = t[k]
    BY <2>1
  <2>3. \A k \in 2 .. l : k \in 1 .. l /\ k # 1
    BY <2>1
  <2> QED
    BY <2>2, <2>3 DEF l, x
<1> HIDE DEF b, s
<1>5. Sums(s, wt, b)
  <2>1. ASSUME NEW k \in 1 .. Len(b) PROVE s[k] = wt[b[k]] + s[k + 1]
    <3>1. CASE k = 1
      BY <1>2, <1>3, <1>4, <3>1
    <3>2. CASE k # 1
      <4>1. k \in 2 .. Len(q) /\ k + 1 \in 2 .. Len(q) + 1 /\ k \in 1 .. Len(q) /\ k \in 2 .. Len(q) + 1
        BY <1>2, <3>2
      <4> QED
        BY <1>2, <1>3, <1>4, <4>1
    <3> QED
      BY <3>1, <3>2
  <2>2. s[Len(b) + 1] = 0
    BY <1>2, <1>3, <1>4
  <2> QED
    BY <1>2, <1>4, <2>1, <2>2 DEF Sums
<1>6. s[1] = n - wt[q[1]] + wt[p] /\ s[1] \in Nat
  <2> DEFINE x == t[2]
             y == s[1]
             u == wt[q[1]]
             v == wt[p]
  <2>1. u \in Nat /\ v \in Nat /\ x \in Nat /\ n = u + x /\ y = v + x
    BY <1>1, <1>3, <1>4
  <2> HIDE DEF x, y, u, v
  <2>2. y = n - u + v /\ y \in Nat
    BY <2>1
  <2> QED
    BY <2>2 DEF y, u, v
<1> QED
  BY <1>5, <1>6 DEF Fuel, b

LEMMA FuelAppended ==
    ASSUME NEW N \in Nat, NEW wt, Weights(wt, N), NEW q \in Seq(1 .. N),
           NEW n \in Fuel(wt, q), NEW p \in 1 .. N
    PROVE  n + wt[p] \in Fuel(wt, q \o <<p>>)
<1>1. PICK t : Sums(t, wt, q) /\ n = t[1]
  BY DEF Fuel
<1> DEFINE b == q \o <<p>>
           s == [k \in 1 .. Len(q) + 2 |-> IF k = Len(q) + 2 THEN 0 ELSE t[k] + wt[p]]
<1>2. /\ Len(q) \in Nat /\ Len(b) = Len(q) + 1 /\ b[Len(q) + 1] = p
      /\ \A k \in 1 .. Len(q) : b[k] = q[k]
  OBVIOUS
<1>3. /\ wt[p] \in Nat
      /\ t \in [1 .. Len(q) + 1 -> Nat] /\ t[Len(q) + 1] = 0
      /\ \A k \in 1 .. Len(q) : t[k] = wt[q[k]] + t[k + 1]
      /\ \A k \in 1 .. Len(q) : wt[q[k]] \in Nat
  <2>1. \A k \in 1 .. Len(q) : q[k] \in 1 .. N
    OBVIOUS
  <2>2. wt[p] \in Nat /\ \A k \in 1 .. Len(q) : wt[q[k]] \in Nat
    BY <2>1, WeightFacts
  <2> QED
    BY <1>1, <2>2 DEF Sums
<1>4. /\ s \in [1 .. Len(q) + 2 -> Nat] /\ s[Len(q) + 2] = 0
      /\ \A k \in 1 .. Len(q) + 1 : s[k] = t[k] + wt[p]
  BY <1>2, <1>3
<1> HIDE DEF b, s
<1>5. Sums(s, wt, b)
  <2>1. ASSUME NEW k \in 1 .. Len(b) PROVE s[k] = wt[b[k]] + s[k + 1]
    <3>1. CASE k = Len(q) + 1
      <4>1. k \in 1 .. Len(q) + 1 /\ k + 1 = Len(q) + 2
        BY <1>2, <3>1
      <4>2. s[k] = t[k] + wt[p] /\ t[k] = 0 /\ s[k + 1] = 0 /\ b[k] = p
        BY <1>2, <1>3, <1>4, <3>1, <4>1
      <4> QED
        BY <1>3, <4>2
    <3>2. CASE k # Len(q) + 1
      <4>1. k \in 1 .. Len(q) /\ k + 1 \in 1 .. Len(q) + 1 /\ k \in 1 .. Len(q) + 1
        BY <1>2, <3>2
      <4>2. t[k] \in Nat /\ t[k + 1] \in Nat /\ wt[q[k]] \in Nat /\ wt[p] \in Nat
            /\ t[k] = wt[q[k]] + t[k + 1]
        BY <1>3, <4>1
      <4>3. s[k] = t[k] + wt[p] /\ s[k + 1] = t[k + 1] + wt[p] /\ b[k] = q[k]
        BY <1>2, <1>4, <4>1
      <4>4. t[k] + wt[p] = wt[q[k]] + (t[k + 1] + wt[p])
        <5> DEFINE x == t[k]
                   y == t[k + 1]
                   u == wt[q[k]]
                   v == wt[p]
        <5>1. x \in Nat /\ y \in Nat /\ u \in Nat /\ v \in Nat /\ x = u + y
          BY <4>2
        <5> HIDE DEF x, y, u, v
        <5>2. x + v = u + (y + v)
          BY <5>1
        <5> QED
          BY <5>2 DEF x, y, u, v
      <4> QED
        BY <4>3, <4>4
    <3> QED
      BY <3>1, <3>2
  <2> QED
    BY <1>2, <1>4, <2>1 DEF Sums
<1>6. s[1] = n + wt[p] /\ s[1] \in Nat
  <2>1. 1 \in 1 .. Len(q) + 1 /\ 1 \in 1 .. Len(q) + 2
    BY <1>2
  <2>2. s[1] = t[1] + wt[p] /\ s[1] \in Nat
    BY <1>4, <2>1
  <2> QED
    BY <1>1, <2>2
<1> QED
  BY <1>5, <1>6 DEF Fuel, b

LEMMA ShortSequences ==
    ASSUME NEW S, NEW s \in Seq(S)
    PROVE  /\ Len(s) = 0 => s = <<>>
           /\ Len(s) = 1 => s = <<s[1]>> /\ s[1] \in S
<1>1. Len(s) = 0 => s = <<>>
  BY EmptySeq
<1>2. ASSUME Len(s) = 1 PROVE s = <<s[1]>> /\ s[1] \in S
  <2>1. s[1] \in S
    BY <1>2, ElementOfSeq
  <2>2. <<s[1]>> \in Seq(S) /\ Len(<<s[1]>>) = 1 /\ <<s[1]>>[1] = s[1]
    BY <2>1
  <2> QED
    BY <1>2, <2>1, <2>2, SeqEqual
<1> QED
  BY <1>1, <1>2

LEMMA FuelParents ==
    ASSUME NEW N \in Nat, NEW wt, Weights(wt, N), NEW q \in Seq(1 .. N), q # <<>>,
           NEW ps \in Seq(1 .. N), Len(ps) \in 1 .. 2, \A k \in 1 .. Len(ps) : ps[k] < q[1],
           NEW n \in Fuel(wt, q)
    PROVE  \E m \in Fuel(wt, <<Head(ps)>> \o Tail(q) \o Tail(ps)) : m < n
<1> DEFINE b == <<ps[1]>> \o Tail(q)
           m == n - wt[q[1]] + wt[ps[1]]
<1>1. /\ q[1] \in 1 .. N /\ ps[1] \in 1 .. N /\ Head(ps) = ps[1] /\ b \in Seq(1 .. N)
      /\ n \in Nat
  BY DEF Fuel
<1>2. m \in Fuel(wt, b) /\ m \in Nat
  <2>1. m \in Fuel(wt, b)
    BY <1>1, FuelReplaced
  <2> HIDE DEF m, b
  <2> QED
    BY <2>1 DEF Fuel
<1>3. /\ wt[q[1]] \in Nat /\ wt[ps[1]] \in Nat /\ wt[ps[1]] < wt[q[1]]
  <2>1. ps[1] < q[1]
    OBVIOUS
  <2> DEFINE x == wt[ps[1]]
             z == wt[q[1]]
  <2>2. x + x < z /\ x \in Nat /\ z \in Nat
    BY <1>1, <2>1, WeightFacts
  <2> HIDE DEF x, z
  <2>3. x < z
    BY <2>2
  <2> QED
    BY <2>2, <2>3 DEF x, z
<1>t. ps # <<>> /\ Tail(ps) \in Seq(1 .. N) /\ Len(Tail(ps)) = Len(ps) - 1
      /\ \A i \in 1 .. Len(Tail(ps)) : Tail(ps)[i] = ps[i + 1]
  <2>1. ps # <<>>
    <3> SUFFICES ASSUME ps = <<>> PROVE FALSE
      OBVIOUS
    <3>1. Len(ps) = 0
      BY EmptySeq
    <3>2. Len(ps) \in 1 .. 2
      OBVIOUS
    <3> QED
      BY <3>1, <3>2
  <2> QED
    BY <2>1, HeadTailProperties
<1>4. CASE Len(ps) = 1
  <2>1. Tail(ps) = <<>>
    <3> DEFINE u == Tail(ps)
    <3>1. u \in Seq(1 .. N) /\ Len(u) = 0
      BY <1>t, <1>4
    <3> HIDE DEF u
    <3>2. u = <<>>
      BY <3>1, ShortSequences
    <3> QED
      BY <3>2 DEF u
  <2>2. b \o Tail(ps) = b
    <3> HIDE DEF b
    <3> QED
      BY <1>1, <2>1, ConcatEmptySeq
  <2>3. m < n
    <3> DEFINE x == wt[ps[1]]
               z == wt[q[1]]
    <3>1. x \in Nat /\ z \in Nat /\ x < z /\ n \in Nat
      BY <1>1, <1>3
    <3> HIDE DEF x, z
    <3>2. n - z + x < n
      BY <3>1
    <3> QED
      BY <3>2 DEF x, z
  <2> QED
    BY <1>1, <1>2, <2>2, <2>3
<1>5. CASE Len(ps) = 2
  <2>1. Tail(ps) = <<ps[2]>> /\ ps[2] \in 1 .. N /\ ps[2] < q[1] /\ ps[1] < q[1]
    <3>1. 1 \in 1 .. Len(ps) /\ 2 \in 1 .. Len(ps)
      BY <1>5
    <3>2. ps[2] \in 1 .. N /\ ps[2] < q[1] /\ ps[1] < q[1]
      BY <3>1, ElementOfSeq
    <3> DEFINE u == Tail(ps)
    <3> HIDE DEF u
    <3>3. u \in Seq(1 .. N) /\ Len(u) = 1 /\ u[1] = ps[2]
      <4>1. /\ u \in Seq(1 .. N) /\ Len(u) = Len(ps) - 1
            /\ \A i \in 1 .. Len(u) : u[i] = ps[i + 1]
        BY <1>t DEF u
      <4>2. Len(u) = 1 /\ 1 \in 1 .. 1 /\ 1 + 1 = 2
        BY <1>5, <4>1
      <4>3. u[1] = ps[1 + 1]
        BY <4>1, <4>2
      <4> QED
        BY <4>1, <4>2, <4>3
    <3>4. u = <<ps[2]>>
      BY <3>3, ShortSequences
    <3> QED
      BY <3>2, <3>4 DEF u
  <2>2. m + wt[ps[2]] \in Fuel(wt, b \o Tail(ps))
    <3> HIDE DEF b, m
    <3> QED
      BY <1>1, <1>2, <2>1, FuelAppended
  <2>3. wt[ps[2]] \in Nat /\ wt[ps[1]] + wt[ps[2]] < wt[q[1]]
    BY <1>1, <2>1, WeightFacts
  <2>4. m + wt[ps[2]] < n
    <3> DEFINE x == wt[ps[1]]
               y == wt[ps[2]]
               z == wt[q[1]]
    <3>1. x \in Nat /\ y \in Nat /\ z \in Nat /\ x + y < z /\ n \in Nat
      BY <1>1, <1>3, <2>3
    <3> HIDE DEF x, y, z
    <3>2. n - z + x + y < n
      BY <3>1
    <3> QED
      BY <3>2 DEF x, y, z
  <2> HIDE DEF m
  <2> QED
    BY <1>1, <2>2, <2>4
<1>6. Len(ps) = 1 \/ Len(ps) = 2
  <2> DEFINE l == Len(ps)
  <2>1. l \in 1 .. 2
    OBVIOUS
  <2> HIDE DEF l
  <2> QED
    BY <2>1 DEF l
<1> QED
  BY <1>4, <1>5, <1>6
-----------------------------------------------------------------------------
(* Graphs that commit() and merge() grow, and the snapshots in them.       *)

Grown(g) ==
    /\ g \in Seq([parents : Seq(Nat), changes : SUBSET Change, since : Nat])
    /\ \A q \in DOMAIN g : g[q].parents \in Seq(1 .. q - 1) /\ Len(g[q].parents) <= 2

ChangesIn(g, rs) == UNION {g[r].changes : r \in rs}

Covers(g, s) ==
    \A r \in DOMAIN s : /\ r \in DOMAIN g
                        /\ s[r].included = PastIn(g, r)
                        /\ UNION Range(s[r].chunks) = ChangesIn(g, PastIn(g, r))

LEMMA ConcatSet ==
    ASSUME NEW S, NEW s \in Seq(S), NEW t \in Seq(S)
    PROVE  /\ ToSet(s) \subseteq S
           /\ ToSet(s \o t) = ToSet(s) \cup ToSet(t)
<1>1. /\ Len(s) \in Nat /\ Len(t) \in Nat /\ DOMAIN s = 1 .. Len(s) /\ DOMAIN t = 1 .. Len(t)
      /\ s \o t \in Seq(S) /\ Len(s \o t) = Len(s) + Len(t)
      /\ \A i \in 1 .. Len(s) + Len(t) :
            (s \o t)[i] = IF i <= Len(s) THEN s[i] ELSE t[i - Len(s)]
  BY LenProperties, ConcatProperties
<1>2. DOMAIN (s \o t) = 1 .. Len(s) + Len(t)
  BY <1>1, LenProperties
<1>3. ToSet(s) \subseteq S
  BY <1>1, ElementOfSeq DEF ToSet
<1>4. ToSet(s \o t) = ToSet(s) \cup ToSet(t)
  <2>1. ToSet(s \o t) \subseteq ToSet(s) \cup ToSet(t)
    <3> SUFFICES ASSUME NEW i \in 1 .. Len(s) + Len(t) PROVE (s \o t)[i] \in ToSet(s) \cup ToSet(t)
      BY <1>2 DEF ToSet
    <3>1. CASE i <= Len(s)
      BY <1>1, <3>1 DEF ToSet
    <3>2. CASE ~(i <= Len(s))
      <4>1. i - Len(s) \in 1 .. Len(t)
        BY <1>1, <3>2
      <4> QED
        BY <1>1, <3>2, <4>1 DEF ToSet
    <3> QED
      BY <3>1, <3>2
  <2>2. ToSet(s) \subseteq ToSet(s \o t)
    <3> SUFFICES ASSUME NEW i \in 1 .. Len(s) PROVE s[i] \in ToSet(s \o t)
      BY <1>1 DEF ToSet
    <3>1. i \in 1 .. Len(s) + Len(t) /\ (s \o t)[i] = s[i]
      BY <1>1
    <3> QED
      BY <1>2, <3>1 DEF ToSet
  <2>3. ToSet(t) \subseteq ToSet(s \o t)
    <3> SUFFICES ASSUME NEW i \in 1 .. Len(t) PROVE t[i] \in ToSet(s \o t)
      BY <1>1 DEF ToSet
    <3>1. i + Len(s) \in 1 .. Len(s) + Len(t) /\ ~(i + Len(s) <= Len(s))
          /\ (i + Len(s)) - Len(s) = i
      BY <1>1
    <3>2. (s \o t)[i + Len(s)] = t[i]
      BY <1>1, <3>1
    <3> QED
      BY <1>2, <3>1, <3>2 DEF ToSet
  <2> QED
    BY <2>1, <2>2, <2>3
<1> QED
  BY <1>3, <1>4

LEMMA SetFacts ==
    ASSUME NEW S, NEW s \in Seq(S), s # <<>>
    PROVE  /\ Head(s) \in S /\ Head(s) = s[1] /\ Tail(s) \in Seq(S)
           /\ ToSet(s) = {Head(s)} \cup ToSet(Tail(s))
           /\ <<Head(s)>> \o Tail(s) = s
<1>0. Len(s) \in Nat /\ DOMAIN s = 1 .. Len(s)
  BY LenProperties
<1> DEFINE u == Tail(s)
<1>1. /\ Head(s) \in S /\ u \in Seq(S) /\ Len(u) = Len(s) - 1
      /\ \A i \in 1 .. Len(u) : u[i] = s[i + 1]
  BY <1>0, HeadTailProperties
<1>2. Len(s) >= 1 /\ Head(s) = s[1] /\ DOMAIN u = 1 .. Len(s) - 1
  <2>1. Len(s) \in Nat \ {0}
    BY <1>0, EmptySeq
  <2> QED
    BY <1>0, <1>1, <2>1, LenProperties
<1>3. <<s[1]>> \in Seq(S) /\ Len(<<s[1]>>) = 1 /\ <<s[1]>>[1] = s[1]
  BY <1>0, <1>1, <1>2
<1>4. /\ <<s[1]>> \o u \in Seq(S) /\ Len(<<s[1]>> \o u) = 1 + Len(u)
      /\ \A i \in 1 .. 1 + Len(u) :
            (<<s[1]>> \o u)[i] = IF i <= 1 THEN <<s[1]>>[i] ELSE u[i - 1]
  BY <1>1, <1>3, ConcatProperties
<1> HIDE DEF u
<1>5. ASSUME NEW i \in 1 .. Len(s) PROVE (<<s[1]>> \o u)[i] = s[i]
  <2>1. CASE i = 1
    BY <1>0, <1>1, <1>2, <1>3, <1>4, <2>1
  <2>2. CASE i # 1
    <3>1. i - 1 \in 1 .. Len(u) /\ (i - 1) + 1 = i /\ i \in 1 .. 1 + Len(u) /\ ~(i <= 1)
      BY <1>0, <1>1, <2>2
    <3> QED
      BY <1>0, <1>1, <1>4, <3>1
  <2> QED
    BY <2>1, <2>2
<1>6. <<s[1]>> \o u = s
  <2>1. Len(<<s[1]>> \o u) = Len(s)
    <3> DEFINE l == Len(<<s[1]>> \o u)
               k == Len(u)
    <3>1. l = 1 + k /\ k = Len(s) - 1 /\ Len(s) \in Nat
      BY <1>0, <1>1, <1>4
    <3> HIDE DEF l, k
    <3>2. l = Len(s)
      BY <3>1
    <3> QED
      BY <3>2 DEF l
  <2> HIDE DEF u
  <2> QED
    BY <1>0, <1>4, <1>5, <2>1, SeqEqual
<1>7. ToSet(s) = {s[1]} \cup ToSet(u)
  <2>1. ASSUME NEW i \in 1 .. Len(s) PROVE s[i] \in {s[1]} \cup ToSet(u)
    <3>1. CASE i # 1
      <4>1. i - 1 \in 1 .. Len(u) /\ u[i - 1] = s[(i - 1) + 1] /\ (i - 1) + 1 = i
            /\ i - 1 \in DOMAIN u
        BY <1>0, <1>1, <1>2, <3>1
      <4> QED
        BY <4>1 DEF ToSet
    <3> QED
      BY <3>1
  <2>2. ASSUME NEW i \in DOMAIN u PROVE u[i] \in ToSet(s)
    <3>1. i + 1 \in 1 .. Len(s) /\ i \in 1 .. Len(u) /\ u[i] = s[i + 1]
      BY <1>0, <1>1, <1>2
    <3> QED
      BY <1>0, <1>1, <3>1 DEF ToSet
  <2>3. s[1] \in ToSet(s)
    BY <1>0, <1>1, <1>2 DEF ToSet
  <2>4. ToSet(s) = {s[i] : i \in 1 .. Len(s)} /\ ToSet(u) = {u[i] : i \in DOMAIN u}
    BY <1>0, <1>1 DEF ToSet
  <2> QED
    BY <2>1, <2>2, <2>3, <2>4
<1> QED
  BY <1>1, <1>2, <1>6, <1>7 DEF u

LEMMA GrownFacts ==
    ASSUME NEW g, Grown(g)
    PROVE  /\ Len(g) \in Nat /\ DOMAIN g = 1 .. Len(g)
           /\ Older(ParentsOf(g), Len(g))
           /\ \A q \in DOMAIN g :
                 /\ ParentsOf(g)[q] = ToSet(g[q].parents)
                 /\ g[q].parents \in Seq(DOMAIN g)
                 /\ g[q].parents \in Seq(1 .. q - 1)
                 /\ Len(g[q].parents) \in 0 .. 2
                 /\ g[q].changes \subseteq Change
                 /\ g[q].since \in Nat
           /\ \A q \in DOMAIN g : PastIn(g, q) = Hist(ParentsOf(g), q)
<1>1. /\ Len(g) \in Nat /\ DOMAIN g = 1 .. Len(g)
      /\ \A q \in DOMAIN g : g[q] \in [parents : Seq(Nat), changes : SUBSET Change, since : Nat]
  BY LenProperties, ElementOfSeq DEF Grown
<1>2. \A q \in DOMAIN g : ParentsOf(g)[q] = ToSet(g[q].parents)
  BY DEF ParentsOf
<1>3. ASSUME NEW q \in DOMAIN g
      PROVE  /\ g[q].parents \in Seq(DOMAIN g)
             /\ g[q].parents \in Seq(1 .. q - 1)
             /\ Len(g[q].parents) \in 0 .. 2
             /\ ToSet(g[q].parents) \subseteq 1 .. q - 1
  <2>1. g[q].parents \in Seq(1 .. q - 1) /\ Len(g[q].parents) <= 2
    BY DEF Grown
  <2>2. 1 .. q - 1 \subseteq DOMAIN g
    BY <1>1
  <2> DEFINE ps == g[q].parents
  <2>3. ps \in Seq(DOMAIN g) /\ Len(ps) \in Nat /\ ToSet(ps) \subseteq 1 .. q - 1
    <3> HIDE DEF ps
    <3>1. ps \in Seq(1 .. q - 1)
      BY <2>1 DEF ps
    <3>2. ps \in Seq(DOMAIN g)
      BY <2>2, <3>1, SeqMonotonic
    <3>3. Len(ps) \in Nat
      BY <3>1, LenProperties
    <3>4. ToSet(ps) \subseteq 1 .. q - 1
      BY <3>1, ConcatSet
    <3> QED
      BY <3>2, <3>3, <3>4
  <2>4. Len(ps) \in 0 .. 2
    <3> DEFINE l == Len(ps)
    <3>1. l \in Nat /\ l <= 2
      BY <2>1, <2>3
    <3> HIDE DEF l
    <3>2. l \in 0 .. 2
      BY <3>1
    <3> QED
      BY <3>2 DEF l
  <2> QED
    BY <2>1, <2>3, <2>4
<1>4. Older(ParentsOf(g), Len(g))
  BY <1>1, <1>2, <1>3 DEF Older
<1>5. \A q \in DOMAIN g : PastIn(g, q) = Hist(ParentsOf(g), q)
  BY <1>1, <1>4, PastIsHist
<1> QED
  BY <1>1, <1>2, <1>3, <1>4, <1>5
-----------------------------------------------------------------------------
(* generate_snapshot(): where the search still has to go, first of all to  *)
(* where it is.                                                            *)

Queue(w) == IF w.at = Over THEN <<>> ELSE <<w.at>> \o w.unseen

LEMMA WalkFacts ==
    ASSUME NEW g, Grown(g), NEW w \in Walks(g), w.at # Over
    PROVE  /\ w.at \in DOMAIN g /\ w.unseen \in Seq(DOMAIN g)
           /\ w.seen \subseteq DOMAIN g /\ w.changes \subseteq Change
           /\ Queue(w) \in Seq(DOMAIN g) /\ Queue(w) # <<>>
           /\ Queue(w)[1] = w.at /\ Tail(Queue(w)) = w.unseen
           /\ ToSet(Queue(w)) = {w.at} \cup ToSet(w.unseen)
<1>1. /\ w.at \in DOMAIN g /\ w.unseen \in Seq(DOMAIN g)
      /\ w.seen \subseteq DOMAIN g /\ w.changes \subseteq Change
  BY DEF Walks
<1> DEFINE a == w.at
           u == w.unseen
           S == DOMAIN g
<1>2. a \in S /\ u \in Seq(S) /\ Queue(w) = <<a>> \o u
  BY <1>1 DEF Queue
<1> HIDE DEF a, u, S
<1>3. <<a>> \in Seq(S) /\ ToSet(<<a>>) = {a}
  BY <1>2 DEF ToSet
<1>4. <<a>> \o u \in Seq(S) /\ <<a>> \o u # <<>> /\ (<<a>> \o u)[1] = a
      /\ Tail(<<a>> \o u) = u
  BY <1>2
<1>5. ToSet(<<a>> \o u) = {a} \cup ToSet(u)
  <2> DEFINE b == <<a>>
  <2>1. b \in Seq(S) /\ ToSet(b) = {a}
    BY <1>3
  <2> HIDE DEF b
  <2>2. ToSet(b \o u) = ToSet(b) \cup ToSet(u)
    BY <1>2, <2>1, ConcatSet
  <2> QED
    BY <2>1, <2>2 DEF b
<1> QED
  BY <1>1, <1>2, <1>4, <1>5 DEF a, u, S

LEMMA OnwardsFacts ==
    ASSUME NEW g, Grown(g), NEW w \in Walks(g)
    PROVE  /\ Onwards(w) \in Walks(g)
           /\ Onwards(w).seen = w.seen /\ Onwards(w).changes = w.changes
           /\ Queue(Onwards(w)) = w.unseen
<1>1. w.unseen \in Seq(DOMAIN g) /\ DOMAIN g \subseteq Nat \ {0} /\ Over = 0
  BY GrownFacts DEF Walks, Over
<1>2. CASE w.unseen = <<>>
  BY <1>2 DEF Onwards, Walks, Queue
<1>3. CASE w.unseen # <<>>
  <2> DEFINE u == w.unseen
  <2>1. Onwards(w) = [w EXCEPT !.at = Head(u), !.isUnseen = TRUE, !.unseen = Tail(u)]
    BY <1>3 DEF Onwards
  <2>2. u \in Seq(DOMAIN g) /\ u # <<>>
    BY <1>1, <1>3
  <2> HIDE DEF u
  <2>3. Head(u) \in DOMAIN g /\ Tail(u) \in Seq(DOMAIN g) /\ <<Head(u)>> \o Tail(u) = u
    BY <2>2, SetFacts
  <2>4. Head(u) # Over
    BY <1>1, <2>3
  <2>5. Onwards(w) \in Walks(g) /\ Onwards(w).seen = w.seen /\ Onwards(w).changes = w.changes
        /\ Onwards(w).at = Head(u) /\ Onwards(w).unseen = Tail(u)
    BY <2>1, <2>3 DEF Walks
  <2> QED
    BY <2>3, <2>4, <2>5 DEF Queue, u
<1> QED
  BY <1>2, <1>3

(* A step to the parents sees the revision, and leaves it for the others   *)
(* only if it or all its parents were seen.                                *)
LEMMA HandleFacts ==
    ASSUME NEW g, Grown(g), NEW w \in Walks(g), w.at # Over
    PROVE  LET h  == HandleParents(g, w)
               ps == g[w.at].parents
           IN  /\ h \in Walks(g)
               /\ h.seen = w.seen \cup {w.at}
               /\ h.changes = w.changes \cup g[w.at].changes
               /\ \/ /\ Queue(h) = w.unseen
                     /\ w.at \in w.seen \/ ToSet(ps) \subseteq h.seen
                  \/ /\ ps # <<>>
                     /\ Queue(h) = <<Head(ps)>> \o w.unseen \o Tail(ps)
<1> DEFINE ref == g[w.at]
           ps == ref.parents
           taken == [w EXCEPT !.seen = @ \cup {w.at}, !.changes = @ \cup ref.changes]
           skip == (w.at \in w.seen /\ w.isUnseen) \/ ToSet(ps) \subseteq taken.seen
           down == [taken EXCEPT !.at = Head(ps), !.isUnseen = FALSE, !.unseen = @ \o Tail(ps)]
<1>1. /\ w.at \in DOMAIN g /\ w.unseen \in Seq(DOMAIN g)
      /\ w.seen \subseteq DOMAIN g /\ w.changes \subseteq Change
      /\ ps \in Seq(DOMAIN g) /\ ref.changes \subseteq Change
      /\ DOMAIN g \subseteq Nat \ {0} /\ Over = 0
  <2>1. /\ w.at \in DOMAIN g /\ w.unseen \in Seq(DOMAIN g)
        /\ w.seen \subseteq DOMAIN g /\ w.changes \subseteq Change
    BY WalkFacts
  <2>2. ps \in Seq(DOMAIN g) /\ ref.changes \subseteq Change /\ DOMAIN g = 1 .. Len(g)
    BY <2>1, GrownFacts
  <2> QED
    BY <2>1, <2>2 DEF Over
<1>2. /\ taken \in Walks(g) /\ taken.seen = w.seen \cup {w.at}
      /\ taken.changes = w.changes \cup ref.changes
      /\ taken.unseen = w.unseen /\ taken.at = w.at
  BY <1>1 DEF Walks
<1>3. HandleParents(g, w) = IF skip THEN Onwards(taken) ELSE down
  BY DEF HandleParents
<1>4. CASE skip
  <2>1. HandleParents(g, w) = Onwards(taken)
    BY <1>3, <1>4
  <2>2. w.at \in w.seen \/ ToSet(ps) \subseteq w.seen \cup {w.at}
    BY <1>2, <1>4
  <2> HIDE DEF taken, ps, ref, skip, down
  <2>3. /\ Onwards(taken) \in Walks(g) /\ Onwards(taken).seen = taken.seen
        /\ Onwards(taken).changes = taken.changes /\ Queue(Onwards(taken)) = taken.unseen
    BY <1>2, OnwardsFacts
  <2> QED
    BY <1>2, <2>1, <2>2, <2>3 DEF ps, ref
<1>5. CASE ~skip
  <2>1. HandleParents(g, w) = down
    BY <1>3, <1>5
  <2>2. ps # <<>>
    <3>1. ToSet(<<>>) = {}
      BY DEF ToSet
    <3> QED
      BY <1>5, <3>1
  <2> HIDE DEF skip
  <2>3. Head(ps) \in DOMAIN g /\ Tail(ps) \in Seq(DOMAIN g) /\ Head(ps) # Over
    <3> HIDE DEF ps
    <3> QED
      BY <1>1, <2>2, SetFacts
  <2>4. taken.unseen \o Tail(ps) \in Seq(DOMAIN g)
    <3> DEFINE t == Tail(ps)
    <3>1. t \in Seq(DOMAIN g) /\ taken.unseen \in Seq(DOMAIN g)
      BY <1>1, <1>2, <2>3
    <3> HIDE DEF t, taken
    <3>2. taken.unseen \o t \in Seq(DOMAIN g)
      BY <3>1, ConcatProperties
    <3> QED
      BY <3>2 DEF t
  <2> HIDE DEF taken, ps
  <2>5. /\ down \in Walks(g) /\ down.seen = taken.seen /\ down.changes = taken.changes
        /\ down.at = Head(ps) /\ down.unseen = taken.unseen \o Tail(ps)
    BY <1>2, <2>3, <2>4 DEF Walks
  <2>6. Queue(down) = <<Head(ps)>> \o (w.unseen \o Tail(ps))
    BY <1>2, <2>3, <2>5 DEF Queue
  <2>7. Queue(down) = (<<Head(ps)>> \o w.unseen) \o Tail(ps)
    <3> DEFINE a == <<Head(ps)>>
               t == Tail(ps)
               u == w.unseen
               S == DOMAIN g
    <3>1. a \in Seq(S) /\ t \in Seq(S) /\ u \in Seq(S)
      BY <1>1, <2>3
    <3> HIDE DEF a, t, u, S
    <3>2. (a \o u) \o t = a \o (u \o t)
      BY <3>1, ConcatAssociative
    <3> QED
      BY <2>6, <3>2 DEF a, t, u
  <2> QED
    BY <1>2, <2>1, <2>2, <2>5, <2>7 DEF ps, ref
<1> QED
  BY <1>4, <1>5

LEMMA TakeFacts ==
    ASSUME NEW g, Grown(g), Covers(g, snapshots), NEW w \in Walks(g), w.at \in DOMAIN snapshots
    PROVE  /\ TakeSnapshot(w) \in Walks(g)
           /\ TakeSnapshot(w).seen = w.seen \cup PastIn(g, w.at)
           /\ TakeSnapshot(w).changes = w.changes \cup ChangesIn(g, PastIn(g, w.at))
           /\ Queue(TakeSnapshot(w)) = w.unseen
<1> DEFINE i == [w EXCEPT !.seen    = @ \cup snapshots[w.at].included,
                          !.changes = @ \cup UNION Range(snapshots[w.at].chunks)]
           P == PastIn(g, w.at)
           C == ChangesIn(g, P)
<1>1. /\ w.at \in DOMAIN g /\ snapshots[w.at].included = P
      /\ UNION Range(snapshots[w.at].chunks) = C
  BY DEF Covers
<1>2. P \subseteq DOMAIN g
  <2>1. P = Hist(ParentsOf(g), w.at)
    BY <1>1, GrownFacts
  <2>2. P \subseteq 1 .. w.at
    BY <1>1, <2>1, GrownFacts, HistFacts
  <2> QED
    BY <1>1, <2>2, GrownFacts
<1>3. C \subseteq Change
  BY <1>2, GrownFacts DEF ChangesIn
<1> HIDE DEF P, C
<1>4. i \in Walks(g) /\ i.seen = w.seen \cup P /\ i.changes = w.changes \cup C
      /\ i.unseen = w.unseen
  BY <1>1, <1>2, <1>3 DEF Walks
<1>5. TakeSnapshot(w) = Onwards(i)
  BY DEF TakeSnapshot, Included
<1> HIDE DEF i
<1> QED
  BY <1>4, <1>5, OnwardsFacts DEF P, C

Frontier(w) == w.seen \cup ToSet(Queue(w))

GoodWalks(g, latest, wt) ==
    {w \in Walks(g) :
        /\ latest \in Frontier(w)
        /\ Frontier(w) \subseteq Hist(ParentsOf(g), latest)
        /\ \A x \in w.seen : ParentsOf(g)[x] \subseteq Frontier(w)
        /\ w.changes = ChangesIn(g, w.seen)
        /\ Fuel(wt, Queue(w)) # {}}

(* A step that saw a revision, or the whole history of it, and goes on     *)
(* with less to do keeps the search good.                                  *)
LEMMA GoodStep ==
    ASSUME NEW g, Grown(g), NEW latest \in DOMAIN g, NEW wt,
           NEW w \in GoodWalks(g, latest, wt), w.at # Over,
           NEW v \in Walks(g), NEW more,
           v.seen = w.seen \cup more, w.at \in more,
           v.changes = w.changes \cup ChangesIn(g, more),
           more \subseteq Hist(ParentsOf(g), latest),
           ToSet(w.unseen) \subseteq ToSet(Queue(v)),
           ToSet(Queue(v)) \subseteq Hist(ParentsOf(g), latest),
           \A x \in more : ParentsOf(g)[x] \subseteq Frontier(w) \cup Frontier(v),
           Fuel(wt, Queue(v)) # {}
    PROVE  v \in GoodWalks(g, latest, wt)
<1>1. /\ latest \in Frontier(w) /\ Frontier(w) \subseteq Hist(ParentsOf(g), latest)
      /\ \A x \in w.seen : ParentsOf(g)[x] \subseteq Frontier(w)
      /\ w.changes = ChangesIn(g, w.seen) /\ w \in Walks(g)
  BY DEF GoodWalks
<1>2. ToSet(Queue(w)) = {w.at} \cup ToSet(w.unseen)
  BY <1>1, WalkFacts
<1>3. Frontier(w) \subseteq Frontier(v)
  BY <1>2 DEF Frontier
<1>4. Frontier(v) \subseteq Hist(ParentsOf(g), latest)
  BY <1>1 DEF Frontier
<1>5. v.changes = ChangesIn(g, v.seen)
  BY <1>1 DEF ChangesIn
<1>6. \A x \in v.seen : ParentsOf(g)[x] \subseteq Frontier(v)
  BY <1>1, <1>3
<1> QED
  BY <1>1, <1>3, <1>4, <1>5, <1>6 DEF GoodWalks

LEMMA GoodHandle ==
    ASSUME NEW g, Grown(g), NEW latest \in DOMAIN g, NEW wt, Weights(wt, Len(g)),
           NEW w \in GoodWalks(g, latest, wt), w.at # Over
    PROVE  /\ HandleParents(g, w) \in GoodWalks(g, latest, wt)
           /\ \A n \in Fuel(wt, Queue(w)) : \E m \in Fuel(wt, Queue(HandleParents(g, w))) : m < n
<1> DEFINE h  == HandleParents(g, w)
           ps == g[w.at].parents
           H  == Hist(ParentsOf(g), latest)
<1>1. /\ w \in Walks(g) /\ Frontier(w) \subseteq H
      /\ \A x \in w.seen : ParentsOf(g)[x] \subseteq Frontier(w)
      /\ Fuel(wt, Queue(w)) # {}
  BY DEF GoodWalks
<1>2. /\ w.at \in DOMAIN g /\ w.unseen \in Seq(DOMAIN g)
      /\ Queue(w) \in Seq(DOMAIN g) /\ Queue(w) # <<>>
      /\ Queue(w)[1] = w.at /\ Tail(Queue(w)) = w.unseen
      /\ ToSet(Queue(w)) = {w.at} \cup ToSet(w.unseen)
  BY <1>1, WalkFacts
<1>3. /\ h \in Walks(g) /\ h.seen = w.seen \cup {w.at}
      /\ h.changes = w.changes \cup g[w.at].changes
      /\ \/ Queue(h) = w.unseen /\ (w.at \in w.seen \/ ToSet(ps) \subseteq h.seen)
         \/ ps # <<>> /\ Queue(h) = <<Head(ps)>> \o w.unseen \o Tail(ps)
  BY <1>1, HandleFacts
<1>4. /\ Len(g) \in Nat /\ DOMAIN g = 1 .. Len(g) /\ Older(ParentsOf(g), Len(g))
      /\ ParentsOf(g)[w.at] = ToSet(ps)
      /\ ps \in Seq(DOMAIN g) /\ ps \in Seq(1 .. w.at - 1) /\ Len(ps) \in 0 .. 2
  BY <1>2, GrownFacts
<1>5. ChangesIn(g, {w.at}) = g[w.at].changes
  BY DEF ChangesIn
<1>6. w.at \in H /\ ToSet(w.unseen) \subseteq H
  BY <1>1, <1>2 DEF Frontier
<1>7. ToSet(ps) \subseteq H
  BY <1>4, <1>6, HistFacts
<1> HIDE DEF h, H
<1>8. CASE Queue(h) = w.unseen /\ (w.at \in w.seen \/ ToSet(ps) \subseteq h.seen)
  <2>1. \A n \in Fuel(wt, Queue(w)) : \E m \in Fuel(wt, Queue(h)) : m < n
    BY <1>2, <1>4, <1>8, FuelTail
  <2>2. ToSet(ps) \subseteq Frontier(w) \cup Frontier(h)
    BY <1>1, <1>4, <1>8 DEF Frontier
  <2>3. Fuel(wt, Queue(h)) # {}
    BY <1>1, <2>1
  <2>4. h \in GoodWalks(g, latest, wt)
    <3> DEFINE more == {w.at}
    <3>1. /\ h.seen = w.seen \cup more /\ w.at \in more
          /\ h.changes = w.changes \cup ChangesIn(g, more) /\ more \subseteq H
          /\ ToSet(w.unseen) \subseteq ToSet(Queue(h)) /\ ToSet(Queue(h)) \subseteq H
          /\ \A x \in more : ParentsOf(g)[x] \subseteq Frontier(w) \cup Frontier(h)
      BY <1>3, <1>4, <1>5, <1>6, <1>8, <2>2
    <3>2. h \in Walks(g) /\ Fuel(wt, Queue(h)) # {}
      BY <1>3, <2>3
    <3> HIDE DEF more
    <3> QED
      BY <3>1, <3>2, GoodStep DEF H
  <2> QED
    BY <2>1, <2>4 DEF h
<1>9. CASE ps # <<>> /\ Queue(h) = <<Head(ps)>> \o w.unseen \o Tail(ps)
  <2> DEFINE t == Tail(ps)
             u == w.unseen
             S == DOMAIN g
  <2>1. Head(ps) \in S /\ t \in Seq(S) /\ ToSet(ps) = {Head(ps)} \cup ToSet(t)
    <3> HIDE DEF ps
    <3> QED
      BY <1>4, <1>9, SetFacts
  <2>2. u \in Seq(S)
    BY <1>2
  <2>3. ToSet(Queue(h)) = ToSet(u) \cup ToSet(ps)
    <3> DEFINE a == <<Head(ps)>>
    <3>1. a \in Seq(S) /\ ToSet(a) = {Head(ps)} /\ Queue(h) = (a \o u) \o t
      BY <1>9, <2>1 DEF ToSet
    <3> HIDE DEF a, t, u, S
    <3>2. a \o u \in Seq(S) /\ ToSet(a \o u) = ToSet(a) \cup ToSet(u)
      BY <2>2, <3>1, ConcatSet, ConcatProperties
    <3> DEFINE c == a \o u
    <3>3. c \in Seq(S)
      BY <3>2
    <3> HIDE DEF c
    <3>4. ToSet(c \o t) = ToSet(c) \cup ToSet(t)
      BY <2>1, <3>3, ConcatSet
    <3> QED
      BY <2>1, <3>1, <3>2, <3>4 DEF c
  <2>4. Len(ps) \in 1 .. 2 /\ \A k \in 1 .. Len(ps) : ps[k] < Queue(w)[1]
    <3> DEFINE r == w.at
               l == Len(ps)
    <3>1. r \in Nat /\ ps \in Seq(1 .. r - 1)
      BY <1>2, <1>4
    <3>2. l \in 0 .. 2 /\ l # 0
      BY <1>4, <1>9, ShortSequences
    <3>3. \A k \in 1 .. l : ps[k] \in 1 .. r - 1
      <4> HIDE DEF r, ps
      <4> QED
        BY <3>1, ElementOfSeq DEF l
    <3> HIDE DEF r, l
    <3>4. \A k \in 1 .. l : ps[k] < r
      BY <3>1, <3>3
    <3>5. l \in 1 .. 2
      BY <3>2
    <3> QED
      BY <1>2, <3>4, <3>5 DEF r, l
  <2>5. \A n \in Fuel(wt, Queue(w)) : \E m \in Fuel(wt, Queue(h)) : m < n
    <3> DEFINE q == Queue(w)
    <3>1. q \in Seq(1 .. Len(g)) /\ q # <<>> /\ Queue(h) = <<Head(ps)>> \o Tail(q) \o Tail(ps)
      BY <1>2, <1>4, <1>9
    <3>2. ps \in Seq(1 .. Len(g)) /\ Len(ps) \in 1 .. 2 /\ \A k \in 1 .. Len(ps) : ps[k] < q[1]
      BY <1>4, <2>4
    <3> HIDE DEF q, ps
    <3> QED
      BY <1>4, <3>1, <3>2, FuelParents DEF q
  <2>6. Fuel(wt, Queue(h)) # {}
    BY <1>1, <2>5
  <2>7. ToSet(ps) \subseteq Frontier(h)
    BY <2>3 DEF Frontier
  <2>8. h \in GoodWalks(g, latest, wt)
    <3> DEFINE more == {w.at}
    <3>1. /\ h.seen = w.seen \cup more /\ w.at \in more
          /\ h.changes = w.changes \cup ChangesIn(g, more) /\ more \subseteq H
          /\ ToSet(w.unseen) \subseteq ToSet(Queue(h)) /\ ToSet(Queue(h)) \subseteq H
          /\ \A x \in more : ParentsOf(g)[x] \subseteq Frontier(w) \cup Frontier(h)
      BY <1>3, <1>4, <1>5, <1>6, <1>7, <2>3, <2>7
    <3>2. h \in Walks(g) /\ Fuel(wt, Queue(h)) # {}
      BY <1>3, <2>6
    <3> HIDE DEF more
    <3> QED
      BY <3>1, <3>2, GoodStep DEF H
  <2> QED
    BY <2>5, <2>8 DEF h
<1> QED
  BY <1>3, <1>8, <1>9

LEMMA GoodTake ==
    ASSUME NEW g, Grown(g), Covers(g, snapshots), NEW latest \in DOMAIN g,
           NEW wt, Weights(wt, Len(g)),
           NEW w \in GoodWalks(g, latest, wt), w.at # Over, w.at \in DOMAIN snapshots
    PROVE  /\ TakeSnapshot(w) \in GoodWalks(g, latest, wt)
           /\ \A n \in Fuel(wt, Queue(w)) : \E m \in Fuel(wt, Queue(TakeSnapshot(w))) : m < n
<1> DEFINE h == TakeSnapshot(w)
           P == PastIn(g, w.at)
           H == Hist(ParentsOf(g), latest)
<1>1. w \in Walks(g) /\ Frontier(w) \subseteq H /\ Fuel(wt, Queue(w)) # {}
  BY DEF GoodWalks
<1>2. /\ w.at \in DOMAIN g /\ w.unseen \in Seq(DOMAIN g)
      /\ Queue(w) \in Seq(DOMAIN g) /\ Queue(w) # <<>>
      /\ Tail(Queue(w)) = w.unseen
      /\ ToSet(Queue(w)) = {w.at} \cup ToSet(w.unseen)
  BY <1>1, WalkFacts
<1>3. /\ h \in Walks(g) /\ h.seen = w.seen \cup P
      /\ h.changes = w.changes \cup ChangesIn(g, P) /\ Queue(h) = w.unseen
  BY <1>1, TakeFacts
<1>4. /\ Len(g) \in Nat /\ DOMAIN g = 1 .. Len(g) /\ Older(ParentsOf(g), Len(g))
      /\ P = Hist(ParentsOf(g), w.at)
  BY <1>2, GrownFacts
<1>5. w.at \in H /\ ToSet(w.unseen) \subseteq H
  BY <1>1, <1>2 DEF Frontier
<1>6. w.at \in P /\ P \subseteq H /\ \A x \in P : ParentsOf(g)[x] \subseteq P
  BY <1>2, <1>4, <1>5, HistFacts, HistTransitive
<1> HIDE DEF h, H, P
<1>7. \A n \in Fuel(wt, Queue(w)) : \E m \in Fuel(wt, Queue(h)) : m < n
  BY <1>2, <1>3, <1>4, FuelTail
<1>8. Fuel(wt, Queue(h)) # {}
  BY <1>1, <1>7
<1>9. \A x \in P : ParentsOf(g)[x] \subseteq Frontier(h)
  BY <1>3, <1>6 DEF Frontier
<1>10. h \in GoodWalks(g, latest, wt)
  BY <1>3, <1>5, <1>6, <1>8, <1>9, GoodStep, ZenonT(40) DEF H
<1> QED
  BY <1>7, <1>10 DEF h

IsSearch(f, g, latest, found) ==
    f = [w \in Walks(g) |->
            IF w.at = Over THEN w
            ELSE f[IF w.at \in found /\ w.at # latest
                   THEN TakeSnapshot(w)
                   ELSE HandleParents(g, w)]]

(* The search for a snapshot finds the whole history and its changes,      *)
(* whichever older snapshots it takes.                                     *)
LEMMA SearchEnds ==
    ASSUME NEW g, Grown(g), Covers(g, snapshots), NEW latest \in DOMAIN g,
           NEW found \in SUBSET DOMAIN snapshots,
           NEW start, start = [at |-> latest, isUnseen |-> FALSE, unseen |-> <<>>,
                               seen |-> {}, changes |-> {}]
    PROVE  LET w == Search(g, latest, found, start)
           IN  w.seen = PastIn(g, latest) /\ w.changes = ChangesIn(g, PastIn(g, latest))
<1> DEFINE N == Len(g)
           S == Walks(g)
           done == {w \in S : w.at = Over}
           step == [w \in S |-> IF w.at \in found /\ w.at # latest
                                THEN TakeSnapshot(w)
                                ELSE HandleParents(g, w)]
           result == [w \in S |-> w]
<1>1. /\ N \in Nat /\ DOMAIN g = 1 .. N /\ Older(ParentsOf(g), N)
      /\ PastIn(g, latest) = Hist(ParentsOf(g), latest)
  BY GrownFacts
<1>2. PICK wt : Weights(wt, N)
  BY <1>1, WeightsExist
<1>3. \A f : IsSearch(f, g, latest, found) <=> IsLoop(f, S, done, step, result)
  <2> SUFFICES ASSUME NEW f
               PROVE  IsSearch(f, g, latest, found) <=> IsLoop(f, S, done, step, result)
    OBVIOUS
  <2>1. \A w \in S : (IF w.at = Over THEN w
                      ELSE f[IF w.at \in found /\ w.at # latest
                             THEN TakeSnapshot(w) ELSE HandleParents(g, w)])
                     = (IF w \in done THEN result[w] ELSE f[step[w]])
    OBVIOUS
  <2>2. [w \in S |-> IF w.at = Over THEN w
                     ELSE f[IF w.at \in found /\ w.at # latest
                            THEN TakeSnapshot(w) ELSE HandleParents(g, w)]]
        = [w \in S |-> IF w \in done THEN result[w] ELSE f[step[w]]]
    <3> HIDE DEF S, done, step, result
    <3> QED
      BY <2>1
  <2> QED
    BY <2>2 DEF IsSearch, IsLoop
<1>4. \A w \in S : step[w] = IF w.at \in found /\ w.at # latest
                             THEN TakeSnapshot(w) ELSE HandleParents(g, w)
  OBVIOUS
<1>5. \A w \in S \ done : step[w] \in S
  BY <1>4, HandleFacts, TakeFacts
<1>6. \E f : IsSearch(f, g, latest, found)
  <2> HIDE DEF S, done, step, result
  <2> QED
    BY <1>3, <1>5, LoopDefined
<1> DEFINE f == CHOOSE f : IsSearch(f, g, latest, found)
<1>7. IsLoop(f, S, done, step, result)
  BY <1>3, <1>6
<1>8. Search(g, latest, found, start) = f[start]
  BY DEF Search, IsSearch
<1> DEFINE Good == GoodWalks(g, latest, wt)
           fuel == [w \in S |-> Fuel(wt, Queue(w))]
<1>9. Good \in SUBSET S
  BY DEF GoodWalks
<1>10. start \in Good
  <2>1. start \in Walks(g) /\ start.at = latest /\ start.at # Over
    BY <1>1 DEF Walks, Over
  <2>2. Queue(start) = <<latest>> /\ start.seen = {} /\ start.changes = {}
    BY <2>1 DEF Queue
  <2>3. ToSet(<<latest>>) = {latest}
    BY DEF ToSet
  <2>4. latest \in Hist(ParentsOf(g), latest)
    BY <1>1, HistFacts
  <2>5. Fuel(wt, <<latest>>) # {}
    BY <1>1, <1>2, FuelStart
  <2>6. ChangesIn(g, {}) = {}
    BY DEF ChangesIn
  <2>7. Frontier(start) = {latest}
    BY <2>2, <2>3 DEF Frontier
  <2> QED
    BY <2>1, <2>2, <2>4, <2>5, <2>6, <2>7 DEF GoodWalks
<1>11. ASSUME NEW w \in Good \ done
       PROVE  /\ fuel[w] \in SUBSET Nat /\ fuel[w] # {}
              /\ step[w] \in Good
              /\ \A n \in fuel[w] : \E m \in fuel[step[w]] : m < n
  <2>1. w \in S /\ w.at # Over /\ fuel[w] = Fuel(wt, Queue(w)) /\ fuel[w] # {}
    BY DEF GoodWalks
  <2>2. step[w] \in Good /\ \A n \in Fuel(wt, Queue(w)) : \E m \in Fuel(wt, Queue(step[w])) : m < n
    <3>1. CASE w.at \in found /\ w.at # latest
      BY <1>2, <1>4, <2>1, <3>1, GoodTake
    <3>2. CASE ~(w.at \in found /\ w.at # latest)
      BY <1>2, <1>4, <2>1, <3>2, GoodHandle
    <3> QED
      BY <3>1, <3>2
  <2>3. fuel[step[w]] = Fuel(wt, Queue(step[w]))
    BY <1>9, <2>2
  <2> QED
    BY <2>1, <2>2, <2>3 DEF Fuel
<1>12. \E v \in Good \cap done : f[start] = result[v]
  <2> HIDE DEF f, S, done, step, result, Good, fuel
  <2>1. Progresses(Good, done, step, fuel)
    BY <1>11 DEF Progresses
  <2>2. \A w \in Good : \E v \in Good \cap done : f[w] = result[v]
    BY <1>7, <1>9, <2>1, LoopEnds
  <2> QED
    BY <1>10, <2>2
<1> HIDE DEF f
<1>13. PICK v \in Good : f[start] = v /\ v.at = Over
  BY <1>12
<1>14. /\ latest \in Frontier(v) /\ Frontier(v) \subseteq Hist(ParentsOf(g), latest)
       /\ \A x \in v.seen : ParentsOf(g)[x] \subseteq Frontier(v)
       /\ v.changes = ChangesIn(g, v.seen)
  BY <1>13 DEF GoodWalks
<1>15. Frontier(v) = v.seen
  <2>1. ToSet(<<>>) = {}
    BY DEF ToSet
  <2> QED
    BY <1>13, <2>1 DEF Frontier, Queue
<1>16. v.seen = Hist(ParentsOf(g), latest)
  <2> DEFINE F == ParentsOf(g)
             T == v.seen
  <2>1. latest \in T /\ T \subseteq Hist(F, latest) /\ \A x \in T : F[x] \subseteq T
    BY <1>14, <1>15
  <2>2. N \in Nat /\ latest \in 1 .. N /\ Older(F, N)
    BY <1>1
  <2> HIDE DEF F, T, N
  <2>3. Hist(F, latest) \subseteq T
    BY <2>1, <2>2, HistLeast
  <2> QED
    BY <2>1, <2>3 DEF F, T
<1> QED
  BY <1>1, <1>8, <1>13, <1>14, <1>16

-----------------------------------------------------------------------------
(* Chunks: chunk k holds the places from (k - 1) * CHUNK_SIZE + 1 to       *)
(* k * CHUNK_SIZE.                                                         *)

LEMMA ProductGrows ==
    ASSUME NEW c \in Nat, NEW a \in Int, NEW b \in Int, a <= b
    PROVE  a * c <= b * c
<1>1. (b - a) \in Nat /\ (b - a) * c \in Nat
  OBVIOUS
<1>2. (b - a) * c = b * c - a * c
  OBVIOUS
<1> QED
  BY <1>1, <1>2

LEMMA PlaceInChunk ==
    ASSUME NEW i \in Nat \ {0}
    PROVE  /\ ChunkOf(i) \in Nat \ {0}
           /\ (ChunkOf(i) - 1) * CHUNK_SIZE < i
           /\ i <= ChunkOf(i) * CHUNK_SIZE
<1> DEFINE c == CHUNK_SIZE
           d == (i - 1) \div c
<1>1. c \in Nat \ {0}
  BY ConstantsAssumption
<1> HIDE DEF c
<1>2. d \in Nat /\ d * c <= i - 1 /\ i - 1 < (d + 1) * c
  BY <1>1
<1>3. ChunkOf(i) = d + 1
  BY DEF ChunkOf, c
<1> HIDE DEF d
<1>4. d + 1 \in Nat \ {0} /\ (d + 1) - 1 = d
  BY <1>2
<1> DEFINE k == d + 1
<1>5. k \in Nat \ {0} /\ (k - 1) * c <= i - 1 /\ i - 1 < k * c
  BY <1>2, <1>4
<1> HIDE DEF k
<1>6. (k - 1) * c \in Int /\ k * c \in Int
  BY <1>1, <1>5
<1>7. (k - 1) * c < i /\ i <= k * c
  <2> DEFINE x == (k - 1) * c
             y == k * c
  <2> HIDE DEF x, y
  <2>1. x < i /\ i <= y
    BY <1>5, <1>6 DEF x, y
  <2> QED
    BY <2>1 DEF x, y
<1> QED
  BY <1>3, <1>5, <1>7 DEF k, c

LEMMA LaterChunk ==
    ASSUME NEW i \in Nat \ {0}, NEW j \in Nat \ {0}, i <= j
    PROVE  ChunkOf(i) <= ChunkOf(j)
<1> DEFINE c == CHUNK_SIZE
           k == ChunkOf(i)
           l == ChunkOf(j)
<1>1. c \in Nat /\ k \in Int /\ l \in Int /\ (k - 1) * c < i /\ j <= l * c
  BY PlaceInChunk, ConstantsAssumption
<1> HIDE DEF c, k, l
<1>2. ASSUME l <= k - 1 PROVE FALSE
  <2>1. l * c <= (k - 1) * c
    BY <1>1, <1>2, ProductGrows
  <2>2. l * c \in Int /\ (k - 1) * c \in Int
    BY <1>1
  <2> QED
    BY <1>1, <2>1, <2>2
<1>3. k <= l
  BY <1>1, <1>2
<1> QED
  BY <1>3 DEF k, l

LEMMA ChunkSmall ==
    ASSUME NEW k \in Nat \ {0}, NEW I \in SUBSET (Nat \ {0}), \A i \in I : ChunkOf(i) = k
    PROVE  IsFiniteSet(I) /\ Cardinality(I) <= CHUNK_SIZE
<1> DEFINE c == CHUNK_SIZE
           from == (k - 1) * c + 1
           to   == k * c
<1>1. c \in Nat \ {0}
  BY ConstantsAssumption
<1> HIDE DEF c
<1>2. from \in Int /\ to \in Int /\ to - from + 1 = c
  BY <1>1
<1>3. I \subseteq from .. to
  <2> SUFFICES ASSUME NEW i \in I PROVE i \in from .. to
    OBVIOUS
  <2>1. (k - 1) * c < i /\ i <= k * c /\ i \in Int
    BY PlaceInChunk DEF c
  <2>2. (k - 1) * c \in Int
    BY <1>1
  <2> QED
    BY <1>2, <2>1, <2>2
<1> HIDE DEF from, to
<1>4. IsFiniteSet(from .. to) /\ Cardinality(from .. to) <= c
  BY <1>1, <1>2, FS_Interval
<1>5. IsFiniteSet(I) /\ Cardinality(I) <= Cardinality(from .. to)
  BY <1>3, <1>4, FS_Subset
<1>6. Cardinality(I) \in Nat /\ Cardinality(from .. to) \in Nat
  BY <1>4, <1>5, FS_CardinalityType
<1> QED
  BY <1>1, <1>4, <1>5, <1>6 DEF c

LEMMA SeqOfSet ==
    ASSUME NEW S, IsFiniteSet(S)
    PROVE  SetToSeq(S) \in Seq(S) /\ ToSet(SetToSeq(S)) = S
<1> DEFINE n == Cardinality(S)
           q == SetToSeq(S)
<1>1. n \in Nat /\ ExistsBijection(1 .. n, S)
  BY FS_CardinalityType
<1>2. \E f \in [1 .. n -> S] : IsInjective(f)
  BY <1>1 DEF ExistsBijection, Bijection, Injection, IsInjective
<1>3. q = CHOOSE f \in [1 .. n -> S] : IsInjective(f)
  BY DEF SetToSeq
<1> HIDE DEF n, q
<1>4. q \in [1 .. n -> S] /\ IsInjective(q)
  BY <1>2, <1>3
<1>5. q \in Seq(S)
  BY <1>1, <1>4
<1>6. q \in Injection(1 .. n, S)
  BY <1>4 DEF Injection, IsInjective
<1>7. IsFiniteSet(1 .. n) /\ Cardinality(1 .. n) = n
  BY <1>1, FS_Interval
<1>8. q \in Surjection(1 .. n, S)
  BY <1>6, <1>7, FS_Injection DEF n
<1>9. \A x \in S : \E i \in 1 .. n : q[i] = x
  BY <1>8 DEF Surjection
<1>10. ToSet(q) = S
  BY <1>4, <1>9 DEF ToSet
<1> QED
  BY <1>5, <1>10 DEF q

LEMMA ChangeFinite == ASSUME NEW S \in SUBSET Change PROVE IsFiniteSet(S)
<1>1. IsFiniteSet({"add", "remove"}) /\ IsFiniteSet(1 .. MaxRevs)
  <2>1. IsFiniteSet({"add"}) /\ IsFiniteSet({"remove"})
    BY FS_Singleton
  <2>2. {"add", "remove"} = {"add"} \cup {"remove"}
    OBVIOUS
  <2>3. 1 \in Int /\ MaxRevs \in Int
    BY ConstantsAssumption
  <2>4. IsFiniteSet(1 .. MaxRevs)
    BY <2>3, FS_Interval
  <2>5. IsFiniteSet({"add"} \cup {"remove"})
    BY <2>1, FS_Union
  <2> QED
    BY <2>2, <2>4, <2>5
<1>2. IsFiniteSet(Change)
  BY <1>1, FS_Product DEF Change, Link
<1> QED
  BY <1>2, FS_Subset

(* The chunks of some changes are these changes, and none is too large.    *)
LEMMA ChunkedFacts ==
    ASSUME NEW changes \in SUBSET Change
    PROVE  /\ DOMAIN Chunked(changes) \subseteq Nat \ {0}
           /\ UNION Range(Chunked(changes)) = changes
           /\ \A k \in DOMAIN Chunked(changes) :
                 /\ Chunked(changes)[k] \subseteq Change
                 /\ Cardinality(Chunked(changes)[k]) <= CHUNK_SIZE
<1> DEFINE adds == SetToSeq({c \in changes : c[1] = "add"})
           rems == SetToSeq({c \in changes : c[1] = "remove"})
           all  == adds \o rems
           last == ChunkOf(Len(all))
           In(k) == {j \in DOMAIN all : ChunkOf(j) = k}
           ch   == [k \in 1 .. last |-> {all[i] : i \in In(k)}]
<1>1. Chunked(changes) = ch
  BY DEF Chunked
<1>2. /\ {c \in changes : c[1] = "add"} \subseteq changes
      /\ {c \in changes : c[1] = "remove"} \subseteq changes
      /\ {c \in changes : c[1] = "add"} \cup {c \in changes : c[1] = "remove"} = changes
  BY DEF Change
<1>3. /\ adds \in Seq(changes) /\ ToSet(adds) = {c \in changes : c[1] = "add"}
      /\ rems \in Seq(changes) /\ ToSet(rems) = {c \in changes : c[1] = "remove"}
  <2>1. \A S \in SUBSET changes : SetToSeq(S) \in Seq(changes) /\ ToSet(SetToSeq(S)) = S
    <3> SUFFICES ASSUME NEW S \in SUBSET changes
                 PROVE  SetToSeq(S) \in Seq(changes) /\ ToSet(SetToSeq(S)) = S
      OBVIOUS
    <3>1. SetToSeq(S) \in Seq(S) /\ ToSet(SetToSeq(S)) = S
      BY ChangeFinite, SeqOfSet
    <3> QED
      BY <3>1, SeqMonotonic
  <2> QED
    BY <1>2, <2>1
<1> HIDE DEF adds, rems
<1>4. all \in Seq(changes) /\ ToSet(all) = changes
  <2>1. all \in Seq(changes) /\ ToSet(all) = ToSet(adds) \cup ToSet(rems)
    BY <1>3, ConcatSet, ConcatProperties
  <2> QED
    BY <1>2, <1>3, <2>1
<1> HIDE DEF all
<1>5. Len(all) \in Nat /\ DOMAIN all = 1 .. Len(all) /\ changes = {all[i] : i \in 1 .. Len(all)}
  BY <1>4, LenProperties DEF ToSet
<1>6. last \in Int
  BY <1>5, ConstantsAssumption DEF ChunkOf
<1>7. ASSUME NEW i \in 1 .. Len(all)
      PROVE  ChunkOf(i) \in 1 .. last /\ i \in In(ChunkOf(i))
  <2>1. ChunkOf(i) \in Nat \ {0} /\ ChunkOf(i) <= last
    BY <1>5, PlaceInChunk, LaterChunk
  <2> QED
    BY <1>5, <1>6, <2>1
<1> HIDE DEF last
<1>8. ASSUME NEW k \in 1 .. last
      PROVE  k \in Nat \ {0} /\ ch[k] \subseteq changes /\ Cardinality(ch[k]) <= CHUNK_SIZE
  <2>1. k \in Nat \ {0} /\ ch[k] = {all[i] : i \in In(k)}
    BY <1>6
  <2>2. ch[k] \subseteq changes
    BY <1>5, <2>1
  <2> DEFINE I == In(k)
  <2>3. I \in SUBSET (Nat \ {0}) /\ \A i \in I : ChunkOf(i) = k
    BY <1>5
  <2>4. IsFiniteSet(I) /\ Cardinality(I) <= CHUNK_SIZE
    <3> HIDE DEF I
    <3> QED
      BY <2>1, <2>3, ChunkSmall
  <2> DEFINE f == [i \in I |-> all[i]]
             T == {all[i] : i \in I}
  <2>5. f \in Surjection(I, T)
    BY DEF Surjection
  <2> HIDE DEF I, f, T
  <2>6. IsFiniteSet(T) /\ Cardinality(T) <= Cardinality(I)
    BY <2>4, <2>5, FS_Surjection
  <2>7. Cardinality(T) \in Nat /\ Cardinality(I) \in Nat /\ CHUNK_SIZE \in Nat
    BY <2>4, <2>6, FS_CardinalityType, ConstantsAssumption
  <2>8. Cardinality(T) <= CHUNK_SIZE
    BY <2>4, <2>6, <2>7
  <2> QED
    BY <2>1, <2>2, <2>8 DEF T, I
<1>9. DOMAIN ch = 1 .. last
  OBVIOUS
<1>10. UNION Range(ch) \subseteq changes
  BY <1>8 DEF Range
<1>11. changes \subseteq UNION Range(ch)
  <2> SUFFICES ASSUME NEW i \in 1 .. Len(all) PROVE all[i] \in UNION Range(ch)
    BY <1>5
  <2>1. ChunkOf(i) \in 1 .. last /\ all[i] \in ch[ChunkOf(i)]
    BY <1>7
  <2> HIDE DEF ch
  <2> QED
    BY <1>9, <2>1 DEF Range
<1> HIDE DEF ch
<1> QED
  BY <1>1, <1>8, <1>9, <1>10, <1>11

LEMMA PastInFacts ==
    ASSUME NEW g, Grown(g), NEW r \in DOMAIN g
    PROVE  PastIn(g, r) \subseteq DOMAIN g /\ ChangesIn(g, PastIn(g, r)) \subseteq Change
<1>1. PastIn(g, r) = Hist(ParentsOf(g), r) /\ Len(g) \in Nat /\ DOMAIN g = 1 .. Len(g)
  BY GrownFacts
<1>2. Hist(ParentsOf(g), r) \subseteq 1 .. r
  BY DEF Hist
<1>3. PastIn(g, r) \subseteq DOMAIN g
  BY <1>1, <1>2
<1>4. \A q \in DOMAIN g : g[q].changes \subseteq Change
  BY GrownFacts
<1> QED
  BY <1>3, <1>4 DEF ChangesIn

(* generate_snapshot() makes a snapshot of the whole history.              *)
LEMMA SnapshotMade ==
    ASSUME NEW g, Grown(g), Covers(g, snapshots), NEW latest \in DOMAIN g,
           NEW found \in SUBSET DOMAIN snapshots
    PROVE  GenerateSnapshot(g, latest, found)
              = [chunks   |-> Chunked(ChangesIn(g, PastIn(g, latest))),
                 included |-> PastIn(g, latest)]
<1> DEFINE start == [at |-> latest, isUnseen |-> FALSE, unseen |-> <<>>,
                     seen |-> {}, changes |-> {}]
           w == Search(g, latest, found, start)
<1>1. w.seen = PastIn(g, latest) /\ w.changes = ChangesIn(g, PastIn(g, latest))
  <2> HIDE DEF start
  <2>1. start = [at |-> latest, isUnseen |-> FALSE, unseen |-> <<>>, seen |-> {}, changes |-> {}]
    BY DEF start
  <2> QED
    BY <2>1, SearchEnds
<1>2. GenerateSnapshot(g, latest, found) = [chunks |-> Chunked(w.changes), included |-> w.seen]
  BY DEF GenerateSnapshot
<1> HIDE DEF w
<1> QED
  BY <1>1, <1>2

-----------------------------------------------------------------------------
(* The invariant of the snapshots.                                         *)

ChunksFit ==
    \A r \in DOMAIN snapshots :
        /\ DOMAIN snapshots[r].chunks \subseteq Nat \ {0}
        /\ \A k \in DOMAIN snapshots[r].chunks :
              /\ snapshots[r].chunks[k] \subseteq Change
              /\ Cardinality(snapshots[r].chunks[k]) <= CHUNK_SIZE

(* diffs_since_snapshot of a revision without a snapshot.                  *)
Counts(g, r) ==
    \/ g[r].parents = <<>> /\ g[r].since = 1
    \/ \E p \in 1 .. r - 1 : g[r].parents = <<p>> /\ g[r].since = g[p].since + 1
    \/ \E p, q \in 1 .. r - 1 :
          g[r].parents = <<p, q>> /\ g[r].since = g[p].since + g[q].since + 1

SnapInv ==
    /\ Grown(refs)
    /\ DOMAIN snapshots = {r \in Revs : refs[r].since = 0}
    /\ Covers(refs, snapshots)
    /\ ChunksFit
    /\ \A r \in Revs \ DOMAIN snapshots : Counts(refs, r)

LEMMA GraphGrows ==
    ASSUME SnapInv, NEW ref \in [parents : Seq(Revs), changes : SUBSET Change, since : Nat],
           Len(ref.parents) <= 2, NEW g, g = Append(refs, ref)
    PROVE  /\ Grown(g) /\ DOMAIN g = Revs \cup {New} /\ New \notin Revs /\ g[New] = ref
           /\ \A q \in Revs : g[q] = refs[q]
           /\ Covers(g, snapshots)
           /\ \A r \in Revs : Counts(refs, r) => Counts(g, r)
<1> DEFINE R == [parents : Seq(Nat), changes : SUBSET Change, since : Nat]
           n == Len(refs)
<1>1. /\ n \in Nat /\ Revs = 1 .. n /\ New = n + 1 /\ refs \in Seq(R)
      /\ \A q \in Revs : refs[q].parents \in Seq(1 .. q - 1) /\ Len(refs[q].parents) <= 2
  BY GrownFacts DEF SnapInv, Grown, Revs, New
<1>2. ref \in R /\ ref.parents \in Seq(1 .. New - 1)
  <2>1. Revs \subseteq Nat /\ 1 .. New - 1 = Revs
    BY <1>1
  <2>2. ref.parents \in Seq(Nat)
    BY <2>1, SeqMonotonic
  <2>3. ref = [parents |-> ref.parents, changes |-> ref.changes, since |-> ref.since]
    OBVIOUS
  <2> QED
    BY <2>1, <2>2, <2>3
<1> HIDE DEF R
<1>3. /\ g \in Seq(R) /\ Len(g) = n + 1 /\ g[n + 1] = ref
      /\ \A q \in 1 .. n : g[q] = refs[q]
  BY <1>1, <1>2, AppendProperties
<1>4. DOMAIN g = 1 .. n + 1
  BY <1>3, LenProperties
<1>5. DOMAIN g = Revs \cup {New} /\ New \notin Revs /\ g[New] = ref
      /\ \A q \in Revs : g[q] = refs[q]
  BY <1>1, <1>3, <1>4
<1> HIDE DEF n
<1>6. Grown(g)
  <2>1. \A q \in DOMAIN g : g[q].parents \in Seq(1 .. q - 1) /\ Len(g[q].parents) <= 2
    BY <1>1, <1>2, <1>5
  <2> QED
    BY <1>3, <2>1 DEF Grown, R
<1>7. ASSUME NEW q \in Revs PROVE PastIn(g, q) = PastIn(refs, q) /\ PastIn(refs, q) \subseteq Revs
  <2>1. q \in DOMAIN refs /\ q \in DOMAIN g
    BY <1>5 DEF Revs
  <2>2. PastIn(g, q) = Hist(ParentsOf(g), q) /\ PastIn(refs, q) = Hist(ParentsOf(refs), q)
    BY <1>6, <2>1, GrownFacts DEF SnapInv
  <2>3. \A m \in 1 .. q : m \in Revs
    BY <1>1
  <2>4. \A m \in 1 .. q : ParentsOf(g)[m] = ParentsOf(refs)[m]
    BY <1>5, <2>3 DEF ParentsOf, Revs
  <2>5. Hist(ParentsOf(g), q) = Hist(ParentsOf(refs), q)
    BY <2>4, HistLocal
  <2>6. Hist(ParentsOf(refs), q) \subseteq 1 .. q
    BY DEF Hist
  <2> QED
    BY <2>2, <2>3, <2>5, <2>6
<1>8. Covers(g, snapshots)
  <2> SUFFICES ASSUME NEW r \in DOMAIN snapshots
               PROVE  /\ r \in DOMAIN g
                      /\ snapshots[r].included = PastIn(g, r)
                      /\ UNION Range(snapshots[r].chunks) = ChangesIn(g, PastIn(g, r))
    BY DEF Covers
  <2>1. /\ r \in Revs /\ snapshots[r].included = PastIn(refs, r)
        /\ UNION Range(snapshots[r].chunks) = ChangesIn(refs, PastIn(refs, r))
    BY DEF SnapInv, Covers, Revs
  <2> DEFINE P == PastIn(refs, r)
  <2>2. PastIn(g, r) = P /\ P \subseteq Revs
    BY <1>7, <2>1
  <2> HIDE DEF P
  <2>3. ChangesIn(g, P) = ChangesIn(refs, P)
    <3>1. \A q \in P : g[q].changes = refs[q].changes
      BY <1>5, <2>2
    <3>2. {g[q].changes : q \in P} = {refs[q].changes : q \in P}
      BY <3>1
    <3> QED
      BY <3>2 DEF ChangesIn
  <2> QED
    BY <1>5, <2>1, <2>2, <2>3 DEF P
<1>9. ASSUME NEW r \in Revs, Counts(refs, r) PROVE Counts(g, r)
  <2>1. g[r] = refs[r] /\ \A p \in 1 .. r - 1 : g[p] = refs[p]
    <3>1. r \in 1 .. n /\ n \in Nat /\ \A p \in 1 .. n : p \in Revs
      BY <1>1
    <3>2. \A p \in 1 .. r - 1 : p \in 1 .. n
      BY <3>1
    <3> QED
      BY <1>5, <3>1, <3>2
  <2> QED
    BY <1>9, <2>1 DEF Counts
<1> QED
  BY <1>5, <1>6, <1>8, <1>9

LEMMA RevsFacts ==
    ASSUME SnapInv
    PROVE  Len(refs) \in Nat /\ Revs = 1 .. Len(refs) /\ New \in Nat \ {0}
           /\ \A r \in Revs : refs[r].since \in Nat
  BY GrownFacts DEF SnapInv, Revs, New

LEMMA MergeKeeps ==
    ASSUME SnapInv, NEW their \in Revs, NEW our \in Revs, Merge(their, our)
    PROVE  SnapInv'
<1> DEFINE s == SinceMerged(their, our)
           ref == [parents |-> <<their, our>>, changes |-> {}, since |-> s]
<1>1. refs' = Append(refs, ref) /\ snapshots' = snapshots
  BY DEF Merge
<1>2. /\ refs[their].since \in Nat /\ refs[our].since \in Nat
      /\ s = refs[their].since + refs[our].since + 1
  BY RevsFacts DEF SinceMerged
<1>3. s \in Nat \ {0}
  BY <1>2
<1> HIDE DEF s
<1>4. <<their, our>> \in Seq(Revs) /\ Len(<<their, our>>) <= 2
  OBVIOUS
<1>5. ref \in [parents : Seq(Revs), changes : SUBSET Change, since : Nat] /\ Len(ref.parents) <= 2
  BY <1>3, <1>4
<1>6. ref.parents = <<their, our>> /\ ref.since = s
  OBVIOUS
<1> HIDE DEF ref
<1>7. /\ Grown(refs') /\ DOMAIN refs' = Revs \cup {New} /\ New \notin Revs /\ refs'[New] = ref
      /\ \A q \in Revs : refs'[q] = refs[q]
      /\ Covers(refs', snapshots)
      /\ \A r \in Revs : Counts(refs, r) => Counts(refs', r)
  BY <1>1, <1>5, GraphGrows, ZenonT(40)
<1>8. DOMAIN snapshots = {r \in DOMAIN refs' : refs'[r].since = 0}
  <2>1. DOMAIN snapshots = {r \in Revs : refs[r].since = 0}
    BY DEF SnapInv
  <2> QED
    BY <1>3, <1>6, <1>7, <2>1
<1>9. Counts(refs', New)
  <2>1. their \in 1 .. New - 1 /\ our \in 1 .. New - 1 /\ their \in Revs /\ our \in Revs
    BY RevsFacts DEF New
  <2>2. /\ refs'[New].parents = <<their, our>>
        /\ refs'[New].since = refs'[their].since + refs'[our].since + 1
    BY <1>2, <1>6, <1>7
  <2> QED
    BY <2>1, <2>2 DEF Counts
<1>10. \A r \in DOMAIN refs' \ DOMAIN snapshots : Counts(refs', r)
  BY <1>7, <1>9 DEF SnapInv
<1>11. ChunksFit'
  BY <1>1 DEF SnapInv, ChunksFit
<1> QED
  BY <1>1, <1>7, <1>8, <1>10, <1>11 DEF SnapInv, Revs

LEMMA CommitKeeps ==
    ASSUME SnapInv, NEW tip \in 0 .. Len(refs), NEW changes \in ChangesOn(tip),
           Commit(tip, changes)
    PROVE  SnapInv'
<1> DEFINE since  == (IF tip = 0 THEN 0 ELSE refs[tip].since) + 1
           create == since >= SNAPSHOT_INTERVAL
           ps     == IF tip = 0 THEN <<>> ELSE <<tip>>
           s      == IF create THEN 0 ELSE since
           ref    == [parents |-> ps, changes |-> changes, since |-> s]
<1>1. /\ New <= MaxRevs /\ refs' = Append(refs, ref)
      /\ IF create
         THEN \E found \in SUBSET DOMAIN snapshots :
                 snapshots' = [r \in DOMAIN snapshots \cup {New} |->
                                  IF r = New THEN GenerateSnapshot(refs', New, found)
                                  ELSE snapshots[r]]
         ELSE UNCHANGED snapshots
  BY DEF Commit
<1>2. tip = 0 \/ tip \in Revs
  BY RevsFacts
<1>3. since \in Nat \ {0}
  BY <1>2, RevsFacts
<1>4. create \in BOOLEAN /\ s \in Nat /\ (s = 0 <=> create)
  BY <1>3
<1>5. ps \in Seq(Revs) /\ Len(ps) <= 2
  BY <1>2
<1>6. changes \subseteq Change
  <2>1. New \in Link
    BY <1>1, RevsFacts, ConstantsAssumption DEF Link
  <2>2. \A l \in Link : <<"add", l>> \in Change /\ <<"remove", l>> \in Change
    BY DEF Change
  <2>3. LinksAt(tip) \subseteq Link
    BY DEF LinksAt
  <2> QED
    BY <2>1, <2>2, <2>3 DEF ChangesOn
<1>7. /\ ref \in [parents : Seq(Revs), changes : SUBSET Change, since : Nat]
      /\ Len(ref.parents) <= 2 /\ ref.parents = ps /\ ref.since = s
  <2> HIDE DEF ps, s
  <2> QED
    BY <1>4, <1>5, <1>6
<1> HIDE DEF ref
<1>9. /\ Grown(refs') /\ DOMAIN refs' = Revs \cup {New} /\ New \notin Revs /\ refs'[New] = ref
      /\ \A q \in Revs : refs'[q] = refs[q]
      /\ Covers(refs', snapshots)
      /\ \A r \in Revs : Counts(refs, r) => Counts(refs', r)
  <2>1. refs' = Append(refs, ref)
    BY <1>1
  <2>2. /\ ref \in [parents : Seq(Revs), changes : SUBSET Change, since : Nat]
        /\ Len(ref.parents) <= 2
    BY <1>7
  <2> QED
    BY <2>1, <2>2, GraphGrows, ZenonT(40)
<1>10. DOMAIN snapshots = {r \in Revs : refs[r].since = 0}
  BY DEF SnapInv
<1>11. ASSUME ~create PROVE Counts(refs', New)
  <2>1. s = since
    BY <1>11
  <2>2. CASE tip = 0
    BY <1>7, <1>9, <2>1, <2>2 DEF Counts
  <2>3. CASE tip # 0
    <3>1. tip \in 1 .. New - 1 /\ tip \in Revs
      BY <1>2, <2>3, RevsFacts DEF New
    <3>2. refs'[New].parents = <<tip>> /\ refs'[New].since = refs'[tip].since + 1
      BY <1>7, <1>9, <2>1, <2>3, <3>1
    <3> QED
      BY <3>1, <3>2 DEF Counts
  <2> QED
    BY <2>2, <2>3
<1> HIDE DEF since, create, ps, s
<1>12. CASE ~create
  <2>1. snapshots' = snapshots
    BY <1>1, <1>12
  <2>2. DOMAIN snapshots' = {r \in DOMAIN refs' : refs'[r].since = 0}
    BY <1>4, <1>7, <1>9, <1>10, <1>12, <2>1
  <2>3. ChunksFit'
    BY <2>1 DEF SnapInv, ChunksFit
  <2>4. \A r \in DOMAIN refs' \ DOMAIN snapshots' : Counts(refs', r)
    BY <1>9, <1>11, <1>12, <2>1 DEF SnapInv
  <2> QED
    BY <1>9, <2>1, <2>2, <2>3, <2>4 DEF SnapInv, Revs
<1>13. CASE create
  <2>1. PICK found \in SUBSET DOMAIN snapshots :
           snapshots' = [r \in DOMAIN snapshots \cup {New} |->
                            IF r = New THEN GenerateSnapshot(refs', New, found)
                            ELSE snapshots[r]]
    BY <1>1, <1>13
  <2> DEFINE made == GenerateSnapshot(refs', New, found)
             P == PastIn(refs', New)
             C == ChangesIn(refs', P)
  <2>2. made = [chunks |-> Chunked(C), included |-> P]
    BY <1>9, SnapshotMade
  <2>3. P \subseteq DOMAIN refs' /\ C \subseteq Change
    BY <1>9, PastInFacts
  <2>4. /\ DOMAIN Chunked(C) \subseteq Nat \ {0}
        /\ UNION Range(Chunked(C)) = C
        /\ \A k \in DOMAIN Chunked(C) : /\ Chunked(C)[k] \subseteq Change
                                        /\ Cardinality(Chunked(C)[k]) <= CHUNK_SIZE
    <3> HIDE DEF C
    <3> QED
      BY <2>3, ChunkedFacts
  <2>5. /\ DOMAIN snapshots' = DOMAIN snapshots \cup {New} /\ snapshots'[New] = made
        /\ \A r \in DOMAIN snapshots : snapshots'[r] = snapshots[r]
    <3>1. \A r \in DOMAIN snapshots : r # New
      BY <1>9, <1>10
    <3> HIDE DEF made
    <3> QED
      BY <2>1, <3>1 DEF made
  <2> HIDE DEF made, P, C
  <2>6. /\ made.included = P /\ made.chunks = Chunked(C)
    BY <2>2
  <2>7. DOMAIN snapshots' = {r \in DOMAIN refs' : refs'[r].since = 0}
    BY <1>4, <1>7, <1>9, <1>10, <1>13, <2>5
  <2>8. ChunksFit'
    <3> SUFFICES ASSUME NEW r \in DOMAIN snapshots'
                 PROVE  /\ DOMAIN snapshots'[r].chunks \subseteq Nat \ {0}
                        /\ \A k \in DOMAIN snapshots'[r].chunks :
                              /\ snapshots'[r].chunks[k] \subseteq Change
                              /\ Cardinality(snapshots'[r].chunks[k]) <= CHUNK_SIZE
      BY DEF ChunksFit
    <3>1. CASE r = New
      BY <2>4, <2>5, <2>6, <3>1
    <3>2. CASE r \in DOMAIN snapshots
      BY <2>5, <3>2 DEF SnapInv, ChunksFit
    <3> QED
      BY <2>5, <3>1, <3>2
  <2>9. Covers(refs', snapshots')
    <3> SUFFICES ASSUME NEW r \in DOMAIN snapshots'
                 PROVE  /\ r \in DOMAIN refs'
                        /\ snapshots'[r].included = PastIn(refs', r)
                        /\ UNION Range(snapshots'[r].chunks) = ChangesIn(refs', PastIn(refs', r))
      BY DEF Covers
    <3>1. CASE r = New
      BY <1>9, <2>4, <2>5, <2>6, <3>1 DEF P, C
    <3>2. CASE r \in DOMAIN snapshots
      BY <1>9, <2>5, <3>2 DEF Covers
    <3> QED
      BY <2>5, <3>1, <3>2
  <2>10. \A r \in DOMAIN refs' \ DOMAIN snapshots' : Counts(refs', r)
    BY <1>9, <2>5 DEF SnapInv
  <2> QED
    BY <1>9, <2>7, <2>8, <2>9, <2>10 DEF SnapInv, Revs
<1> QED
  BY <1>12, <1>13

-----------------------------------------------------------------------------
(* What is read before the snapshots, and its number.                      *)

AreOpen(open, r) ==
    open = [q \in 1 .. r |->
               IF q \in DOMAIN snapshots THEN {}
               ELSE {q} \cup UNION {open[p] : p \in ToSet(refs[q].parents)}]

LEMMA OpenExists ==
    ASSUME SnapInv, NEW r \in Revs
    PROVE  \E open : AreOpen(open, r)
<1> DEFINE n == Len(refs)
           D == DOMAIN snapshots
           F == ParentsOf(refs)
           G == [m \in 1 .. n |-> F[m] \ D]
           h == [q \in 1 .. r |-> IF q \in D THEN {} ELSE Hist(G, q)]
<1>1. /\ n \in Nat /\ Revs = 1 .. n /\ Older(F, n)
      /\ \A q \in 1 .. n : F[q] = ToSet(refs[q].parents)
  BY RevsFacts, GrownFacts DEF SnapInv, Revs
<1>2. Older(G, n)
  BY <1>1 DEF Older
<1>3. \A q \in 1 .. r : q \in 1 .. n
  BY <1>1
<1>4. ASSUME NEW q \in 1 .. r
      PROVE  h[q] = IF q \in D THEN {}
                    ELSE {q} \cup UNION {h[p] : p \in ToSet(refs[q].parents)}
  <2>1. CASE q \in D
    BY <2>1
  <2>2. CASE q \notin D
    <3>1. h[q] = {q} \cup UNION {Hist(G, p) : p \in G[q]}
      BY <1>1, <1>2, <1>3, <2>2, HistEquation
    <3>2. \A p \in F[q] : p \in 1 .. r
      BY <1>1, <1>3 DEF Older
    <3>3. \A p \in F[q] : h[p] = IF p \in D THEN {} ELSE Hist(G, p)
      BY <3>2
    <3>4. G[q] = F[q] \ D
      BY <1>3
    <3>5. UNION {h[p] : p \in F[q]} = UNION {Hist(G, p) : p \in G[q]}
      <4> HIDE DEF h, G, F, D
      <4>1. UNION {h[p] : p \in F[q]} \subseteq UNION {Hist(G, p) : p \in G[q]}
        BY <3>3, <3>4
      <4>2. UNION {Hist(G, p) : p \in G[q]} \subseteq UNION {h[p] : p \in F[q]}
        BY <3>3, <3>4
      <4> QED
        BY <4>1, <4>2
    <3>6. F[q] = ToSet(refs[q].parents)
      BY <1>1, <1>3
    <3> HIDE DEF h, F
    <3> QED
      BY <2>2, <3>1, <3>5, <3>6
  <2> QED
    BY <2>1, <2>2
<1>5. h = [q \in 1 .. r |->
             IF q \in D THEN {} ELSE {q} \cup UNION {h[p] : p \in ToSet(refs[q].parents)}]
  <2>1. h = [q \in 1 .. r |-> h[q]]
    OBVIOUS
  <2> HIDE DEF h
  <2> QED
    BY <1>4, <2>1
<1> HIDE DEF h
<1> QED
  BY <1>5 DEF AreOpen

LEMMA SmallOpen ==
    ASSUME SnapInv, NEW r \in Revs, NEW open, AreOpen(open, r)
    PROVE  \A q \in 1 .. r : IsFiniteSet(open[q]) /\ Cardinality(open[q]) <= refs[q].since
<1> DEFINE fits(q) == IsFiniteSet(open[q]) /\ Cardinality(open[q]) <= refs[q].since
           Wrong == {q \in 1 .. r : ~fits(q)}
<1>1. \A q \in 1 .. r : /\ q \in Revs /\ q \in Nat /\ refs[q].since \in Nat
                        /\ \A p \in 1 .. q - 1 : p \in 1 .. r /\ p < q
  BY RevsFacts
<1>2. \A q \in 1 .. r :
         open[q] = IF q \in DOMAIN snapshots THEN {}
                   ELSE {q} \cup UNION {open[p] : p \in ToSet(refs[q].parents)}
  BY DEF AreOpen
<1>3. ASSUME NEW q \in 1 .. r, \A p \in 1 .. q - 1 : fits(p)
      PROVE  fits(q)
  <2>1. CASE q \in DOMAIN snapshots
    <3>1. open[q] = {}
      BY <1>2, <2>1
    <3> QED
      BY <1>1, <3>1, FS_EmptySet
  <2>2. CASE q \notin DOMAIN snapshots
    <3>1. open[q] = {q} \cup UNION {open[p] : p \in ToSet(refs[q].parents)}
      BY <1>2, <2>2
    <3>2. \A p \in 1 .. q - 1 : /\ IsFiniteSet(open[p]) /\ Cardinality(open[p]) \in Nat
                                /\ Cardinality(open[p]) <= refs[p].since
                                /\ refs[p].since \in Nat
      BY <1>1, <1>3, FS_CardinalityType
    <3>3. Counts(refs, q)
      BY <1>1, <2>2 DEF SnapInv
    <3>4. IsFiniteSet({q}) /\ Cardinality({q}) = 1
      BY FS_Singleton
    <3>5. CASE refs[q].parents = <<>> /\ refs[q].since = 1
      <4>1. ToSet(<<>>) = {}
        BY DEF ToSet
      <4>2. open[q] = {q}
        BY <3>1, <3>5, <4>1
      <4> QED
        BY <3>4, <3>5, <4>2
    <3>6. CASE \E p \in 1 .. q - 1 :
                  refs[q].parents = <<p>> /\ refs[q].since = refs[p].since + 1
      <4>1. PICK p \in 1 .. q - 1 : refs[q].parents = <<p>> /\ refs[q].since = refs[p].since + 1
        BY <3>6
      <4>2. ToSet(<<p>>) = {p}
        BY DEF ToSet
      <4>3. open[q] = open[p] \cup {q}
        BY <3>1, <4>1, <4>2
      <4>4. IsFiniteSet(open[q]) /\ Cardinality(open[q]) <= Cardinality(open[p]) + 1
        <5>1. /\ IsFiniteSet(open[q])
              /\ Cardinality(open[q])
                    = IF q \in open[p] THEN Cardinality(open[p]) ELSE Cardinality(open[p]) + 1
          <6> DEFINE o == open[p]
          <6>1. IsFiniteSet(o) /\ open[q] = o \cup {q}
            BY <3>2, <4>3
          <6> HIDE DEF o
          <6>2. /\ IsFiniteSet(o \cup {q})
                /\ Cardinality(o \cup {q})
                      = IF q \in o THEN Cardinality(o) ELSE Cardinality(o) + 1
            BY <6>1, FS_AddElement
          <6> QED
            BY <6>1, <6>2 DEF o
        <5>2. Cardinality(open[p]) \in Nat
          BY <3>2
        <5> QED
          BY <5>1, <5>2
      <4>5. Cardinality(open[q]) \in Nat
        BY <4>4, FS_CardinalityType
      <4> QED
        BY <3>2, <4>1, <4>4, <4>5
    <3>7. CASE \E p1, p2 \in 1 .. q - 1 :
                  /\ refs[q].parents = <<p1, p2>>
                  /\ refs[q].since = refs[p1].since + refs[p2].since + 1
      <4>1. PICK p1 \in 1 .. q - 1, p2 \in 1 .. q - 1 :
                  /\ refs[q].parents = <<p1, p2>>
                  /\ refs[q].since = refs[p1].since + refs[p2].since + 1
        BY <3>7
      <4>2. ToSet(<<p1, p2>>) = {p1, p2}
        BY DEF ToSet
      <4> DEFINE both == open[p1] \cup open[p2]
      <4>3. open[q] = both \cup {q}
        BY <3>1, <4>1, <4>2
      <4>4. /\ IsFiniteSet(both) /\ Cardinality(both) \in Nat
            /\ Cardinality(both) <= Cardinality(open[p1]) + Cardinality(open[p2])
        <5>1. /\ IsFiniteSet(both)
              /\ Cardinality(both) = Cardinality(open[p1]) + Cardinality(open[p2])
                                        - Cardinality(open[p1] \cap open[p2])
          BY <3>2, FS_Union
        <5>2. Cardinality(open[p1] \cap open[p2]) \in Nat /\ Cardinality(both) \in Nat
          BY <3>2, <5>1, FS_Intersection, FS_CardinalityType
        <5> QED
          BY <3>2, <5>1, <5>2
      <4> HIDE DEF both
      <4>5. IsFiniteSet(open[q]) /\ Cardinality(open[q]) <= Cardinality(both) + 1
        BY <4>3, <4>4, FS_AddElement
      <4>6. Cardinality(open[q]) \in Nat
        BY <4>5, FS_CardinalityType
      <4> QED
        BY <3>2, <4>1, <4>4, <4>5, <4>6
    <3> QED
      BY <3>3, <3>5, <3>6, <3>7 DEF Counts
  <2> QED
    BY <2>1, <2>2
<1> HIDE DEF fits
<1>4. Wrong = {}
  <2> SUFFICES ASSUME Wrong # {} PROVE FALSE
    OBVIOUS
  <2>1. Wrong \in SUBSET Nat
    OBVIOUS
  <2>2. PICK q \in Wrong : \A m \in Wrong : q <= m
    <3> HIDE DEF Wrong
    <3> QED
      BY <2>1, LeastNatural
  <2>3. \A p \in 1 .. q - 1 : p \in 1 .. r /\ p \notin Wrong
    <3> SUFFICES ASSUME NEW p \in 1 .. q - 1 PROVE p \in 1 .. r /\ p \notin Wrong
      OBVIOUS
    <3>1. q \in 1 .. r
      OBVIOUS
    <3>2. p \in 1 .. r /\ p < q /\ q \in Nat /\ p \in Nat
      BY <1>1, <3>1
    <3> HIDE DEF Wrong
    <3> QED
      BY <2>2, <3>2
  <2> QED
    BY <1>3, <2>3
<1> QED
  BY <1>4 DEF fits

LEMMA ReadIsBounded ==
    ASSUME SnapInv, NEW r \in Revs
    PROVE  Cardinality(ReadBeforeSnapshots(r)) <= refs[r].since
<1> DEFINE open == CHOOSE open : AreOpen(open, r)
<1>1. AreOpen(open, r)
  BY OpenExists
<1>2. ReadBeforeSnapshots(r) = open[r]
  BY DEF ReadBeforeSnapshots, AreOpen
<1>3. r \in 1 .. r
  BY RevsFacts
<1> HIDE DEF open
<1> QED
  BY <1>1, <1>2, <1>3, SmallOpen

-----------------------------------------------------------------------------
(* collect_only_from_latest(): what has been collected, whole or by way of *)
(* a snapshot, and what it changes.                                        *)

Had(c) == {x \in Revs : <<x, 0>> \in c.entries} \cup c.included

Got(c) == UNION {ChangesAt(key) : key \in c.entries}

Reached(c) == Had(c) \cup ToSet(c.branches)

GoodCollections(latest, wt) ==
    {c \in Collections :
        /\ latest \in Reached(c)
        /\ Reached(c) \subseteq Hist(ParentsOf(refs), latest)
        /\ \A x \in Had(c) : ParentsOf(refs)[x] \subseteq Reached(c)
        /\ ChangesIn(refs, Had(c)) \subseteq Got(c)
        /\ Got(c) \subseteq ChangesIn(refs, Hist(ParentsOf(refs), latest))
        /\ Fuel(wt, c.branches) # {}}

LEMMA FirstBranchFacts ==
    ASSUME SnapInv, NEW c \in Collections, c.branches # <<>>
    PROVE  LET r == Head(c.branches)
           IN  /\ r \in Revs /\ r = c.branches[1]
               /\ Tail(c.branches) \in Seq(Revs)
               /\ ToSet(c.branches) = {r} \cup ToSet(Tail(c.branches))
               /\ c.branches \in Seq(Revs)
<1> DEFINE b == c.branches
<1>1. b \in Seq(Revs) /\ b # <<>>
  BY DEF Collections
<1> HIDE DEF b
<1>2. /\ Head(b) \in Revs /\ Head(b) = b[1] /\ Tail(b) \in Seq(Revs)
      /\ ToSet(b) = {Head(b)} \cup ToSet(Tail(b))
  BY <1>1, SetFacts
<1> QED
  BY <1>1, <1>2 DEF b

LEMMA CollectedStep ==
    ASSUME SnapInv, NEW latest \in Revs, NEW wt,
           NEW c \in GoodCollections(latest, wt), c.branches # <<>>,
           NEW v \in Collections, NEW more, NEW cs,
           Had(v) = Had(c) \cup more, Head(c.branches) \in more,
           Got(v) = Got(c) \cup cs,
           ChangesIn(refs, more) \subseteq Got(c) \cup cs,
           cs \subseteq ChangesIn(refs, Hist(ParentsOf(refs), latest)),
           more \subseteq Hist(ParentsOf(refs), latest),
           ToSet(Tail(c.branches)) \subseteq ToSet(v.branches),
           ToSet(v.branches) \subseteq Hist(ParentsOf(refs), latest),
           \A x \in more : ParentsOf(refs)[x] \subseteq Reached(c) \cup Reached(v),
           Fuel(wt, v.branches) # {}
    PROVE  v \in GoodCollections(latest, wt)
<1>1. /\ c \in Collections
      /\ latest \in Reached(c) /\ Reached(c) \subseteq Hist(ParentsOf(refs), latest)
      /\ \A x \in Had(c) : ParentsOf(refs)[x] \subseteq Reached(c)
      /\ ChangesIn(refs, Had(c)) \subseteq Got(c)
      /\ Got(c) \subseteq ChangesIn(refs, Hist(ParentsOf(refs), latest))
  BY DEF GoodCollections
<1>2. ToSet(c.branches) = {Head(c.branches)} \cup ToSet(Tail(c.branches))
  BY <1>1, FirstBranchFacts
<1>3. Reached(c) \subseteq Reached(v)
  BY <1>2 DEF Reached
<1>4. Reached(v) \subseteq Hist(ParentsOf(refs), latest)
  BY <1>1 DEF Reached
<1>5. ChangesIn(refs, Had(v)) \subseteq Got(v)
  BY <1>1 DEF ChangesIn
<1>6. \A x \in Had(v) : ParentsOf(refs)[x] \subseteq Reached(v)
  BY <1>1, <1>3
<1>7. Got(v) \subseteq ChangesIn(refs, Hist(ParentsOf(refs), latest))
  BY <1>1
<1> QED
  BY <1>1, <1>3, <1>4, <1>5, <1>6, <1>7 DEF GoodCollections

(* What the first branch has when a step takes it.                         *)
LEMMA HeadFacts ==
    ASSUME SnapInv, NEW latest \in Revs, NEW wt,
           NEW c \in GoodCollections(latest, wt), c.branches # <<>>
    PROVE  LET r == Head(c.branches)
               H == Hist(ParentsOf(refs), latest)
           IN  /\ c \in Collections /\ r \in H /\ r \in Revs
               /\ ToSet(Tail(c.branches)) \subseteq H
               /\ ParentsOf(refs)[r] \subseteq H
               /\ Hist(ParentsOf(refs), r) \subseteq H
               /\ ChangesIn(refs, {r}) = refs[r].changes
               /\ refs[r].changes \subseteq ChangesIn(refs, H)
               /\ ChangesIn(refs, Hist(ParentsOf(refs), r)) \subseteq ChangesIn(refs, H)
<1> DEFINE r == Head(c.branches)
           H == Hist(ParentsOf(refs), latest)
<1>1. c \in Collections /\ Reached(c) \subseteq H
  BY DEF GoodCollections
<1>2. r \in Revs /\ ToSet(c.branches) = {r} \cup ToSet(Tail(c.branches))
  BY <1>1, FirstBranchFacts
<1>3. r \in H /\ ToSet(Tail(c.branches)) \subseteq H
  BY <1>1, <1>2 DEF Reached
<1>4. Len(refs) \in Nat /\ Revs = 1 .. Len(refs) /\ Older(ParentsOf(refs), Len(refs))
  BY GrownFacts DEF SnapInv, Revs
<1> HIDE DEF r
<1>5. ParentsOf(refs)[r] \subseteq H
  BY <1>3, <1>4, HistFacts
<1>6. Hist(ParentsOf(refs), r) \subseteq H
  BY <1>3, <1>4, HistTransitive
<1> HIDE DEF H
<1>7. ChangesIn(refs, {r}) = refs[r].changes /\ refs[r].changes \subseteq ChangesIn(refs, H)
      /\ ChangesIn(refs, Hist(ParentsOf(refs), r)) \subseteq ChangesIn(refs, H)
  BY <1>3, <1>6 DEF ChangesIn
<1> QED
  BY <1>1, <1>2, <1>3, <1>5, <1>6, <1>7 DEF r, H

LEMMA GoodClose ==
    ASSUME SnapInv, NEW latest \in Revs, NEW wt, Weights(wt, Len(refs)),
           NEW c \in GoodCollections(latest, wt), c.branches # <<>>,
           <<Head(c.branches), 0>> \in c.entries
    PROVE  /\ CloseBranch(c) \in GoodCollections(latest, wt)
           /\ \A n \in Fuel(wt, c.branches) :
                 \E m \in Fuel(wt, CloseBranch(c).branches) : m < n
<1> DEFINE v == CloseBranch(c)
           r == Head(c.branches)
           b == c.branches
           H == Hist(ParentsOf(refs), latest)
<1>1. /\ c \in Collections /\ r \in H /\ r \in Revs
      /\ ToSet(Tail(b)) \subseteq H /\ ParentsOf(refs)[r] \subseteq H
  BY HeadFacts
<1>2. Tail(b) \in Seq(Revs) /\ b \in Seq(Revs)
  BY <1>1, FirstBranchFacts
<1>3. v.branches = Tail(b) /\ v.entries = c.entries /\ v.included = c.included
      /\ v \in Collections
  BY <1>1, <1>2 DEF CloseBranch, Collections
<1>4. Had(v) = Had(c) \cup {r} /\ r \in Had(c) /\ Got(v) = Got(c) \cup {}
  BY <1>1, <1>3 DEF Had, Got
<1>5. /\ \A x \in Had(c) : ParentsOf(refs)[x] \subseteq Reached(c)
      /\ ChangesIn(refs, Had(c)) \subseteq Got(c) /\ Fuel(wt, b) # {}
  BY DEF GoodCollections
<1>6. ChangesIn(refs, {r}) \subseteq Got(c) \cup {}
  BY <1>4, <1>5 DEF ChangesIn
<1>7. \A n \in Fuel(wt, b) : \E m \in Fuel(wt, Tail(b)) : m < n
  <2>1. Len(refs) \in Nat /\ b \in Seq(1 .. Len(refs)) /\ b # <<>>
    BY <1>2, RevsFacts
  <2> HIDE DEF b
  <2> QED
    BY <2>1, FuelTail
<1>8. Fuel(wt, v.branches) # {}
  BY <1>3, <1>5, <1>7
<1>9. \A x \in {r} : ParentsOf(refs)[x] \subseteq Reached(c) \cup Reached(v)
  BY <1>4, <1>5
<1> HIDE DEF v
<1>10. v \in GoodCollections(latest, wt)
  <2>1. {r} \subseteq H /\ r \in {r} /\ {} \subseteq ChangesIn(refs, H)
        /\ ToSet(Tail(b)) \subseteq ToSet(v.branches) /\ ToSet(v.branches) \subseteq H
    BY <1>1, <1>3
  <2> DEFINE more == {r}
             cs == {}
  <2>2. /\ Had(v) = Had(c) \cup more /\ Got(v) = Got(c) \cup cs
        /\ ChangesIn(refs, more) \subseteq Got(c) \cup cs
        /\ \A x \in more : ParentsOf(refs)[x] \subseteq Reached(c) \cup Reached(v)
        /\ more \subseteq H /\ r \in more /\ cs \subseteq ChangesIn(refs, H)
    BY <1>4, <1>6, <1>9, <2>1
  <2> HIDE DEF more, cs
  <2> QED
    BY <1>3, <1>8, <2>1, <2>2, CollectedStep, ZenonT(40)
<1> QED
  BY <1>3, <1>7, <1>10 DEF v

LEMMA GoodSnapshot ==
    ASSUME SnapInv, NEW latest \in Revs, NEW wt, Weights(wt, Len(refs)),
           NEW c \in GoodCollections(latest, wt), c.branches # <<>>,
           Head(c.branches) \in DOMAIN snapshots
    PROVE  LET v == FromSnapshot(c, Head(c.branches))
           IN  /\ v \in GoodCollections(latest, wt)
               /\ \A n \in Fuel(wt, c.branches) : \E m \in Fuel(wt, v.branches) : m < n
<1> DEFINE r == Head(c.branches)
           v == FromSnapshot(c, r)
           b == c.branches
           H == Hist(ParentsOf(refs), latest)
           P == Hist(ParentsOf(refs), r)
           ks == Chunks(r) \cup {<<r, 0>>}
<1>1. /\ c \in Collections /\ r \in H /\ r \in Revs
      /\ ToSet(Tail(b)) \subseteq H /\ P \subseteq H
      /\ ChangesIn(refs, {r}) = refs[r].changes
      /\ refs[r].changes \subseteq ChangesIn(refs, H)
      /\ ChangesIn(refs, P) \subseteq ChangesIn(refs, H)
  BY HeadFacts
<1>2. Tail(b) \in Seq(Revs) /\ b \in Seq(Revs)
  BY <1>1, FirstBranchFacts
<1>3. /\ Len(refs) \in Nat /\ Revs = 1 .. Len(refs) /\ Older(ParentsOf(refs), Len(refs))
      /\ PastIn(refs, r) = P
  BY <1>1, GrownFacts DEF SnapInv, Revs
<1>4. r \in P /\ P \subseteq 1 .. r /\ \A x \in P : ParentsOf(refs)[x] \subseteq P
  <2> HIDE DEF r
  <2> QED
    BY <1>1, <1>3, HistFacts
<1>5. P \subseteq Revs
  BY <1>1, <1>3, <1>4
<1>6. /\ snapshots[r].included = P
      /\ UNION Range(snapshots[r].chunks) = ChangesIn(refs, P)
      /\ DOMAIN snapshots[r].chunks \subseteq Nat \ {0}
  BY <1>3 DEF SnapInv, Covers, ChunksFit
<1>7. ks \subseteq Keys /\ c.entries \subseteq Keys /\ c.included \subseteq Revs
  BY <1>1 DEF Keys, Collections
<1>8. /\ v.branches = Tail(b) /\ v.entries = c.entries \cup ks /\ v.included = c.included \cup P
      /\ v \in Collections
  <2>1. /\ v = [branches |-> Tail(b), entries |-> c.entries \cup ks,
                included |-> c.included \cup P]
    BY <1>6 DEF FromSnapshot
  <2> HIDE DEF ks, P, b
  <2> QED
    BY <1>2, <1>5, <1>7, <2>1 DEF Collections
<1>9. \A x : <<x, 0>> \in ks <=> x = r
  BY <1>6 DEF Chunks
<1>10. UNION {ChangesAt(key) : key \in ks} = ChangesIn(refs, P)
  <2>1. ChangesAt(<<r, 0>>) = refs[r].changes
    BY DEF ChangesAt
  <2>2. \A k \in DOMAIN snapshots[r].chunks : ChangesAt(<<r, k>>) = snapshots[r].chunks[k]
    BY <1>6 DEF ChangesAt
  <2>3. UNION {ChangesAt(key) : key \in Chunks(r)} = UNION Range(snapshots[r].chunks)
    <3>1. \A key \in Chunks(r) : \E k \in DOMAIN snapshots[r].chunks :
             ChangesAt(key) = snapshots[r].chunks[k]
      BY <2>2 DEF Chunks
    <3>2. \A k \in DOMAIN snapshots[r].chunks : \E key \in Chunks(r) :
             ChangesAt(key) = snapshots[r].chunks[k]
      BY <2>2 DEF Chunks
    <3> QED
      BY <3>1, <3>2 DEF Range
  <2>4. refs[r].changes \subseteq ChangesIn(refs, P)
    BY <1>4 DEF ChangesIn
  <2>5. UNION {ChangesAt(key) : key \in ks}
           = (UNION {ChangesAt(key) : key \in Chunks(r)}) \cup ChangesAt(<<r, 0>>)
    <3> HIDE DEF r
    <3> QED
      OBVIOUS
  <2> QED
    BY <1>6, <2>1, <2>3, <2>4, <2>5
<1> HIDE DEF v, ks, P, H
<1>11. Had(v) = Had(c) \cup P
  BY <1>1, <1>4, <1>8, <1>9 DEF Had
<1>12. Got(v) = Got(c) \cup ChangesIn(refs, P)
  BY <1>8, <1>10 DEF Got
<1>13. \A n \in Fuel(wt, b) : \E m \in Fuel(wt, Tail(b)) : m < n
  <2>1. b \in Seq(1 .. Len(refs)) /\ b # <<>>
    BY <1>2, <1>3
  <2> HIDE DEF b
  <2> QED
    BY <1>3, <2>1, FuelTail
<1>14. Fuel(wt, v.branches) # {}
  BY <1>8, <1>13 DEF GoodCollections
<1>15. \A x \in P : ParentsOf(refs)[x] \subseteq Reached(c) \cup Reached(v)
  BY <1>4, <1>11 DEF Reached
<1>16. ChangesIn(refs, P) \subseteq Got(c) \cup ChangesIn(refs, P)
  OBVIOUS
<1>17. v \in GoodCollections(latest, wt)
  BY <1>1, <1>4, <1>8, <1>11, <1>12, <1>14, <1>15, <1>16, CollectedStep, ZenonT(40) DEF H
<1> QED
  BY <1>8, <1>13, <1>17 DEF v

LEMMA GoodParents ==
    ASSUME SnapInv, NEW latest \in Revs, NEW wt, Weights(wt, Len(refs)),
           NEW c \in GoodCollections(latest, wt), c.branches # <<>>
    PROVE  LET v == ToParents(c, Head(c.branches))
           IN  /\ v \in GoodCollections(latest, wt)
               /\ \A n \in Fuel(wt, c.branches) : \E m \in Fuel(wt, v.branches) : m < n
<1> DEFINE r == Head(c.branches)
           v == ToParents(c, r)
           b == c.branches
           H == Hist(ParentsOf(refs), latest)
           ps == refs[r].parents
           more == {r}
           cs == refs[r].changes
           to == IF ps = <<>> THEN Tail(b) ELSE <<Head(ps)>> \o Tail(b) \o Tail(ps)
<1>1. /\ c \in Collections /\ r \in H /\ r \in Revs
      /\ ToSet(Tail(b)) \subseteq H /\ ParentsOf(refs)[r] \subseteq H
      /\ ChangesIn(refs, {r}) = cs
      /\ cs \subseteq ChangesIn(refs, H)
  BY HeadFacts
<1>2. Tail(b) \in Seq(Revs) /\ b \in Seq(Revs) /\ r = b[1]
  BY <1>1, FirstBranchFacts
<1>3. /\ Len(refs) \in Nat /\ Revs = 1 .. Len(refs)
      /\ ParentsOf(refs)[r] = ToSet(ps)
      /\ ps \in Seq(Revs) /\ ps \in Seq(1 .. r - 1) /\ Len(ps) \in 0 .. 2
  BY <1>1, GrownFacts DEF SnapInv, Revs
<1>4. /\ to \in Seq(Revs)
      /\ ToSet(to) = ToSet(Tail(b)) \cup ToSet(ps)
      /\ \A n \in Fuel(wt, b) : \E m \in Fuel(wt, to) : m < n
  <2>1. b \in Seq(1 .. Len(refs)) /\ b # <<>>
    BY <1>2, <1>3
  <2>2. CASE ps = <<>>
    <3>1. ToSet(<<>>) = {}
      BY DEF ToSet
    <3>2. \A n \in Fuel(wt, b) : \E m \in Fuel(wt, Tail(b)) : m < n
      <4> HIDE DEF b
      <4> QED
        BY <1>3, <2>1, FuelTail
    <3> QED
      BY <1>2, <2>2, <3>1, <3>2
  <2>3. CASE ps # <<>>
    <3> DEFINE a == <<Head(ps)>>
               t == Tail(ps)
               u == Tail(b)
    <3>1. Head(ps) \in Revs /\ t \in Seq(Revs) /\ ToSet(ps) = {Head(ps)} \cup ToSet(t)
      <4> HIDE DEF ps
      <4> QED
        BY <1>3, <2>3, SetFacts
    <3>2. a \in Seq(Revs) /\ ToSet(a) = {Head(ps)} /\ u \in Seq(Revs) /\ to = (a \o u) \o t
      <4>1. to = (a \o u) \o t
        BY <2>3
      <4> DEFINE h == Head(ps)
      <4>2. h \in Revs /\ u \in Seq(Revs)
        BY <1>2, <3>1
      <4> HIDE DEF h, u
      <4>3. <<h>> \in Seq(Revs) /\ ToSet(<<h>>) = {h}
        BY <4>2 DEF ToSet
      <4> QED
        BY <4>1, <4>2, <4>3 DEF h
    <3>3. \A n \in Fuel(wt, b) : \E m \in Fuel(wt, to) : m < n
      <4>1. to = <<Head(ps)>> \o Tail(b) \o Tail(ps)
        BY <2>3
      <4>2. Len(ps) \in 1 .. 2 /\ \A k \in 1 .. Len(ps) : ps[k] < b[1]
        <5> DEFINE l == Len(ps)
        <5>1. l \in 0 .. 2 /\ l # 0
          BY <1>3, <2>3, ShortSequences
        <5>2. \A k \in 1 .. l : ps[k] \in 1 .. r - 1
          <6> HIDE DEF r, ps
          <6> QED
            BY <1>3, ElementOfSeq DEF l
        <5>3. r \in Nat
          BY <1>1, <1>3
        <5> HIDE DEF r, l
        <5>4. \A k \in 1 .. l : ps[k] < r
          BY <5>2, <5>3
        <5>5. l \in 1 .. 2
          BY <5>1
        <5> QED
          BY <1>2, <5>4, <5>5 DEF l
      <4>3. ps \in Seq(1 .. Len(refs))
        BY <1>3
      <4> HIDE DEF to, ps, b
      <4> QED
        BY <1>3, <2>1, <4>1, <4>2, <4>3, FuelParents
    <3> HIDE DEF a, t, u, to
    <3>4. a \o u \in Seq(Revs) /\ ToSet(a \o u) = ToSet(a) \cup ToSet(u)
      BY <3>2, ConcatSet, ConcatProperties
    <3> DEFINE au == a \o u
    <3>5. au \in Seq(Revs) /\ to = au \o t
      BY <3>2, <3>4
    <3> HIDE DEF au
    <3>6. to \in Seq(Revs) /\ ToSet(to) = ToSet(au) \cup ToSet(t)
      BY <3>1, <3>5, ConcatSet, ConcatProperties
    <3> QED
      BY <3>1, <3>2, <3>3, <3>4, <3>6 DEF au, u
  <2> QED
    BY <2>2, <2>3
<1> HIDE DEF to
<1>5. /\ v.branches = to /\ v.entries = c.entries \cup {<<r, 0>>} /\ v.included = c.included
      /\ v \in Collections
  <2>1. v = [c EXCEPT !.entries = @ \cup {<<r, 0>>}, !.branches = to]
    BY DEF ToParents, to
  <2>2. c.entries \subseteq Keys /\ c.included \subseteq Revs
    BY <1>1 DEF Collections
  <2>3. <<r, 0>> \in Keys
    BY <1>1 DEF Keys
  <2> HIDE DEF r, v
  <2> QED
    BY <1>1, <1>4, <2>1, <2>2, <2>3 DEF Collections
<1> HIDE DEF v, H
<1>6. Had(v) = Had(c) \cup more /\ r \in more
  BY <1>1, <1>5 DEF Had
<1>7. Got(v) = Got(c) \cup cs
  <2>1. ChangesAt(<<r, 0>>) = cs
    BY DEF ChangesAt
  <2> HIDE DEF r, cs
  <2> QED
    BY <1>5, <2>1 DEF Got
<1>8. Fuel(wt, v.branches) # {}
  BY <1>4, <1>5 DEF GoodCollections
<1>9. /\ ChangesIn(refs, more) \subseteq Got(c) \cup cs /\ more \subseteq H
      /\ \A x \in more : ParentsOf(refs)[x] \subseteq Reached(c) \cup Reached(v)
      /\ ToSet(Tail(b)) \subseteq ToSet(v.branches) /\ ToSet(v.branches) \subseteq H
  BY <1>1, <1>3, <1>4, <1>5 DEF Reached
<1> HIDE DEF more, cs
<1>10. v \in GoodCollections(latest, wt)
  BY <1>1, <1>5, <1>6, <1>7, <1>8, <1>9, CollectedStep, ZenonT(40) DEF H
<1> QED
  BY <1>4, <1>5, <1>10 DEF v

IsCollect(f, found) ==
    f = [c \in Collections |->
            IF c.branches = <<>> THEN c.entries
            ELSE LET r == Head(c.branches)
                 IN  f[IF <<r, 0>> \in c.entries /\ r \notin c.included
                       THEN CloseBranch(c)
                       ELSE IF r \in found THEN FromSnapshot(c, r)
                       ELSE ToParents(c, r)]]

Collects(c, found) ==
    LET r == Head(c.branches)
    IN  IF <<r, 0>> \in c.entries /\ r \notin c.included THEN CloseBranch(c)
        ELSE IF r \in found THEN FromSnapshot(c, r)
        ELSE ToParents(c, r)

(* Steps stay among the collections, whatever they start from.             *)
LEMMA CollectsTyped ==
    ASSUME SnapInv, NEW found \in SUBSET DOMAIN snapshots,
           NEW c \in Collections, c.branches # <<>>
    PROVE  Collects(c, found) \in Collections
<1> DEFINE r == Head(c.branches)
           b == c.branches
           ps == refs[r].parents
           to == IF ps = <<>> THEN Tail(b) ELSE <<Head(ps)>> \o Tail(b) \o Tail(ps)
<1>1. r \in Revs /\ Tail(b) \in Seq(Revs)
  BY FirstBranchFacts
<1>2. c.entries \subseteq Keys /\ c.included \subseteq Revs /\ <<r, 0>> \in Keys
  BY <1>1 DEF Collections, Keys
<1>3. ps \in Seq(Revs)
  BY <1>1, GrownFacts DEF SnapInv, Revs
<1>4. CloseBranch(c) \in Collections
  <2>1. CloseBranch(c) = [c EXCEPT !.branches = Tail(b)]
    BY DEF CloseBranch
  <2> HIDE DEF b
  <2> QED
    BY <1>1, <2>1 DEF Collections
<1>5. ASSUME r \in found PROVE FromSnapshot(c, r) \in Collections
  <2>1. snapshots[r].included \subseteq Revs
    BY <1>1, <1>5, PastInFacts DEF SnapInv, Covers, Revs
  <2>2. Chunks(r) \cup {<<r, 0>>} \subseteq Keys
    BY <1>2, <1>5 DEF Keys
  <2> HIDE DEF r, b
  <2>3. FromSnapshot(c, r) = [branches |-> Tail(b),
                              entries  |-> c.entries \cup Chunks(r) \cup {<<r, 0>>},
                              included |-> c.included \cup snapshots[r].included]
    BY DEF FromSnapshot, b
  <2> QED
    BY <1>1, <1>2, <2>1, <2>2, <2>3 DEF Collections
<1>6. ToParents(c, r) \in Collections
  <2>1. to \in Seq(Revs)
    <3>1. CASE ps = <<>>
      BY <1>1, <3>1
    <3>2. CASE ps # <<>>
      <4> DEFINE a == <<Head(ps)>>
                 t == Tail(ps)
                 u == Tail(b)
      <4>1. Head(ps) \in Revs /\ t \in Seq(Revs)
        <5> HIDE DEF ps
        <5> QED
          BY <1>3, <3>2, SetFacts
      <4>2. a \in Seq(Revs) /\ u \in Seq(Revs) /\ to = (a \o u) \o t
        <5>1. to = (a \o u) \o t
          BY <3>2
        <5> DEFINE h == Head(ps)
        <5>2. h \in Revs /\ u \in Seq(Revs)
          BY <1>1, <4>1
        <5> HIDE DEF h, u
        <5>3. <<h>> \in Seq(Revs)
          BY <5>2
        <5> QED
          BY <5>1, <5>2, <5>3 DEF h
      <4> HIDE DEF a, t, u, to
      <4>3. a \o u \in Seq(Revs)
        BY <4>2, ConcatProperties
      <4> DEFINE au == a \o u
      <4>4. au \in Seq(Revs) /\ to = au \o t
        BY <4>2, <4>3
      <4> HIDE DEF au
      <4> QED
        BY <4>1, <4>4, ConcatProperties
    <3> QED
      BY <3>1, <3>2
  <2>2. ToParents(c, r) = [c EXCEPT !.entries = @ \cup {<<r, 0>>}, !.branches = to]
    BY DEF ToParents
  <2> HIDE DEF r, to
  <2> QED
    BY <1>2, <2>1, <2>2 DEF Collections
<1> HIDE DEF r
<1> QED
  BY <1>4, <1>5, <1>6 DEF Collects, r

(* Collecting from a revision gets the changes of its history and no       *)
(* others, whichever snapshots it comes by.                                *)
LEMMA CollectedChanges ==
    ASSUME SnapInv, NEW latest \in Revs, NEW found \in SUBSET DOMAIN snapshots
    PROVE  SquashedDiff(latest, found) = ChangesIn(refs, PastIn(refs, latest))
<1> DEFINE N == Len(refs)
           S == Collections
           done == {c \in S : c.branches = <<>>}
           step == [c \in S |-> Collects(c, found)]
           result == [c \in S |-> c.entries]
           start == [branches |-> <<latest>>, entries |-> {}, included |-> {}]
<1>1. /\ N \in Nat /\ Revs = 1 .. N /\ Older(ParentsOf(refs), N)
      /\ PastIn(refs, latest) = Hist(ParentsOf(refs), latest)
  BY GrownFacts DEF SnapInv, Revs
<1>2. PICK wt : Weights(wt, N)
  BY <1>1, WeightsExist
<1>3. \A f : IsCollect(f, found) <=> IsLoop(f, S, done, step, result)
  <2> SUFFICES ASSUME NEW f
               PROVE  IsCollect(f, found) <=> IsLoop(f, S, done, step, result)
    OBVIOUS
  <2> DEFINE body(c) == IF c.branches = <<>> THEN c.entries
                        ELSE LET r == Head(c.branches)
                             IN  f[IF <<r, 0>> \in c.entries /\ r \notin c.included
                                   THEN CloseBranch(c)
                                   ELSE IF r \in found THEN FromSnapshot(c, r)
                                   ELSE ToParents(c, r)]
             loop(c) == IF c \in done THEN result[c] ELSE f[step[c]]
  <2>1. \A c \in S : body(c) = loop(c)
    BY DEF Collects
  <2>2. [c \in S |-> body(c)] = [c \in S |-> loop(c)]
    <3> HIDE DEF S, body, loop
    <3> QED
      BY <2>1
  <2> QED
    BY <2>2 DEF IsCollect, IsLoop
<1>4. \A c \in S \ done : c.branches # <<>> /\ step[c] = Collects(c, found)
  OBVIOUS
<1>5. \A c \in S \ done : step[c] \in S
  BY <1>4, CollectsTyped
<1>6. \E f : IsCollect(f, found)
  <2> HIDE DEF S, done, step, result
  <2> QED
    BY <1>3, <1>5, LoopDefined
<1> DEFINE f == CHOOSE f : IsCollect(f, found)
<1>7. IsLoop(f, S, done, step, result)
  BY <1>3, <1>6
<1>8. Collected(latest, found) = f[start]
  BY DEF Collected, IsCollect
<1> DEFINE Good == GoodCollections(latest, wt)
           fuel == [c \in S |-> Fuel(wt, c.branches)]
<1>9. Good \in SUBSET S
  BY DEF GoodCollections
<1>10. start \in Good
  <2>1. start \in Collections
    BY DEF Collections
  <2>2. start.branches = <<latest>> /\ start.entries = {} /\ start.included = {}
    OBVIOUS
  <2>3. ToSet(<<latest>>) = {latest}
    BY DEF ToSet
  <2>4. latest \in Hist(ParentsOf(refs), latest)
    BY <1>1, HistFacts
  <2>5. Fuel(wt, <<latest>>) # {}
    BY <1>1, <1>2, FuelStart
  <2>6. Had(start) = {} /\ Got(start) = {}
    BY <2>2 DEF Had, Got
  <2>7. Reached(start) = {latest} /\ ChangesIn(refs, {}) = {}
    BY <2>2, <2>3, <2>6 DEF Reached, ChangesIn
  <2> QED
    BY <2>1, <2>2, <2>4, <2>5, <2>6, <2>7 DEF GoodCollections
<1>11. ASSUME NEW c \in Good \ done
       PROVE  /\ fuel[c] \in SUBSET Nat /\ fuel[c] # {}
              /\ step[c] \in Good
              /\ \A n \in fuel[c] : \E m \in fuel[step[c]] : m < n
  <2>1. c \in S /\ c.branches # <<>> /\ fuel[c] = Fuel(wt, c.branches) /\ fuel[c] # {}
    BY DEF GoodCollections
  <2> DEFINE r == Head(c.branches)
  <2>2. /\ step[c] \in Good
        /\ \A n \in Fuel(wt, c.branches) : \E m \in Fuel(wt, step[c].branches) : m < n
    <3>1. CASE <<r, 0>> \in c.entries /\ r \notin c.included
      BY <1>2, <1>4, <2>1, <3>1, GoodClose DEF Collects
    <3>2. CASE ~(<<r, 0>> \in c.entries /\ r \notin c.included) /\ r \in found
      BY <1>2, <1>4, <2>1, <3>2, GoodSnapshot DEF Collects
    <3>3. CASE ~(<<r, 0>> \in c.entries /\ r \notin c.included) /\ r \notin found
      BY <1>2, <1>4, <2>1, <3>3, GoodParents DEF Collects
    <3> QED
      BY <3>1, <3>2, <3>3
  <2>3. fuel[step[c]] = Fuel(wt, step[c].branches)
    BY <1>9, <2>2
  <2> QED
    BY <2>1, <2>2, <2>3 DEF Fuel
<1>12. \E v \in Good \cap done : f[start] = result[v]
  <2> HIDE DEF f, S, done, step, result, Good, fuel, start
  <2>1. Progresses(Good, done, step, fuel)
    BY <1>11 DEF Progresses
  <2>2. \A c \in Good : \E v \in Good \cap done : f[c] = result[v]
    BY <1>7, <1>9, <2>1, LoopEnds
  <2> QED
    BY <1>10, <2>2
<1> HIDE DEF f
<1>13. PICK v \in Good : f[start] = v.entries /\ v.branches = <<>>
  BY <1>12
<1>14. /\ latest \in Reached(v) /\ Reached(v) \subseteq Hist(ParentsOf(refs), latest)
       /\ \A x \in Had(v) : ParentsOf(refs)[x] \subseteq Reached(v)
       /\ ChangesIn(refs, Had(v)) \subseteq Got(v)
       /\ Got(v) \subseteq ChangesIn(refs, Hist(ParentsOf(refs), latest))
  BY <1>13 DEF GoodCollections
<1>15. Reached(v) = Had(v)
  <2>1. ToSet(<<>>) = {}
    BY DEF ToSet
  <2> QED
    BY <1>13, <2>1 DEF Reached
<1>16. Had(v) = Hist(ParentsOf(refs), latest)
  <2> DEFINE F == ParentsOf(refs)
             T == Had(v)
  <2>1. latest \in T /\ T \subseteq Hist(F, latest) /\ \A x \in T : F[x] \subseteq T
    BY <1>14, <1>15
  <2>2. N \in Nat /\ latest \in 1 .. N /\ Older(F, N)
    BY <1>1
  <2> HIDE DEF F, T, N
  <2>3. Hist(F, latest) \subseteq T
    BY <2>1, <2>2, HistLeast
  <2> QED
    BY <2>1, <2>3 DEF F, T
<1>17. SquashedDiff(latest, found) = Got(v)
  BY <1>8, <1>13 DEF SquashedDiff, Got
<1>18. Got(v) = ChangesIn(refs, Hist(ParentsOf(refs), latest))
  BY <1>14, <1>16
<1> HIDE DEF start, S, done, step, result, Good, fuel, N
<1> QED
  BY <1>1, <1>17, <1>18

-----------------------------------------------------------------------------
(* The graph that the agents of a neighbourhood grow, for every number of  *)
(* revisions, interval of snapshots and size of a chunk.                   *)

(* Commits and merges keep the invariant of the snapshots.                 *)
THEOREM SnapshotsKept == PullSpec => []SnapInv
<1>1. PullInit => SnapInv
  <2> SUFFICES ASSUME refs = <<>>, snapshots = <<>> PROVE SnapInv
    BY DEF PullInit, Init
  <2>1. DOMAIN refs = {} /\ DOMAIN snapshots = {}
    OBVIOUS
  <2> QED
    BY <2>1 DEF SnapInv, Grown, Covers, ChunksFit, Revs
<1>2. SnapInv /\ [PullNext]_<<first, searchVars, vars>> => SnapInv'
  <2> SUFFICES ASSUME SnapInv, [PullNext]_<<first, searchVars, vars>> PROVE SnapInv'
    OBVIOUS
  <2>1. ASSUME UNCHANGED vars PROVE SnapInv'
    <3>1. refs' = refs /\ snapshots' = snapshots
      BY <2>1 DEF vars
    <3> QED
      BY <3>1 DEF SnapInv, ChunksFit, Revs
  <2>2. CASE GrowsHistory
    <3>1. ASSUME NEW tip \in 0 .. Len(refs), NEW changes \in ChangesOn(tip), Commit(tip, changes)
          PROVE  SnapInv'
      BY <3>1, CommitKeeps
    <3>2. ASSUME NEW their \in Revs, NEW our \in Revs, Merge(their, our)
          PROVE  SnapInv'
      BY <3>2, MergeKeeps
    <3> QED
      BY <2>2, <3>1, <3>2 DEF GrowsHistory, Next
  <2>3. CASE Searches
    BY <2>1, <2>3 DEF Searches
  <2>4. CASE UNCHANGED <<first, searchVars, vars>>
    BY <2>1, <2>4
  <2> QED
    BY <2>2, <2>3, <2>4 DEF PullNext
<1> QED
  BY <1>1, <1>2, PTL DEF PullSpec

LEMMA ChangesSame == \A rs : Changes(rs) = ChangesIn(refs, rs)
  BY DEF Changes, ChangesIn

LEMMA SnapshotTypes ==
    ASSUME SnapInv
    PROVE  TypeOK
<1>1. refs \in Seq([parents : Seq(Revs), changes : SUBSET Change, since : Nat])
  <2> DEFINE R == [parents : Seq(Revs), changes : SUBSET Change, since : Nat]
             N == [parents : Seq(Nat), changes : SUBSET Change, since : Nat]
  <2>1. Len(refs) \in Nat /\ DOMAIN refs = 1 .. Len(refs) /\ refs \in Seq(N)
    BY LenProperties DEF SnapInv, Grown
  <2>2. \A q \in DOMAIN refs : refs[q] \in R
    <3> SUFFICES ASSUME NEW q \in DOMAIN refs PROVE refs[q] \in R
      OBVIOUS
    <3>1. refs[q] \in N
      BY <2>1, ElementOfSeq
    <3>2. refs[q].parents \in Seq(Revs)
      BY GrownFacts DEF SnapInv, Revs
    <3> QED
      BY <3>1, <3>2
  <2> DEFINE n == Len(refs)
  <2>3. n \in Nat /\ DOMAIN refs = 1 .. n /\ refs = [q \in 1 .. n |-> refs[q]]
    BY <2>1
  <2> HIDE DEF R, N, n
  <2>4. refs \in [1 .. n -> R]
    BY <2>2, <2>3
  <2>5. refs \in Seq(R)
    BY <2>3, <2>4, SeqDef
  <2> QED
    BY <2>5 DEF R
<1>2. \A r \in DOMAIN snapshots : snapshots[r].included \subseteq Revs
  BY PastInFacts DEF SnapInv, Covers, Revs
<1> QED
  BY <1>1, <1>2 DEF TypeOK, SnapInv, ChunksFit

(* A snapshot stands for exactly the history of its revision, whichever    *)
(* branches join and whichever older snapshots it was made from.           *)
THEOREM SnapshotsCover == PullSpec => []SnapshotCovers
<1>1. SnapInv => SnapshotCovers
  BY PastIsPastIn, ChangesSame DEF SnapInv, Covers, SnapshotCovers
<1> QED
  BY <1>1, SnapshotsKept, PTL

(* Whoever starts from a revision gets the changes of its whole history    *)
(* and no others, and diffs_since_snapshot bounds what is read before the  *)
(* snapshots.                                                              *)
THEOREM HistoriesCollected == PullSpec => []HistoryCollected
<1>1. SnapInv => HistoryCollected
  BY PastIsPastIn, ChangesSame, CollectedChanges, ReadIsBounded DEF HistoryCollected
<1> QED
  BY <1>1, SnapshotsKept, PTL

(* The snapshots and the search of a pull are what their types say; no     *)
(* chunk of a snapshot holds more than CHUNK_SIZE changes.                 *)
THEOREM PullTypes == PullSpec => []TypesOK
<1>1. SnapInv /\ (~first => SearchInv) => TypesOK
  BY SnapshotTypes, SearchTypes DEF TypesOK
<1> QED
  BY <1>1, SnapshotsKept, SearchKept, PTL
=============================================================================
