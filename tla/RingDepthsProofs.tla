--------------------------- MODULE RingDepthsProofs ---------------------------
(***************************************************************************)
(* Proofs about the storage passes, for every finite graph: that no cycle  *)
(* is left short and the passes never give up.                             *)
(***************************************************************************)
EXTENDS MCRingDepths, FiniteSetTheorems, TLAPS

-----------------------------------------------------------------------------
(* Induction, as the least counterexample.                                 *)

LEMMA LeastNat ==
  ASSUME NEW T \in SUBSET Nat, T # {}
  PROVE  \E x \in T : \A y \in T : x <= y
<1>1. IsWellFoundedOn(OpToRel(<, Nat), Nat)
  BY NatLessThanWellFounded
<1>2. \E x \in T : \A y \in T : <<y, x>> \notin OpToRel(<, Nat)
  BY <1>1, WFMin
<1>3. \A x, y \in Nat : <<y, x>> \notin OpToRel(<, Nat) => x <= y
  BY DEF OpToRel
<1> QED BY <1>2, <1>3

\* A set of finite subsets has a member none of the others is inside of.
LEMMA SmallestSubset ==
  ASSUME NEW S, IsFiniteSet(S), NEW T \in SUBSET SUBSET S, T # {}
  PROVE  \E C \in T : \A D \in T : D \subseteq C => D = C
<1>1. IsWellFoundedOn(StrictSubsetOrdering(S), SUBSET S)
  BY FS_StrictSubsetOrderingWellFounded, FS_FiniteSubsetsOfFinite
<1>2. \E C \in T : \A D \in T : <<D, C>> \notin StrictSubsetOrdering(S)
  BY <1>1, WFMin
<1>3. PICK C \in T : \A D \in T : <<D, C>> \notin StrictSubsetOrdering(S)
  BY <1>2
<1>4. ASSUME NEW D \in T, D \subseteq C
      PROVE  D = C
  <2>1. D \in SUBSET S /\ C \in SUBSET S
    OBVIOUS
  <2>2. <<D, C>> \in (SUBSET S) \X (SUBSET S)
    BY <2>1
  <2> QED BY <2>2, <1>3, <1>4 DEF StrictSubsetOrdering
<1> QED BY <1>4

-----------------------------------------------------------------------------
(* Reach is the least set of nodes with n in it that no channel of E leads *)
(* out of.                                                                 *)

\* The sets of nodes no channel of E leads out of.
Closed(E, N) == \A e \in E : Producer(e) \in N => Consumer(e) \in N

\* after, as Reach defines it, for the first k steps.
IsWalk(after, E, n, k) ==
  after = [i \in 0..k |-> IF i = 0 THEN {n} ELSE Onward(E, after[i - 1])]

LEMMA WalkExists ==
  ASSUME NEW E, NEW n, NEW k \in Nat
  PROVE  \E after : IsWalk(after, E, n, k)
<1> DEFINE T == {j \in Nat : ~ \E after : IsWalk(after, E, n, j)}
<1> SUFFICES ASSUME T # {} PROVE FALSE
  OBVIOUS
<1>1. PICK j \in T : \A i \in T : j <= i
  BY LeastNat
<1>2. CASE j = 0
  <2>1. IsWalk([i \in 0..0 |-> {n}], E, n, 0)
    BY DEF IsWalk
  <2> QED BY <1>2, <2>1
<1>3. CASE j # 0
  <2>1. j - 1 \in Nat /\ j - 1 \notin T
    BY <1>1, <1>3
  <2>2. PICK f : IsWalk(f, E, n, j - 1)
    BY <2>1
  <2> DEFINE g == [i \in 0..j |-> IF i < j THEN f[i] ELSE Onward(E, f[j - 1])]
  <2>3. \A i \in 0..j : g[i] = IF i = 0 THEN {n} ELSE Onward(E, g[i - 1])
    <3> SUFFICES ASSUME NEW i \in 0..j
                 PROVE  g[i] = IF i = 0 THEN {n} ELSE Onward(E, g[i - 1])
      OBVIOUS
    <3>1. \A x \in 0..j-1 : f[x] = IF x = 0 THEN {n} ELSE Onward(E, f[x - 1])
      BY <2>2 DEF IsWalk
    <3>2. CASE i = 0
      BY <3>1, <3>2, <1>3, <2>1
    <3>3. CASE i # 0 /\ i < j
      <4>1. i \in 0..j-1 /\ i - 1 \in 0..j /\ i - 1 < j
        BY <3>3, <2>1
      <4>2. g[i] = f[i] /\ g[i - 1] = f[i - 1]
        BY <4>1, <3>3
      <4> QED BY <4>1, <4>2, <3>1, <3>3
    <3>4. CASE i = j
      <4>1. j - 1 \in 0..j /\ j - 1 < j /\ j \in 0..j /\ ~(j < j)
        BY <2>1
      <4>2. g[j] = Onward(E, f[j - 1]) /\ g[j - 1] = f[j - 1]
        BY <4>1
      <4> QED BY <4>2, <3>4, <1>3
    <3> QED BY <3>2, <3>3, <3>4
  <2>4. IsWalk(g, E, n, j)
    BY <2>3 DEF IsWalk
  <2> QED BY <2>4, <1>1
<1> QED BY <1>2, <1>3

\* What holds of every walk: it starts at n, keeps inside every closed set that n
\* is in, and is closed itself once it has as many steps as there are channels.
LEMMA WalkInside ==
  ASSUME NEW E, NEW n, NEW k \in Nat, NEW after, IsWalk(after, E, n, k),
         NEW N, n \in N, Closed(E, N)
  PROVE  after[k] \subseteq N
<1> DEFINE T == {j \in 0..k : ~(after[j] \subseteq N)}
<1> SUFFICES ASSUME T # {} PROVE FALSE
  OBVIOUS
<1>1. PICK j \in T : \A i \in T : j <= i
  BY LeastNat, T \in SUBSET Nat
<1>2. after[j] = IF j = 0 THEN {n} ELSE Onward(E, after[j - 1])
  BY DEF IsWalk
<1>3. j # 0
  BY <1>2
<1>4. j - 1 \in 0..k /\ j - 1 \notin T
  BY <1>1, <1>3
<1>5. after[j - 1] \subseteq N
  BY <1>4
<1>6. Onward(E, after[j - 1]) \subseteq N
  BY <1>5 DEF Onward, Closed
<1> QED BY <1>2, <1>3, <1>6

LEMMA WalkStart ==
  ASSUME NEW E, NEW n, NEW k \in Nat, NEW after, IsWalk(after, E, n, k)
  PROVE  n \in after[k]
<1> DEFINE T == {j \in 0..k : n \notin after[j]}
<1> SUFFICES ASSUME T # {} PROVE FALSE
  OBVIOUS
<1>1. PICK j \in T : \A i \in T : j <= i
  BY LeastNat, T \in SUBSET Nat
<1>2. after[j] = IF j = 0 THEN {n} ELSE Onward(E, after[j - 1])
  BY DEF IsWalk
<1>3. j # 0
  BY <1>2
<1>4. j - 1 \in 0..k /\ j - 1 \notin T
  BY <1>1, <1>3
<1> QED BY <1>2, <1>3, <1>4 DEF Onward

LEMMA WalkClosed ==
  ASSUME NEW E, IsFiniteSet(E), NEW n, NEW k \in Nat, NEW after, IsWalk(after, E, n, k),
         k >= Cardinality(E)
  PROVE  Closed(E, after[k])
<1> DEFINE U(j) == {e \in E : Consumer(e) \in after[j]}
           P(j) == Closed(E, after[j]) \/ Cardinality(U(j)) >= j
           T == {j \in 0..k : ~P(j)}
<1>u. \A j \in 0..k : IsFiniteSet(U(j)) /\ Cardinality(U(j)) \in Nat /\ Cardinality(U(j)) <= Cardinality(E)
  <2> SUFFICES ASSUME NEW j \in 0..k
               PROVE  IsFiniteSet(U(j)) /\ Cardinality(U(j)) \in Nat /\ Cardinality(U(j)) <= Cardinality(E)
    OBVIOUS
  <2>1. U(j) \in SUBSET E
    OBVIOUS
  <2> HIDE DEF U
  <2> QED BY <2>1, FS_Subset, FS_CardinalityType
<1>e. Cardinality(E) \in Nat
  BY FS_CardinalityType
<1>1. T = {}
  <2> SUFFICES ASSUME T # {} PROVE FALSE
    OBVIOUS
  <2>1. PICK j \in T : \A i \in T : j <= i
    BY LeastNat, T \in SUBSET Nat
  <2>2. after[j] = IF j = 0 THEN {n} ELSE Onward(E, after[j - 1])
    BY DEF IsWalk
  <2>3. ~Closed(E, after[j]) /\ ~(Cardinality(U(j)) >= j)
    BY <2>1
  <2>4. j \in 0..k
    BY <2>1
  <2> HIDE DEF U
  <2>5. j # 0
    BY <2>3, <2>4, <1>u
  <2>6. j - 1 \in 0..k /\ j - 1 \notin T
    BY <2>1, <2>4, <2>5
  <2>7. P(j - 1)
    BY <2>6
  <2>8. after[j] = Onward(E, after[j - 1])
    BY <2>2, <2>5
  <2>9. CASE Closed(E, after[j - 1])
    <3>1. after[j] = after[j - 1]
      BY <2>8, <2>9 DEF Onward, Closed
    <3> QED BY <3>1, <2>9, <2>3
  <2>10. CASE ~Closed(E, after[j - 1])
    <3>1. PICK e \in E : Producer(e) \in after[j - 1] /\ Consumer(e) \notin after[j - 1]
      BY <2>10 DEF Closed
    <3>2. Consumer(e) \in after[j] /\ after[j - 1] \subseteq after[j]
      BY <3>1, <2>8 DEF Onward
    <3>3. e \notin U(j - 1) /\ U(j - 1) \union {e} \in SUBSET U(j)
      BY <3>1, <3>2 DEF U
    <3>4. Cardinality(U(j - 1) \union {e}) = Cardinality(U(j - 1)) + 1
      BY <3>3, <1>u, <2>6, FS_AddElement
    <3>5. Cardinality(U(j - 1) \union {e}) <= Cardinality(U(j))
      BY <3>3, <1>u, <2>4, FS_Subset
    <3>6. Cardinality(U(j - 1)) >= j - 1
      BY <2>7, <2>10
    <3> QED BY <3>4, <3>5, <3>6, <2>3, <2>4, <2>6, <1>u
  <2> QED BY <2>9, <2>10
<1>2. P(k)
  BY <1>1, k \in 0..k
<1>3. CASE Cardinality(U(k)) >= k
  <2>1. Cardinality(U(k)) = Cardinality(E) /\ U(k) \in SUBSET E
    <3> HIDE DEF U
    <3>1. Cardinality(U(k)) <= Cardinality(E) /\ Cardinality(U(k)) \in Nat
      BY <1>u, k \in 0..k
    <3>2. U(k) \in SUBSET E
      BY DEF U
    <3> QED BY <3>1, <3>2, <1>3, <1>e
  <2>2. U(k) = E
    <3> HIDE DEF U
    <3> QED BY <2>1, FS_Subset
  <2> QED BY <2>2 DEF Closed
<1> QED BY <1>2, <1>3

LEMMA ReachLeast ==
  ASSUME NEW E, IsFiniteSet(E), NEW n
  PROVE  /\ n \in Reach(E, n)
         /\ Closed(E, Reach(E, n))
         /\ \A N : n \in N /\ Closed(E, N) => Reach(E, n) \subseteq N
<1> DEFINE k == Cardinality(E)
           after == CHOOSE f : IsWalk(f, E, n, k)
<1>k. k \in Nat
  BY FS_CardinalityType
<1>1. IsWalk(after, E, n, k)
  BY <1>k, WalkExists
<1>2. Reach(E, n) = after[k]
  BY DEF Reach, IsWalk
<1> HIDE DEF after, k
<1>3. n \in after[k]
  BY <1>1, <1>k, WalkStart
<1>4. Closed(E, after[k])
  BY <1>1, <1>k, WalkClosed DEF k
<1>5. \A N : n \in N /\ Closed(E, N) => after[k] \subseteq N
  BY <1>1, <1>k, WalkInside
<1> QED BY <1>2, <1>3, <1>4, <1>5

-----------------------------------------------------------------------------
(* A cycle is inside a live component, and a live component holds a cycle. *)

\* m is on a path from n and on a path to n.
Together(E, m, n) == m \in Reach(E, n) /\ n \in Reach(E, m)

Inside(E, n) == {e \in E : Together(E, Producer(e), n) /\ Together(E, Consumer(e), n)}

\* A channel's ends are nodes.
LEMMA EndsAreNodes == \A e \in Edge : Producer(e) \in Node /\ Consumer(e) \in Node
BY DEF Node, Producer, Consumer

LEMMA ComponentsInside ==
  ASSUME NEW E \in SUBSET Edge
  PROVE  Components(E) = {Inside(E, n) : n \in Node}
<1> DEFINE paths == UNION {{n} \X Reach(E, n) : n \in Node}
           Old(n) == {e \in E : \A m \in {Producer(e), Consumer(e)} :
                                   {<<m, n>>, <<n, m>>} \subseteq paths}
<1>1. \A m, n : <<m, n>> \in paths <=> m \in Node /\ n \in Reach(E, m)
  OBVIOUS
<1>2. ASSUME NEW n \in Node
      PROVE  Old(n) = Inside(E, n)
  <2> HIDE DEF paths
  <2>1. ASSUME NEW e \in E
        PROVE  e \in Old(n) <=> e \in Inside(E, n)
    <3>1. Producer(e) \in Node /\ Consumer(e) \in Node
      BY EndsAreNodes
    <3> QED BY <1>1, <3>1 DEF Inside, Together
  <2>2. Old(n) \subseteq E /\ Inside(E, n) \subseteq E
    BY DEF Inside
  <2> QED BY <2>1, <2>2
<1>3. Components(E) = {Old(n) : n \in Node}
  BY DEF Components
<1> HIDE DEF Old
<1> QED BY <1>2, <1>3

LEMMA Transitive ==
  ASSUME NEW E, IsFiniteSet(E), NEW l, NEW m, NEW n, m \in Reach(E, l), n \in Reach(E, m)
  PROVE  n \in Reach(E, l)
BY ReachLeast

\* From each channel of a cycle there is a way back to where it started.
LEMMA WayBack ==
  ASSUME NEW E, IsFiniteSet(E), NEW C \in SimpleCycles(Edge), C \subseteq E, NEW e \in C
  PROVE  Producer(e) \in Reach(E, Consumer(e))
<1> DEFINE N == Reach(E, Consumer(e))
           D == {f \in C : Producer(f) \in N}
<1>1. Closed(E, N) /\ Consumer(e) \in N
  BY ReachLeast
<1> HIDE DEF N
<1>2. C \in SUBSET Edge /\ Endless(C) /\ \A B \in SUBSET Edge : Endless(B) /\ B \subseteq C => B = C
  BY DEF SimpleCycles
<1>3. Endless(D)
  <2>1. PICK f \in C : Producer(f) = Consumer(e)
    BY <1>2 DEF Endless
  <2>2. D # {}
    BY <2>1, <1>1
  <2>3. ASSUME NEW g \in D
        PROVE  \E h \in D : Producer(h) = Consumer(g)
    <3>1. Consumer(g) \in N
      BY <1>1 DEF Closed
    <3>2. PICK h \in C : Producer(h) = Consumer(g)
      BY <1>2 DEF Endless
    <3> QED BY <3>1, <3>2
  <2> QED BY <2>2, <2>3 DEF Endless
<1>4. D = C
  BY <1>2, <1>3
<1> QED BY <1>4 DEF N

LEMMA CycleInside ==
  ASSUME NEW E \in SUBSET Edge, IsFiniteSet(E), NEW C \in SimpleCycles(Edge), C \subseteq E,
         NEW e \in C
  PROVE  \E c \in Components(E) : e \in c
<1> DEFINE n == Producer(e)
<1>2. n \in Reach(E, n) /\ Consumer(e) \in Reach(E, n)
  BY ReachLeast DEF Closed
<1>3. n \in Reach(E, Consumer(e))
  BY WayBack
<1>4. e \in Inside(E, n)
  BY <1>2, <1>3 DEF Inside, Together
<1>5. n \in Node
  BY EndsAreNodes
<1> HIDE DEF n
<1>6. Inside(E, n) \in Components(E)
  BY <1>5, ComponentsInside
<1> QED BY <1>4, <1>6

LEMMA CycleIsLive ==
  ASSUME NEW E \in SUBSET Edge, IsFiniteSet(E), NEW C \in SimpleCycles(Edge), C \subseteq E
  PROVE  Components(E) \ {{}} # {}
<1>1. PICK e \in C : TRUE
  BY DEF SimpleCycles, Endless
<1>2. PICK c \in Components(E) : e \in c
  BY CycleInside
<1> QED BY <1>2

LEMMA LiveIsEndless ==
  ASSUME NEW E \in SUBSET Edge, IsFiniteSet(E), NEW c \in Components(E), c # {}
  PROVE  c \subseteq E /\ Endless(c)
<1>1. PICK n \in Node : c = Inside(E, n)
  BY ComponentsInside
<1>2. c \subseteq E
  BY <1>1 DEF Inside
<1>3. ASSUME NEW e \in c, \A f \in c : Producer(f) # Consumer(e)
      PROVE  FALSE
  <2> DEFINE k == Consumer(e)
             R == {m \in Reach(E, k) : k \notin Reach(E, m)} \union {k}
  <2>1. Producer(e) \in Reach(E, n) /\ n \in Reach(E, k) /\ k \in Reach(E, n)
    BY <1>1 DEF Inside, Together
  <2>2. Producer(e) \in Reach(E, k)
    BY <2>1, Transitive
  <2>3. k \in Reach(E, Producer(e))
    BY <1>2, ReachLeast DEF Closed
  <2>4. Closed(E, R)
    <3> SUFFICES ASSUME NEW x \in E, Producer(x) \in R
                 PROVE  Consumer(x) \in R
      BY DEF Closed
    <3> DEFINE p == Producer(x)
               q == Consumer(x)
    <3>1. p \in Reach(E, k)
      BY ReachLeast
    <3>2. q \in Reach(E, k) /\ q \in Reach(E, p)
      BY <3>1, ReachLeast DEF Closed
    <3>3. CASE p # k
      <4>1. k \notin Reach(E, p)
        BY <3>3
      <4>2. k \notin Reach(E, q)
        BY <4>1, <3>2, Transitive
      <4> QED BY <3>2, <4>2
    <3>4. CASE p = k /\ k \in Reach(E, q)
      <4>1. Together(E, p, n)
        BY <3>4, <2>1 DEF Together
      <4>2. q \in Reach(E, n) /\ n \in Reach(E, q)
        BY <3>2, <3>4, <2>1, Transitive
      <4>3. x \in c
        BY <1>1, <4>1, <4>2 DEF Inside, Together
      <4> QED BY <4>3, <3>4, <1>3
    <3>5. CASE p = k /\ k \notin Reach(E, q)
      BY <3>2, <3>5
    <3> QED BY <3>3, <3>4, <3>5
  <2>5. Producer(e) \in R
    BY <2>2, <2>4, ReachLeast
  <2>6. Producer(e) = k
    BY <2>3, <2>5
  <2> QED BY <2>6, <1>3
<1> QED BY <1>2, <1>3 DEF Endless

\* Every channel of a component comes after another one of it.
LEMMA LivePredecessor ==
  ASSUME NEW E \in SUBSET Edge, IsFiniteSet(E), NEW c \in Components(E), NEW e \in c
  PROVE  \E f \in c : Consumer(f) = Producer(e)
<1>1. PICK n \in Node : c = Inside(E, n)
  BY ComponentsInside
<1> DEFINE p == Producer(e)
           q == Consumer(e)
<1>2. e \in E /\ Together(E, p, n) /\ Together(E, q, n)
  BY <1>1 DEF Inside
<1>3. p \in Reach(E, q) /\ q \in Reach(E, q) /\ Closed(E, Reach(E, q))
  BY <1>2, Transitive, ReachLeast DEF Together
<1>4. CASE p = q
  BY <1>4
<1>5. CASE p # q
  <2> DEFINE N == Reach(E, q) \ {p}
  <2>1. ~Closed(E, N)
    <3>1. q \in N
      BY <1>3, <1>5
    <3>2. p \notin N
      OBVIOUS
    <3> HIDE DEF N, p, q
    <3> QED BY <1>3, <3>1, <3>2, ReachLeast
  <2>2. PICK x \in E : Producer(x) \in N /\ Consumer(x) \notin N
    BY <2>1 DEF Closed
  <2>3. Consumer(x) = p /\ Producer(x) \in Reach(E, q)
    BY <1>3, <2>2 DEF Closed
  <2>4. p \in Reach(E, Producer(x))
    BY <2>3, ReachLeast DEF Closed
  <2>5. Together(E, Producer(x), n)
    BY <1>2, <2>3, <2>4, Transitive DEF Together
  <2>6. x \in c
    BY <1>1, <1>2, <2>3, <2>5 DEF Inside
  <2> QED BY <2>3, <2>6
<1> QED BY <1>4, <1>5

\* The cycles of a graph are those of its components.
LEMMA CyclesOfComponents ==
  ASSUME IsFiniteSet(Edge)
  PROVE  SimpleCycles(UNION Components(Edge)) = SimpleCycles(Edge)
<1> DEFINE U == UNION Components(Edge)
<1>1. U \subseteq Edge
  BY DEF Components
<1>2. ASSUME NEW C \in SimpleCycles(Edge)
      PROVE  C \subseteq U
  <2>1. C \subseteq Edge
    BY DEF SimpleCycles
  <2> QED BY <2>1, CycleInside, Edge \in SUBSET Edge
<1> HIDE DEF U
<1>3. SimpleCycles(Edge) \subseteq SimpleCycles(U)
  BY <1>1, <1>2 DEF SimpleCycles
<1>4. SimpleCycles(U) \subseteq SimpleCycles(Edge)
  BY <1>1 DEF SimpleCycles
<1> QED BY <1>3, <1>4 DEF U

LEMMA LiveHasCycle ==
  ASSUME IsFiniteSet(Edge), NEW E \in SUBSET Edge, NEW c \in Components(E), c # {}
  PROVE  \E C \in SimpleCycles(Edge) : C \subseteq E
<1>1. IsFiniteSet(E)
  BY FS_Subset
<1>2. c \subseteq E /\ Endless(c)
  BY <1>1, LiveIsEndless
<1> DEFINE T == {D \in SUBSET c : Endless(D)}
<1>3. IsFiniteSet(c)
  BY <1>1, <1>2, FS_Subset
<1>4. c \in T
  BY <1>2
<1>5. PICK C \in T : \A D \in T : D \subseteq C => D = C
  <2>1. T \in SUBSET SUBSET c /\ T # {}
    BY <1>4
  <2> HIDE DEF T
  <2> QED BY <1>3, <2>1, SmallestSubset
<1>6. C \in SimpleCycles(Edge)
  BY <1>2, <1>5 DEF SimpleCycles
<1> QED BY <1>2, <1>5, <1>6

\* No component is live exactly when no cycle is left.
LEMMA LiveMeansCycle ==
  ASSUME IsFiniteSet(Edge), NEW E \in SUBSET Edge
  PROVE  Components(E) \ {{}} = {} <=> \A C \in SimpleCycles(Edge) : ~(C \subseteq E)
<1>1. IsFiniteSet(E)
  BY FS_Subset
<1> QED BY <1>1, CycleIsLive, LiveHasCycle

-----------------------------------------------------------------------------
(* Counting stages.                                                        *)

\* The stages d gives the channels of C.
On(d, C) == UNION {{e} \X (1..d[e]) : e \in C}

LEMMA OnMember ==
  ASSUME NEW d, NEW C, NEW e, NEW i
  PROVE  <<e, i>> \in On(d, C) <=> e \in C /\ i \in 1..d[e]
BY DEF On

LEMMA OnFinite ==
  ASSUME NEW C, IsFiniteSet(C), NEW d, \A e \in C : d[e] \in Nat
  PROVE  IsFiniteSet(On(d, C)) /\ Cardinality(On(d, C)) \in Nat
<1> DEFINE f == [e \in C |-> {e} \X (1..d[e])]
           T == {f[e] : e \in C}
<1>1. f \in Surjection(C, T)
  BY DEF Surjection
<1>2. IsFiniteSet(T)
  BY <1>1, FS_Surjection
<1>3. \A e \in C : IsFiniteSet({e} \X (1..d[e]))
  <2> TAKE e \in C
  <2>d. 1 \in Int /\ d[e] \in Int
    OBVIOUS
  <2>1. IsFiniteSet({e}) /\ IsFiniteSet(1..d[e])
    BY <2>d, FS_Singleton, FS_Interval
  <2> QED BY <2>1, FS_Product
<1>4. IsFiniteSet(UNION T)
  BY <1>2, <1>3, FS_UNION
<1>5. UNION T = On(d, C)
  BY DEF On
<1> QED BY <1>4, <1>5, FS_CardinalityType

LEMMA MoreStages ==
  ASSUME NEW C, IsFiniteSet(C), NEW d, NEW g,
         \A e \in C : d[e] \in Nat /\ g[e] \in Nat /\ d[e] <= g[e]
  PROVE  Cardinality(On(d, C)) <= Cardinality(On(g, C))
<1>1. On(d, C) \in SUBSET On(g, C)
  <2> SUFFICES ASSUME NEW e \in C, NEW i \in 1..d[e]
               PROVE  i \in 1..g[e]
    BY DEF On
  <2> QED OBVIOUS
<1>2. IsFiniteSet(On(g, C))
  BY OnFinite
<1> QED BY <1>1, <1>2, FS_Subset

LEMMA DeeperChannel ==
  ASSUME NEW C, IsFiniteSet(C), NEW d, NEW g, NEW e \in C, NEW k \in Nat,
         \A f \in C : d[f] \in Nat,
         \A f \in C : g[f] = IF f = e THEN d[e] + k ELSE d[f]
  PROVE  Cardinality(On(g, C)) = Cardinality(On(d, C)) + k
<1> DEFINE S == {e} \X (d[e] + 1 .. d[e] + k)
<1>1. On(g, C) = On(d, C) \union S
  <2>1. ASSUME NEW f \in C, NEW i
        PROVE  i \in 1..g[f] <=> i \in 1..d[f] \/ (f = e /\ i \in d[e] + 1 .. d[e] + k)
    <3>1. d[e] \in Nat /\ d[f] \in Nat
      OBVIOUS
    <3>2. CASE f = e
      <4>1. g[f] = d[e] + k
        BY <3>2
      <4> QED BY <3>1, <3>2, <4>1
    <3>3. CASE f # e
      <4>1. g[f] = d[f]
        BY <3>3
      <4> QED BY <3>3, <4>1
    <3> QED BY <3>2, <3>3
  <2>2. \A p \in On(g, C) : p = <<p[1], p[2]>>
    BY DEF On
  <2>3. \A p \in On(d, C) \union S : p = <<p[1], p[2]>>
    BY DEF On
  <2>4. \A f, i : <<f, i>> \in On(g, C) <=> <<f, i>> \in On(d, C) \union S
    BY <2>1, OnMember
  <2> QED BY <2>2, <2>3, <2>4
<1>2. On(d, C) \intersect S = {}
  <2> SUFFICES ASSUME NEW p \in On(d, C) \intersect S PROVE FALSE
    OBVIOUS
  <2>1. PICK i \in d[e] + 1 .. d[e] + k : p = <<e, i>>
    OBVIOUS
  <2>2. <<e, i>> \in On(d, C)
    BY <2>1
  <2>3. i \in 1..d[e]
    BY <2>2, OnMember
  <2>4. d[e] \in Nat
    OBVIOUS
  <2> QED BY <2>1, <2>3, <2>4
<1>3. IsFiniteSet(S) /\ Cardinality(S) = k
  <2>1. IsFiniteSet({e}) /\ Cardinality({e}) = 1
    BY FS_Singleton
  <2>2. IsFiniteSet(d[e] + 1 .. d[e] + k) /\ Cardinality(d[e] + 1 .. d[e] + k) = k
    BY FS_Interval
  <2> QED BY <2>1, <2>2, FS_Product
<1>4. IsFiniteSet(On(d, C)) /\ Cardinality(On(d, C)) \in Nat
  BY OnFinite
<1> HIDE DEF S
<1>5. Cardinality(On(d, C) \union S) =
        Cardinality(On(d, C)) + Cardinality(S) - Cardinality(On(d, C) \intersect S)
  BY <1>3, <1>4, FS_Union
<1>6. Cardinality(On(d, C) \intersect S) = 0
  BY <1>2, FS_EmptySet
<1> QED BY <1>1, <1>3, <1>4, <1>5, <1>6

-----------------------------------------------------------------------------
(* The passes, from any finite graph.                                      *)

\* Where ring_depths' caller starts: a graph with the links of rule 1, any
\* channels, and its cycles.
Begin == /\ IsFiniteSet(Edge)
         /\ graph \in [Edge -> Node \X Node]
         /\ Edge \subseteq Channel
         /\ rings = SimpleCycles(Edge)
         /\ depth \in [Channel -> 0..1]
         /\ pc = "cut"
         /\ round = 0

\* The channels no short cycle goes through any more.
Settled == {e \in Edge : \A C \in rings : e \in C => ~Short(C)}

Shape == /\ IsFiniteSet(Edge)
         /\ rings = SimpleCycles(Edge)
         /\ TypeOK

CutInv == pc = "cut" => round = 0 /\ depth \in [Channel -> 0..1]

\* Afterwards every cycle has a link, and every round has settled a channel.
DeepenInv == /\ pc # "cut" => \A C \in rings : C \intersect linked # {}
             /\ round <= Cardinality(Settled)
             /\ EveryRingLive

IInv == Shape /\ CutInv /\ DeepenInv

LEMMA RingFinite ==
  ASSUME Shape, NEW C \in rings
  PROVE  IsFiniteSet(C) /\ C \subseteq Edge /\ C # {}
BY FS_Subset DEF Shape, SimpleCycles, Endless

LEMMA StagesNat ==
  ASSUME Shape, NEW C \in rings
  PROVE  Stages(C) \in Nat
<1>1. \A e \in C : depth[e] \in Nat
  BY RingFinite DEF Shape, TypeOK
<1>2. Stages(C) = Cardinality(On(depth, C))
  BY DEF Stages, StagesOn, On
<1> QED BY <1>1, <1>2, RingFinite, OnFinite

LEMMA SettledBound ==
  ASSUME Shape
  PROVE  /\ Settled \in SUBSET Edge
         /\ IsFiniteSet(Settled)
         /\ Cardinality(Settled) \in Nat
         /\ Cardinality(Settled) < Rounds
         /\ Rounds \in Nat
<1>1. Settled \in SUBSET Edge
  BY DEF Settled
<1>2. IsFiniteSet(Edge)
  BY DEF Shape
<1> QED BY <1>1, <1>2, FS_Subset, FS_CardinalityType DEF Rounds

LEMMA LightestExists ==
  ASSUME Shape, NEW C \in rings
  PROVE  \E D \in Lightest : Stages(D) <= Stages(C)
<1> DEFINE T == {Stages(D) : D \in rings}
<1>1. T \in SUBSET Nat /\ T # {}
  BY StagesNat
<1>2. PICK x \in T : \A y \in T : x <= y
  <2> HIDE DEF T
  <2> QED BY <1>1, LeastNat
<1>3. PICK D \in rings : x = Stages(D)
  OBVIOUS
<1>4. \A B \in rings : Stages(D) <= Stages(B)
  BY <1>2, <1>3
<1> QED BY <1>3, <1>4 DEF Lightest

LEMMA BeginInv == Begin => IInv
<1> SUFFICES ASSUME Begin PROVE IInv
  OBVIOUS
<1>1. DOMAIN depth = Channel
  BY DEF Channel
<1>2. depth \in [Channel -> 0..1]
  BY DEF Begin
<1>3. Cardinality(Edge) \in Nat
  BY FS_CardinalityType DEF Begin
<1>4. graph \in [Edge -> Node \X Node]
  BY DEF Begin
<1>5. Shape
  BY <1>2, <1>3, <1>4 DEF Begin, Shape, TypeOK, Rounds
<1>6. CutInv
  BY <1>2 DEF Begin, CutInv
<1>7. DeepenInv
  BY <1>5, SettledBound DEF DeepenInv, EveryRingLive, Begin
<1> QED BY <1>5, <1>6, <1>7 DEF IInv

-----------------------------------------------------------------------------
(* cycle_sites' steps.                                                     *)

LEMMA SameGraph ==
  ASSUME UNCHANGED input
  PROVE  /\ Edge' = Edge /\ Node' = Node /\ Rounds' = Rounds
         /\ SimpleCycles(Edge)' = SimpleCycles(Edge)
<1>1. graph' = graph
  BY DEF input
<1>2. Edge' = Edge /\ Node' = Node /\ Rounds' = Rounds
  BY <1>1 DEF Edge, Node, Rounds
<1>3. SimpleCycles(Edge)' = SimpleCycles(Edge)
  BY <1>1, <1>2 DEF SimpleCycles, Endless, Producer, Consumer
<1> QED BY <1>2, <1>3

LEMMA ShapeStep ==
  ASSUME Shape, UNCHANGED input, depth' \in [Channel -> Nat],
         pc' \in {"cut", "deepen", "done", "refused"}, round' \in 0..Rounds
  PROVE  Shape' /\ Channel' = Channel
<1>1. Channel' = Channel
  BY DEF Channel
<1>2. graph' = graph /\ headers' = headers /\ already' = already /\ rings' = rings
  BY DEF input
<1>3. TypeOK'
  BY <1>1, <1>2, SameGraph DEF Shape, TypeOK
<1> QED BY <1>1, <1>2, <1>3, SameGraph DEF Shape

LEMMA SettledBoundStep ==
  ASSUME Shape'
  PROVE  Cardinality(Settled)' \in Nat /\ IsFiniteSet(Settled')
<1>1. Settled' \in SUBSET Edge' /\ IsFiniteSet(Edge')
  BY DEF Settled, Shape
<1> QED BY <1>1, FS_Subset, FS_CardinalityType

\* A cycle's stages in a step that takes none away.
LEMMA StagesGrow ==
  ASSUME Shape, UNCHANGED input, depth' \in [Channel -> Nat],
         \A e \in Channel : depth[e] <= depth'[e],
         NEW C \in rings
  PROVE  Stages(C) <= Stages(C)' /\ Stages(C)' \in Nat
<1>1. \A e \in C : depth[e] \in Nat /\ depth'[e] \in Nat /\ depth[e] <= depth'[e]
  BY RingFinite DEF Shape, TypeOK
<1>2. Stages(C) = Cardinality(On(depth, C)) /\ Stages(C)' = Cardinality(On(depth', C))
  BY DEF Stages, StagesOn, On
<1> QED BY <1>1, <1>2, RingFinite, OnFinite, MoreStages

LEMMA CutStep ==
  ASSUME IInv, Cut
  PROVE  IInv'
<1> USE DEF IInv
<1>1. PICK picks : depth' = [e \in Channel |-> IF e \in picks THEN 1 ELSE depth[e]]
  BY DEF Cut
<1>2. pc = "cut" /\ pc' = pc /\ round' = round /\ UNCHANGED input
  BY DEF Cut
<1>4. depth \in [Channel -> 0..1] /\ round = 0
  BY <1>2 DEF CutInv
<1>5. depth' \in [Channel -> 0..1]
  BY <1>1, <1>4
<1>6. Shape' /\ Channel' = Channel
  <2>1. depth' \in [Channel -> Nat]
    BY <1>5
  <2>2. round' \in 0..Rounds
    BY <1>2 DEF Shape, TypeOK
  <2> QED BY <1>2, <2>1, <2>2, ShapeStep
<1>7. CutInv'
  BY <1>2, <1>4, <1>5, <1>6 DEF CutInv
<1>8. DeepenInv'
  BY <1>2, <1>4, <1>6, SettledBoundStep DEF DeepenInv, EveryRingLive
<1> QED BY <1>6, <1>7, <1>8

LEMMA CutDoneStep ==
  ASSUME IInv, CutDone
  PROVE  IInv'
<1> USE DEF IInv
<1>1. pc = "cut" /\ pc' = "deepen" /\ UNCHANGED <<input, depth, round>> /\ Live = {}
  BY DEF CutDone
<1>2. \A C \in rings : C \intersect linked # {}
  <2>1. Bare \in SUBSET Edge /\ IsFiniteSet(Edge) /\ rings = SimpleCycles(Edge)
    BY DEF Bare, Shape
  <2>2. \A C \in rings : ~(C \subseteq Bare)
    BY <1>1, <2>1, LiveMeansCycle DEF Live
  <2> QED BY <2>2, RingFinite DEF Bare
<1>3. Shape' /\ Channel' = Channel
  BY <1>1, ShapeStep DEF Shape, TypeOK
<1>4. CutInv'
  BY <1>1 DEF CutInv
<1>5. DeepenInv'
  <2>1. rings' = rings /\ linked' = linked /\ Settled' = Settled
    BY <1>1, <1>3, SameGraph DEF input, linked, Settled, Short, Stages, StagesOn
  <2> QED BY <1>1, <1>2, <2>1 DEF DeepenInv, EveryRingLive
<1> QED BY <1>3, <1>4, <1>5

-----------------------------------------------------------------------------
(* ring_depths' steps.                                                     *)

LEMMA DeepenStep ==
  ASSUME IInv, Deepen
  PROVE  IInv'
<1> USE DEF IInv
<1>1. PICK C \in Lightest : \E e \in Preferred(C \intersect linked) :
        depth' = [depth EXCEPT ![e] = @ + Missing(C)]
  BY DEF Deepen
<1>2. PICK e \in Preferred(C \intersect linked) : depth' = [depth EXCEPT ![e] = @ + Missing(C)]
  BY <1>1
<1>3. pc = "deepen" /\ pc' = pc /\ round' = round + 1 /\ UNCHANGED input /\ round < Rounds
  BY DEF Deepen, Deepenable
<1>4. C \in rings /\ (\A D \in rings : Stages(C) <= Stages(D)) /\ Short(C)
  <2>1. PICK B \in Lightest : Short(B)
    BY DEF Deepen, Deepenable
  <2>2. Stages(C) <= Stages(B) /\ Stages(C) \in Nat /\ Stages(B) \in Nat
    BY <2>1, StagesNat DEF Lightest
  <2> QED BY <2>1, <2>2 DEF Lightest, Short, RingMinStages
<1>5. e \in C /\ e \in linked /\ e \in Edge /\ e \in Channel
  BY <1>4, RingFinite DEF Preferred, linked
<1> DEFINE k == Missing(C)
<1>6. k \in Nat /\ Stages(C) + k = RingMinStages /\ Stages(C) \in Nat
  BY <1>4, StagesNat DEF Missing, Short, RingMinStages
<1>7. depth' \in [Channel -> Nat] /\ \A f \in Channel : depth'[f] = IF f = e THEN depth[e] + k ELSE depth[f]
  BY <1>2, <1>5, <1>6 DEF Shape, TypeOK
<1> HIDE DEF k
<1>8. \A f \in Channel : depth[f] <= depth'[f] /\ depth[f] \in Nat
  BY <1>6, <1>7 DEF Shape, TypeOK
<1>9. Cardinality(Settled) < Rounds /\ Cardinality(Settled) \in Nat /\ Rounds \in Nat /\ IsFiniteSet(Settled)
  BY SettledBound
<1>10. round \in Nat
  BY DEF Shape, TypeOK
<1>11. Shape' /\ Channel' = Channel
  <2>1. round' \in 0..Rounds
    BY <1>3, <1>9, <1>10
  <2> QED BY <1>3, <1>7, <2>1, ShapeStep
<1>12. \A D \in rings : Stages(D) <= Stages(D)' /\ Stages(D)' \in Nat /\ Stages(D) \in Nat
  BY <1>3, <1>7, <1>8, StagesGrow, StagesNat
<1>13. ASSUME NEW D \in rings, e \in D
       PROVE  Stages(D)' >= RingMinStages
  <2>1. Cardinality(On(depth', D)) = Cardinality(On(depth, D)) + k
    <3>1. D \subseteq Channel /\ IsFiniteSet(D)
      BY RingFinite DEF Shape, TypeOK
    <3> QED BY <1>6, <1>7, <1>8, <1>13, <3>1, DeeperChannel
  <2>2. Stages(D)' = Stages(D) + k
    BY <2>1 DEF Stages, StagesOn, On
  <2>3. Stages(C) <= Stages(D) /\ Stages(D) \in Nat
    BY <1>4, <1>12
  <2> QED BY <2>2, <2>3, <1>6 DEF RingMinStages
<1>14. rings' = rings /\ Edge' = Edge /\ Settled' = {f \in Edge : \A D \in rings : f \in D => ~(Stages(D)' < RingMinStages)}
  BY <1>3, SameGraph DEF Settled, Short, input, RingMinStages
<1>15. Settled \union {e} \in SUBSET Settled' /\ e \notin Settled
  <2>1. e \notin Settled
    BY <1>4, <1>5 DEF Settled
  <2>2. e \in Settled'
    BY <1>5, <1>12, <1>13, <1>14 DEF RingMinStages
  <2>3. ASSUME NEW f \in Settled
        PROVE  f \in Settled'
    <3>1. f \in Edge /\ \A D \in rings : f \in D => ~(Stages(D) < RingMinStages)
      BY DEF Settled, Short
    <3>2. \A D \in rings : f \in D => ~(Stages(D)' < RingMinStages)
      BY <3>1, <1>12 DEF RingMinStages
    <3> QED BY <3>1, <3>2, <1>14
  <2> QED BY <2>1, <2>2, <2>3
<1>16. round' <= Cardinality(Settled)'
  <2>1. Cardinality(Settled \union {e}) = Cardinality(Settled) + 1
    BY <1>9, <1>15, FS_AddElement
  <2>2. Cardinality(Settled)' \in Nat /\ IsFiniteSet(Settled')
    BY <1>11, SettledBoundStep
  <2>3. Cardinality(Settled \union {e}) <= Cardinality(Settled')
    BY <2>2, <1>15, FS_Subset
  <2>4. round <= Cardinality(Settled)
    BY DEF DeepenInv
  <2> QED BY <2>1, <2>2, <2>3, <2>4, <1>3, <1>9, <1>10
<1>17. \A D \in rings' : D \intersect linked' # {}
  <2>1. linked \subseteq linked'
    BY <1>8, <1>7, <1>11 DEF linked
  <2>2. \A D \in rings : D \intersect linked # {}
    BY <1>3 DEF DeepenInv
  <2> QED BY <2>1, <2>2, <1>14
<1>18. CutInv' /\ DeepenInv'
  BY <1>3, <1>16, <1>17 DEF CutInv, DeepenInv, EveryRingLive
<1> QED BY <1>11, <1>18

LEMMA DeepenStopStep ==
  ASSUME IInv, DeepenStop
  PROVE  IInv'
<1> USE DEF IInv
<1>1. /\ pc = "deepen" /\ ~Deepenable /\ UNCHANGED <<input, depth, round>>
      /\ pc' = IF round < Rounds /\ Floored THEN "done" ELSE "refused"
  BY DEF DeepenStop
<1>2. round < Rounds
  BY SettledBound DEF DeepenInv, Shape, TypeOK
<1>3. Floored
  <2> SUFFICES ASSUME NEW C \in Lightest, Short(C) PROVE FALSE
    BY DEF Floored
  <2>1. C \in rings
    BY DEF Lightest
  <2>2. C \intersect linked # {}
    BY <2>1, <1>1 DEF DeepenInv
  <2> QED BY <2>2, <1>1, <1>2 DEF Deepenable
<1>4. pc' = "done"
  BY <1>1, <1>2, <1>3
<1>5. \A C \in rings : Stages(C) >= RingMinStages
  <2> TAKE C \in rings
  <2>1. PICK D \in Lightest : Stages(D) <= Stages(C)
    BY LightestExists
  <2>2. D \in rings /\ ~(Stages(D) < RingMinStages)
    BY <1>3, <2>1 DEF Floored, Short, Lightest
  <2>3. Stages(C) \in Nat /\ Stages(D) \in Nat
    BY <2>2, StagesNat
  <2> QED BY <2>1, <2>2, <2>3 DEF RingMinStages
<1>6. Shape' /\ Channel' = Channel
  BY <1>1, <1>4, ShapeStep DEF Shape, TypeOK
<1>7. rings' = rings /\ linked' = linked /\ Settled' = Settled
      /\ \A C : Stages(C)' = Stages(C)
  BY <1>1, <1>6, SameGraph DEF input, linked, Settled, Short, Stages, StagesOn
<1>8. CutInv' /\ DeepenInv'
  BY <1>1, <1>4, <1>5, <1>7 DEF CutInv, DeepenInv, EveryRingLive
<1> QED BY <1>6, <1>8

LEMMA StutterStep ==
  ASSUME IInv, UNCHANGED vars
  PROVE  IInv'
<1> USE DEF IInv
<1>1. UNCHANGED <<input, depth, pc, round>>
  BY DEF vars
<1>2. Shape' /\ Channel' = Channel
  BY <1>1, ShapeStep DEF Shape, TypeOK
<1>3. rings' = rings /\ linked' = linked /\ Settled' = Settled
      /\ \A C : Stages(C)' = Stages(C)
  BY <1>1, <1>2, SameGraph DEF input, linked, Settled, Short, Stages, StagesOn
<1> QED BY <1>1, <1>2, <1>3 DEF CutInv, DeepenInv, EveryRingLive

LEMMA Step == IInv /\ [Next]_vars => IInv'
BY CutStep, CutDoneStep, DeepenStep, DeepenStopStep, StutterStep DEF Next

LEMMA InitBegin == Init => Begin
<1> SUFFICES ASSUME Init PROVE Begin
  OBVIOUS
<1>1. graph \in [1..EdgeCount -> (1..NodeCount) \X (1..NodeCount)]
  BY DEF Init
<1>2. Edge = 1..EdgeCount
  BY <1>1 DEF Edge
<1>3. IsFiniteSet(Edge)
  BY <1>2, FS_Interval, GraphAssumption
<1>4. graph \in [Edge -> Node \X Node]
  <2>1. \A e \in Edge : graph[e] = <<graph[e][1], graph[e][2]>>
    BY <1>1, <1>2
  <2>2. \A e \in Edge : graph[e][1] \in Node /\ graph[e][2] \in Node
    BY DEF Node
  <2>3. \A e \in Edge : graph[e] \in Node \X Node
    BY <2>1, <2>2
  <2> QED BY <1>1, <1>2, <2>3
<1>5. Channel = Edge /\ depth \in [Channel -> 0..1]
  BY DEF Init, Channel
<1> QED BY <1>3, <1>4, <1>5 DEF Begin, Init

(* Whatever finite graph, headers and rule-1 links the two passes start    *)
(* from: they never give up, and in the end every simple cycle has the     *)
(* three stages a ring needs to live.                                      *)
THEOREM AnyGraph == Begin /\ [][Next]_vars => []EveryRingLive
<1>1. IInv => EveryRingLive
  BY DEF IInv, DeepenInv
<1> QED BY BeginInv, Step, <1>1, PTL

(* The same of the model-checked graphs, for every size.                   *)
THEOREM RingLiveCorrect == Spec => []EveryRingLive
BY InitBegin, AnyGraph, PTL DEF Spec

-----------------------------------------------------------------------------
(* The verdict that every cycle has storage.                               *)

LEMMA VerdictHolds ==
  ASSUME IsFiniteSet(Edge), rings = SimpleCycles(Edge)
  PROVE  VerdictExact
<1> SUFFICES ASSUME NEW S \in SUBSET Node
             PROVE  StorageFree(S) <=> \E C \in rings : \A e \in C :
                      {Producer(e), Consumer(e)} \intersect S = {}
  BY DEF VerdictExact
<1> DEFINE E == {e \in Edge : {Producer(e), Consumer(e)} \intersect S = {}}
<1>1. StorageFree(S) <=> \E C \in rings : C \subseteq E
  <2>1. StorageFree(S) <=> Components(E) \ {{}} # {}
    BY DEF StorageFree, Residual
  <2>2. E \in SUBSET Edge
    OBVIOUS
  <2> HIDE DEF E
  <2> QED BY <2>1, <2>2, LiveMeansCycle
<1>2. ASSUME NEW C \in rings
      PROVE  C \subseteq E <=> \A e \in C : {Producer(e), Consumer(e)} \intersect S = {}
  <2>1. C \subseteq Edge
    BY DEF SimpleCycles
  <2> QED BY <2>1
<1> HIDE DEF E
<1> QED BY <1>1, <1>2

-----------------------------------------------------------------------------
(* The heaviest ring.                                                      *)

\* A bounded set of numbers has a greatest one.
LEMMA MaxOf ==
  ASSUME NEW S \in SUBSET Nat, S # {}, NEW b \in Nat, \A x \in S : x <= b
  PROVE  Sets!Max(S) \in S /\ \A x \in S : x <= Sets!Max(S)
<1> DEFINE T == {c \in Nat : \A x \in S : x <= c}
<1>1. T \in SUBSET Nat /\ T # {}
  OBVIOUS
<1>2. PICK m \in T : \A c \in T : m <= c
  <2> HIDE DEF T
  <2> QED BY <1>1, LeastNat
<1>3. m \in S
  <2> SUFFICES ASSUME m \notin S PROVE FALSE
    OBVIOUS
  <2>1. \A x \in S : x <= m - 1
    BY <1>2
  <2>2. m - 1 \in Nat
    <3>1. PICK x \in S : TRUE
      OBVIOUS
    <3>2. x \in Nat /\ x <= m - 1 /\ m \in Nat
      BY <2>1
    <3> QED BY <3>2
  <2> QED BY <1>2, <2>1, <2>2
<1>4. \A x \in S : m >= x
  BY <1>2
<1> QED BY <1>3, <1>4 DEF Sets!Max

\* Of two sets, each number of one in the other, and none of the other above it.
LEMMA SameMax ==
  ASSUME NEW S \in SUBSET Nat, NEW T \in SUBSET Nat, NEW b \in Nat,
         \A x \in T : x <= b,
         S \subseteq T,
         \A x \in T : \E y \in S : x <= y,
         T # {}
  PROVE  Sets!Max(S) = Sets!Max(T)
<1>1. S # {} /\ \A x \in S : x <= b
  OBVIOUS
<1>2. Sets!Max(S) \in S /\ \A x \in S : x <= Sets!Max(S)
  BY <1>1, MaxOf
<1>3. Sets!Max(T) \in T /\ \A x \in T : x <= Sets!Max(T)
  BY MaxOf
<1>4. PICK y \in S : Sets!Max(T) <= y
  BY <1>3
<1>5. Sets!Max(S) \in Nat /\ Sets!Max(T) \in Nat /\ y \in Nat
  BY <1>2, <1>3
<1>6. y <= Sets!Max(S) /\ Sets!Max(S) <= Sets!Max(T)
  BY <1>2, <1>3
<1> HIDE DEF Sets!Max
<1> QED BY <1>4, <1>5, <1>6

\* A graph with numbered nodes, and depths that are numbers.
Numbered == Shape /\ Node \subseteq Nat

LEMMA DepthNat == ASSUME Shape, NEW e \in Edge PROVE depth[e] \in Nat
BY DEF Shape, TypeOK

LEMMA SubStages ==
  ASSUME Shape, NEW B \in SUBSET Edge, NEW D \in SUBSET B
  PROVE  /\ IsFiniteSet(B)
         /\ Stages(B) \in Nat /\ Stages(D) \in Nat
         /\ Stages(D) <= Stages(B)
<1>1. IsFiniteSet(B) /\ IsFiniteSet(D)
  BY FS_Subset DEF Shape
<1>2. \A e \in B : depth[e] \in Nat
  BY DepthNat
<1>3. On(depth, D) \in SUBSET On(depth, B)
  BY DEF On
<1>4. IsFiniteSet(On(depth, B)) /\ IsFiniteSet(On(depth, D)) /\ Cardinality(On(depth, B)) \in Nat /\ Cardinality(On(depth, D)) \in Nat
  BY <1>1, <1>2, OnFinite
<1>5. Stages(B) = Cardinality(On(depth, B)) /\ Stages(D) = Cardinality(On(depth, D))
  BY DEF Stages, StagesOn, On
<1> QED BY <1>1, <1>3, <1>4, <1>5, FS_Subset

LEMMA OneMore ==
  ASSUME Shape, NEW B \in SUBSET Edge, NEW e \in Edge, e \notin B
  PROVE  Stages(B \union {e}) = Stages(B) + depth[e]
<1> DEFINE S == {e} \X (1..depth[e])
<1>1. On(depth, B \union {e}) = On(depth, B) \union S
  BY DEF On
<1>2. On(depth, B) \intersect S = {}
  <2> SUFFICES ASSUME NEW p \in On(depth, B) \intersect S PROVE FALSE
    OBVIOUS
  <2>1. p[1] = e
    OBVIOUS
  <2>2. p[1] \in B
    BY DEF On
  <2> QED BY <2>1, <2>2
<1>3. IsFiniteSet(S) /\ Cardinality(S) = depth[e]
  <2>0. depth[e] \in Nat
    BY DepthNat
  <2>1. IsFiniteSet({e}) /\ Cardinality({e}) = 1
    BY FS_Singleton
  <2>2. IsFiniteSet(1..depth[e]) /\ Cardinality(1..depth[e]) = depth[e]
    BY <2>0, FS_Interval
  <2>3. IsFiniteSet(S) /\ Cardinality(S) = Cardinality({e}) * Cardinality(1..depth[e])
    BY <2>1, <2>2, FS_Product
  <2> QED BY <2>0, <2>1, <2>2, <2>3
<1>4. IsFiniteSet(On(depth, B)) /\ Cardinality(On(depth, B)) \in Nat
  <2>1. IsFiniteSet(B)
    BY FS_Subset DEF Shape
  <2>2. \A f \in B : depth[f] \in Nat
    BY DepthNat
  <2> QED BY <2>1, <2>2, OnFinite
<1> HIDE DEF S
<1>5. Cardinality(On(depth, B) \union S) =
        Cardinality(On(depth, B)) + Cardinality(S) - Cardinality(On(depth, B) \intersect S)
  BY <1>3, <1>4, FS_Union
<1>6. Cardinality(On(depth, B) \intersect S) = 0
  BY <1>2, FS_EmptySet
<1>7. Stages(B \union {e}) = Cardinality(On(depth, B \union {e})) /\ Stages(B) = Cardinality(On(depth, B))
  BY DEF Stages, StagesOn, On
<1>8. depth[e] \in Nat
  BY DepthNat
<1>9. Stages(B \union {e}) = Cardinality(On(depth, B) \union S)
  BY <1>1, <1>7
<1> QED BY <1>3, <1>4, <1>5, <1>6, <1>7, <1>8, <1>9

\* The deepest of the channels from m to n.
LEMMA WeightOf ==
  ASSUME Shape, NEW m, NEW n, NEW f \in Edge, graph[f] = <<m, n>>
  PROVE  /\ Weight(m, n) \in Nat
         /\ depth[f] <= Weight(m, n)
         /\ \E e \in Edge : Producer(e) = m /\ Consumer(e) = n /\ depth[e] = Weight(m, n)
<1> DEFINE S == {depth[e] : e \in {c \in Edge : graph[c] = <<m, n>>}}
<1>1. S \in SUBSET Nat /\ depth[f] \in S
  BY DepthNat
<1>2. \A x \in S : x <= Stages(Edge)
  <2> SUFFICES ASSUME NEW e \in Edge PROVE depth[e] <= Stages(Edge)
    OBVIOUS
  <2>1. Stages({} \union {e}) = Stages({}) + depth[e]
    BY OneMore
  <2>2. {} \union {e} \in SUBSET Edge /\ {} \in SUBSET Edge
    OBVIOUS
  <2>3. Stages({} \union {e}) <= Stages(Edge) /\ Stages({}) \in Nat /\ Stages(Edge) \in Nat
    BY <2>2, SubStages
  <2>4. depth[e] \in Nat
    BY DepthNat
  <2> QED BY <2>1, <2>3, <2>4
<1>3. Stages(Edge) \in Nat
  BY SubStages, Edge \in SUBSET Edge
<1>4. Weight(m, n) = Sets!Max(S)
  BY DEF Weight
<1>5. Sets!Max(S) \in S /\ \A x \in S : x <= Sets!Max(S)
  <2> HIDE DEF S
  <2> QED BY <1>1, <1>2, <1>3, MaxOf
<1>6. PICK e \in Edge : graph[e] = <<m, n>> /\ depth[e] = Sets!Max(S)
  BY <1>5
<1>7. Producer(e) = m /\ Consumer(e) = n
  BY <1>6 DEF Producer, Consumer
<1> HIDE DEF S
<1> QED BY <1>1, <1>4, <1>5, <1>6, <1>7

-----------------------------------------------------------------------------
(* From walks to cycles: what a walk of the report has been through is a   *)
(* chain of channels, and the arc back makes it a cycle.                   *)

\* B leads from start to p.at, through every node of p.seen, once.
Chain(p, B, start) ==
  /\ B \subseteq Edge
  /\ start \in p.seen /\ p.at \in p.seen
  /\ \A e \in B : Producer(e) \in p.seen \ {p.at} /\ Consumer(e) \in p.seen
  /\ \A n \in p.seen \ {p.at} : \E e \in B : Producer(e) = n
  /\ \A e, f \in B : Producer(e) = Producer(f) => e = f
  /\ \A N : start \in N /\ Closed(B, N) => p.seen \subseteq N
  /\ \A N : N \intersect p.seen # {} /\ Closed(B, N) => p.at \in N

IsChain(p, start) == \E B : Chain(p, B, start) /\ p.stages = Stages(B)

LEMMA ChainStart ==
  ASSUME Shape, NEW start
  PROVE  IsChain([at |-> start, seen |-> {start}, stages |-> 0], start)
<1> DEFINE p == [at |-> start, seen |-> {start}, stages |-> 0]
<1>1. Chain(p, {}, start)
  BY DEF Chain
<1>2. Stages({}) = 0
  <2>1. On(depth, {}) = {}
    BY DEF On
  <2> QED BY <2>1, FS_EmptySet DEF Stages, StagesOn, On
<1> QED BY <1>1, <1>2 DEF IsChain

LEMMA ChainGrows ==
  ASSUME Shape, NEW p, NEW start, IsChain(p, start), NEW q, q \notin p.seen,
         NEW c \in Edge, graph[c] = <<p.at, q>>
  PROVE  IsChain([at |-> q, seen |-> p.seen \union {q}, stages |-> p.stages + Weight(p.at, q)], start)
<1> DEFINE r == [at |-> q, seen |-> p.seen \union {q}, stages |-> p.stages + Weight(p.at, q)]
<1>1. PICK B : Chain(p, B, start) /\ p.stages = Stages(B)
  BY DEF IsChain
<1>2. PICK e \in Edge : Producer(e) = p.at /\ Consumer(e) = q /\ depth[e] = Weight(p.at, q)
  BY WeightOf
<1>3. e \notin B /\ B \in SUBSET Edge
  BY <1>1, <1>2 DEF Chain
<1>4. Stages(B \union {e}) = r.stages
  BY <1>1, <1>2, <1>3, OneMore
<1> DEFINE A == B \union {e}
<1>r. r.at = q /\ r.seen = p.seen \union {q} /\ q # p.at /\ p.at \in p.seen
  BY <1>1 DEF Chain
<1> HIDE DEF r
<1>5. A \subseteq Edge /\ start \in r.seen /\ r.at \in r.seen
  BY <1>1, <1>3, <1>r DEF Chain
<1>6. \A f \in A : Producer(f) \in r.seen \ {r.at} /\ Consumer(f) \in r.seen
  BY <1>1, <1>2, <1>r DEF Chain
<1>7. \A n \in r.seen \ {r.at} : \E f \in A : Producer(f) = n
  BY <1>1, <1>2, <1>r DEF Chain
<1>8. \A f, g \in A : Producer(f) = Producer(g) => f = g
  BY <1>1, <1>2 DEF Chain
<1>9. ASSUME NEW N, Closed(A, N)
      PROVE  /\ start \in N => r.seen \subseteq N
             /\ N \intersect r.seen # {} => r.at \in N
  <2>1. Closed(B, N) /\ (p.at \in N => q \in N)
    BY <1>9, <1>2 DEF Closed
  <2>2. start \in N => p.seen \subseteq N
    BY <2>1, <1>1 DEF Chain
  <2>3. N \intersect p.seen # {} => p.at \in N
    BY <2>1, <1>1 DEF Chain
  <2> QED BY <2>1, <2>2, <2>3, <1>r
<1>10. Chain(r, A, start)
  BY <1>5, <1>6, <1>7, <1>8, <1>9 DEF Chain
<1> QED BY <1>4, <1>10 DEF IsChain, r

LEMMA ChainCloses ==
  ASSUME Shape, NEW p, NEW start, IsChain(p, start),
         NEW c \in Edge, graph[c] = <<p.at, start>>
  PROVE  \E C \in rings : p.stages + Weight(p.at, start) = Stages(C)
<1>1. PICK B : Chain(p, B, start) /\ p.stages = Stages(B)
  BY DEF IsChain
<1>2. PICK e \in Edge : Producer(e) = p.at /\ Consumer(e) = start /\ depth[e] = Weight(p.at, start)
  BY WeightOf
<1>3. e \notin B /\ B \in SUBSET Edge
  BY <1>1, <1>2 DEF Chain
<1> DEFINE C == B \union {e}
<1>4. Stages(C) = p.stages + Weight(p.at, start)
  BY <1>1, <1>2, <1>3, OneMore
<1>5. \A f, g \in C : Producer(f) = Producer(g) => f = g
  BY <1>1, <1>2 DEF Chain
<1>6. \A n \in p.seen : \E f \in C : Producer(f) = n
  BY <1>1, <1>2 DEF Chain
<1>7. \A f \in C : Producer(f) \in p.seen /\ Consumer(f) \in p.seen
  BY <1>1, <1>2 DEF Chain
<1>8. Endless(C)
  BY <1>6, <1>7 DEF Endless
<1>9. ASSUME NEW D \in SUBSET Edge, Endless(D), D \subseteq C
      PROVE  D = C
  <2> DEFINE N == {Producer(f) : f \in D}
  <2>1. \A f \in C : Producer(f) \in N => f \in D
    BY <1>5, <1>9
  <2>2. Closed(C, N)
    <3> SUFFICES ASSUME NEW f \in C, Producer(f) \in N
                 PROVE  Consumer(f) \in N
      BY DEF Closed
    <3>1. f \in D
      BY <2>1
    <3>2. PICK g \in D : Producer(g) = Consumer(f)
      BY <3>1, <1>9 DEF Endless
    <3> QED BY <3>2
  <2>3. Closed(B, N)
    BY <2>2 DEF Closed
  <2>4. N \intersect p.seen # {}
    <3>1. PICK f \in D : TRUE
      BY <1>9 DEF Endless
    <3>2. Producer(f) \in p.seen /\ Producer(f) \in N
      BY <3>1, <1>9, <1>7
    <3> QED BY <3>2
  <2> HIDE DEF N
  <2>5. p.at \in N
    BY <2>3, <2>4, <1>1 DEF Chain
  <2>6. start \in N
    BY <2>2, <2>5, <1>2 DEF Closed
  <2>7. p.seen \subseteq N
    BY <2>3, <2>6, <1>1 DEF Chain
  <2> QED BY <2>1, <2>7, <1>7, <1>9
<1>10. C \in rings
  <2>1. C \in SUBSET Edge
    BY <1>3
  <2> HIDE DEF C
  <2> QED BY <2>1, <1>8, <1>9 DEF Shape, SimpleCycles
<1> QED BY <1>4, <1>10

-----------------------------------------------------------------------------
(* All walks the report takes.                                             *)

\* walks, as Walks defines it, for the first k steps.
AreWalks(walks, start, k) ==
  walks = [i \in 0..k |-> IF i = 0 THEN {[at |-> start, seen |-> {start}, stages |-> 0]}
                          ELSE Longer(start, walks[i - 1])]

LEMMA WalksExist ==
  ASSUME NEW start, NEW k \in Nat
  PROVE  \E walks : AreWalks(walks, start, k)
<1> DEFINE T == {j \in Nat : ~ \E walks : AreWalks(walks, start, j)}
           first == {[at |-> start, seen |-> {start}, stages |-> 0]}
<1> SUFFICES ASSUME T # {} PROVE FALSE
  OBVIOUS
<1>1. PICK j \in T : \A i \in T : j <= i
  BY LeastNat
<1>2. CASE j = 0
  <2>1. AreWalks([i \in 0..0 |-> first], start, 0)
    BY DEF AreWalks
  <2> QED BY <1>2, <2>1
<1> HIDE DEF first
<1>3. CASE j # 0
  <2>1. j - 1 \in Nat /\ j - 1 \notin T
    BY <1>1, <1>3
  <2>2. PICK f : AreWalks(f, start, j - 1)
    BY <2>1
  <2> DEFINE g == [i \in 0..j |-> IF i < j THEN f[i] ELSE Longer(start, f[j - 1])]
  <2>3. \A i \in 0..j : g[i] = IF i = 0 THEN first ELSE Longer(start, g[i - 1])
    <3> SUFFICES ASSUME NEW i \in 0..j
                 PROVE  g[i] = IF i = 0 THEN first ELSE Longer(start, g[i - 1])
      OBVIOUS
    <3>1. \A x \in 0..j-1 : f[x] = IF x = 0 THEN first ELSE Longer(start, f[x - 1])
      BY <2>2 DEF AreWalks, first
    <3>2. CASE i = 0
      BY <3>1, <3>2, <1>3, <2>1
    <3>3. CASE i # 0 /\ i < j
      <4>1. i \in 0..j-1 /\ i - 1 \in 0..j /\ i - 1 < j
        BY <3>3, <2>1
      <4>2. g[i] = f[i] /\ g[i - 1] = f[i - 1]
        BY <4>1, <3>3
      <4> QED BY <4>1, <4>2, <3>1, <3>3
    <3>4. CASE i = j
      <4>1. j - 1 \in 0..j /\ j - 1 < j /\ j \in 0..j /\ ~(j < j)
        BY <2>1
      <4>2. g[j] = Longer(start, f[j - 1]) /\ g[j - 1] = f[j - 1]
        BY <4>1
      <4> QED BY <4>2, <3>4, <1>3
    <3> QED BY <3>2, <3>3, <3>4
  <2>4. AreWalks(g, start, j)
    BY <2>3 DEF AreWalks, first
  <2> QED BY <2>4, <1>1
<1> QED BY <1>2, <1>3

LEMMA WalksAre ==
  ASSUME Cardinality(Node) \in Nat, NEW start
  PROVE  \E walks : /\ AreWalks(walks, start, Cardinality(Node))
                    /\ Walks(start) = walks[Cardinality(Node)]
<1> DEFINE k == Cardinality(Node)
           walks == CHOOSE w : AreWalks(w, start, k)
<1>1. AreWalks(walks, start, k)
  BY WalksExist
<1>2. Walks(start) = walks[k]
  BY DEF Walks, AreWalks
<1> QED BY <1>1, <1>2

\* An arc is a channel.
LEMMA ArcIsChannel ==
  ASSUME Shape, NEW a \in Arcs
  PROVE  a = <<a[1], a[2]>> /\ \E c \in Edge : graph[c] = a
<1>1. PICK e \in UNION Components(Edge) : a = graph[e]
  BY DEF Arcs
<1>2. e \in Edge
  BY <1>1 DEF Components
<1>3. a \in Node \X Node
  BY <1>1, <1>2 DEF Shape, TypeOK
<1> QED BY <1>1, <1>2, <1>3

LEMMA LongerWalk ==
  ASSUME NEW start, NEW P, NEW r \in Longer(start, P), r \notin P
  PROVE  \E p \in P : \E a \in Arcs :
           /\ a[1] = p.at /\ a[2] > start /\ a[2] \notin p.seen
           /\ r = [at |-> a[2], seen |-> p.seen \union {a[2]}, stages |-> p.stages + Weight(a[1], a[2])]
<1>1. PICK x \in {y \in P \X Arcs : y[2][1] = y[1].at /\ y[2][2] > start /\ y[2][2] \notin y[1].seen} :
        r = [at |-> x[2][2], seen |-> x[1].seen \union {x[2][2]},
             stages |-> x[1].stages + Weight(x[2][1], x[2][2])]
  BY DEF Longer
<1>2. x[1] \in P /\ x[2] \in Arcs
  OBVIOUS
<1> QED BY <1>1, <1>2

LEMMA WalksAreChains ==
  ASSUME Shape, Cardinality(Node) \in Nat, NEW start, NEW p \in Walks(start)
  PROVE  IsChain(p, start)
<1> DEFINE k == Cardinality(Node)
<1>1. PICK walks : AreWalks(walks, start, k) /\ Walks(start) = walks[k]
  BY WalksAre
<1> DEFINE T == {j \in 0..k : \E q \in walks[j] : ~IsChain(q, start)}
<1> HIDE DEF k
<1>k. k \in Nat
  BY DEF k
<1>2. T = {}
  <2> SUFFICES ASSUME T # {} PROVE FALSE
    OBVIOUS
  <2>1. PICK j \in T : \A i \in T : j <= i
    BY LeastNat, <1>k, T \in SUBSET Nat
  <2>2. PICK q \in walks[j] : ~IsChain(q, start)
    BY <2>1
  <2>3. walks[j] = IF j = 0 THEN {[at |-> start, seen |-> {start}, stages |-> 0]}
                   ELSE Longer(start, walks[j - 1])
    BY <1>1, <1>k DEF AreWalks
  <2>4. j # 0
    BY <2>2, <2>3, ChainStart
  <2>5. j - 1 \in 0..k /\ j - 1 \notin T
    BY <2>1, <2>4, <1>k
  <2>6. \A r \in walks[j - 1] : IsChain(r, start)
    BY <2>5
  <2>7. q \in Longer(start, walks[j - 1]) /\ q \notin walks[j - 1]
    BY <2>2, <2>3, <2>4, <2>6
  <2>8. PICK r \in walks[j - 1] : \E a \in Arcs :
          /\ a[1] = r.at /\ a[2] > start /\ a[2] \notin r.seen
          /\ q = [at |-> a[2], seen |-> r.seen \union {a[2]}, stages |-> r.stages + Weight(a[1], a[2])]
    BY <2>7, LongerWalk
  <2>9. PICK a \in Arcs :
          /\ a[1] = r.at /\ a[2] > start /\ a[2] \notin r.seen
          /\ q = [at |-> a[2], seen |-> r.seen \union {a[2]}, stages |-> r.stages + Weight(a[1], a[2])]
    BY <2>8
  <2>10. PICK c \in Edge : graph[c] = <<r.at, a[2]>>
    BY <2>9, ArcIsChannel
  <2>11. IsChain([at |-> a[2], seen |-> r.seen \union {a[2]}, stages |-> r.stages + Weight(r.at, a[2])], start)
    BY <2>6, <2>9, <2>10, ChainGrows
  <2> QED BY <2>2, <2>9, <2>11
<1> QED BY <1>1, <1>2, <1>k

-----------------------------------------------------------------------------
(* From cycles to walks.                                                   *)

LEMMA CycleOnce ==
  ASSUME Shape, NEW C \in rings
  PROVE  /\ \A e, f \in C : Producer(e) = Producer(f) => e = f
         /\ \A e \in C : \E f \in C : Consumer(f) = Producer(e)
         /\ \A e \in C : \E f \in C : Producer(f) = Consumer(e)
         /\ \A e \in C : graph[e] = <<Producer(e), Consumer(e)>> /\ graph[e] \in Arcs
<1>1. C \in SUBSET Edge /\ Endless(C) /\ \A D \in SUBSET Edge : Endless(D) /\ D \subseteq C => D = C
  BY DEF Shape, SimpleCycles
<1>2. ASSUME NEW e \in C, NEW f \in C, Producer(e) = Producer(f), e # f
      PROVE  FALSE
  <2> DEFINE D == C \ {f}
  <2>1. e \in D
    BY <1>2
  <2>2. \A g \in D : \E h \in D : Producer(h) = Consumer(g)
    BY <1>1, <1>2 DEF Endless
  <2>3. Endless(D)
    BY <2>1, <2>2 DEF Endless
  <2>4. D \in SUBSET Edge /\ D \subseteq C /\ D # C
    BY <1>1
  <2> HIDE DEF D
  <2> QED BY <2>3, <2>4, <1>1
<1>3. ASSUME NEW e \in C, \A f \in C : Consumer(f) # Producer(e)
      PROVE  FALSE
  <2> DEFINE D == C \ {e}
  <2>1. PICK h \in C : Producer(h) = Consumer(e)
    BY <1>1 DEF Endless
  <2>2. h \in D
    BY <2>1, <1>3
  <2>3. \A g \in D : \E d \in D : Producer(d) = Consumer(g)
    BY <1>1, <1>3 DEF Endless
  <2>4. Endless(D)
    BY <2>2, <2>3 DEF Endless
  <2>5. D \in SUBSET Edge /\ D \subseteq C /\ D # C
    BY <1>1
  <2> HIDE DEF D
  <2> QED BY <2>4, <2>5, <1>1
<1>4. ASSUME NEW e \in C
      PROVE  graph[e] = <<Producer(e), Consumer(e)>> /\ graph[e] \in Arcs
  <2>1. graph[e] \in Node \X Node
    BY <1>1 DEF Shape, TypeOK
  <2>2. PICK c \in Components(Edge) : e \in c
    BY CycleInside, Edge \in SUBSET Edge, <1>1 DEF Shape
  <2> QED BY <2>1, <2>2 DEF Producer, Consumer, Arcs
<1> QED BY <1>1, <1>2, <1>3, <1>4 DEF Endless

\* p has followed the cycle C for j channels, B, from start.
Along(p, B, C, start, j) ==
  /\ B \subseteq C
  /\ start \in p.seen /\ p.at \in p.seen
  /\ \A n \in p.seen : \E e \in C : Producer(e) = n
  /\ IsFiniteSet(p.seen) /\ Cardinality(p.seen) = j + 1
  /\ \A e \in B : Producer(e) \in p.seen \ {p.at} /\ Consumer(e) \in p.seen \ {start}
  /\ \A n \in p.seen \ {p.at} : \E e \in B : Producer(e) = n
  /\ p.stages \in Nat /\ Stages(B) <= p.stages

\* An arc closes p, and the whole is no lighter than C.
Closes(p, C, start) == <<p.at, start>> \in Arcs /\ Stages(C) <= p.stages + Weight(p.at, start)

LEMMA AlongStart ==
  ASSUME Shape, NEW C \in rings, NEW c \in C
  PROVE  Along([at |-> Producer(c), seen |-> {Producer(c)}, stages |-> 0], {}, C, Producer(c), 0)
<1>1. Stages({}) = 0
  <2>1. On(depth, {}) = {}
    BY DEF On
  <2> QED BY <2>1, FS_EmptySet DEF Stages, StagesOn, On
<1>2. IsFiniteSet({Producer(c)}) /\ Cardinality({Producer(c)}) = 1
  BY FS_Singleton
<1> QED BY <1>1, <1>2 DEF Along

LEMMA AlongStep ==
  ASSUME Numbered, NEW C \in rings, NEW start \in Nat, \A e \in C : start <= Producer(e),
         NEW P, NEW p \in P, NEW B, NEW j \in Nat, Along(p, B, C, start, j), ~Closes(p, C, start)
  PROVE  \E r \in Longer(start, P) : \E A : Along(r, A, C, start, j + 1)
<1>s. Shape
  BY DEF Numbered
<1>c. C \in SUBSET Edge /\ Endless(C) /\ \A D \in SUBSET Edge : Endless(D) /\ D \subseteq C => D = C
  BY <1>s DEF Shape, SimpleCycles
<1>1. PICK g \in C : Producer(g) = p.at
  BY DEF Along
<1> DEFINE q == Consumer(g)
           A == B \union {g}
<1>2. graph[g] = <<p.at, q>> /\ graph[g] \in Arcs /\ g \in Edge
  BY <1>1, <1>s, <1>c, CycleOnce
<1>3. Weight(p.at, q) \in Nat /\ depth[g] <= Weight(p.at, q) /\ depth[g] \in Nat
  BY <1>2, <1>s, WeightOf, DepthNat
<1>4. g \notin B /\ B \in SUBSET Edge /\ A \subseteq C
  BY <1>1, <1>c DEF Along
<1>5. Stages(A) = Stages(B) + depth[g] /\ Stages(B) \in Nat
  <2>1. Stages(A) = Stages(B) + depth[g]
    BY <1>2, <1>4, <1>s, OneMore
  <2> QED BY <2>1, <1>4, <1>s, SubStages
<1>6. q \notin p.seen
  <2> SUFFICES ASSUME q \in p.seen PROVE FALSE
    OBVIOUS
  <2>1. \A e \in A : \E f \in A : Producer(f) = Consumer(e)
    BY <1>1 DEF Along
  <2>2. Endless(A)
    BY <2>1 DEF Endless
  <2>3. A = C
    <3>1. A \in SUBSET Edge
      BY <1>4, <1>c
    <3> HIDE DEF A
    <3> QED BY <1>c, <1>4, <2>2, <3>1
  <2>4. PICK e \in C : Producer(e) = start
    BY DEF Along
  <2>5. PICK f \in C : Consumer(f) = start
    BY <2>4, <1>s, CycleOnce
  <2>6. f = g
    BY <2>3, <2>5 DEF Along
  <2>7. Stages(C) <= p.stages + Weight(p.at, q)
    <3>1. Stages(C) = Stages(B) + depth[g]
      BY <2>3, <1>5
    <3>2. p.stages \in Nat /\ Stages(B) <= p.stages
      BY DEF Along
    <3> HIDE DEF q, A
    <3> QED BY <3>1, <3>2, <1>3, <1>5
  <2> QED BY <2>5, <2>6, <2>7, <1>2 DEF Closes
<1>7. \E e \in C : Producer(e) = q
  BY <1>1, <1>s, CycleOnce
<1>8. q > start
  <2>1. start <= q /\ q # start
    BY <1>7, <1>6 DEF Along
  <2>2. q \in Nat
    BY <1>2, EndsAreNodes DEF Numbered
  <2> QED BY <2>1, <2>2
<1> DEFINE r == [at |-> q, seen |-> p.seen \union {q}, stages |-> p.stages + Weight(p.at, q)]
<1>9. r \in Longer(start, P)
  <2> DEFINE x == <<p, graph[g]>>
  <2>1. x \in P \X Arcs /\ x[1] = p /\ x[2][1] = p.at /\ x[2][2] = q
    BY <1>2
  <2> HIDE DEF x, q
  <2> QED BY <2>1, <1>6, <1>8 DEF Longer
<1>10. r.at = q /\ r.seen = p.seen \union {q} /\ r.stages = p.stages + Weight(p.at, q)
  OBVIOUS
<1> HIDE DEF r
<1>11. IsFiniteSet(r.seen) /\ Cardinality(r.seen) = (j + 1) + 1
  <2>1. IsFiniteSet(p.seen) /\ Cardinality(p.seen) = j + 1
    BY DEF Along
  <2> HIDE DEF q
  <2>2. /\ IsFiniteSet(p.seen \union {q})
        /\ Cardinality(p.seen \union {q}) = Cardinality(p.seen) + 1
    BY <2>1, <1>6, FS_AddElement
  <2> QED BY <2>1, <2>2, <1>10
<1>12. r.stages \in Nat /\ Stages(A) <= r.stages
  BY <1>3, <1>5, <1>10 DEF Along
<1>13. \A e \in A : Producer(e) \in r.seen \ {r.at} /\ Consumer(e) \in r.seen \ {start}
  BY <1>1, <1>6, <1>8, <1>10 DEF Along
<1>14. \A n \in r.seen \ {r.at} : \E e \in A : Producer(e) = n
  BY <1>1, <1>10 DEF Along
<1>15. Along(r, A, C, start, j + 1)
  BY <1>4, <1>7, <1>10, <1>11, <1>12, <1>13, <1>14 DEF Along
<1> QED BY <1>9, <1>15

LEMMA NodeFinite ==
  ASSUME Shape
  PROVE  IsFiniteSet(Node) /\ Cardinality(Node) \in Nat
<1> DEFINE f == [e \in Edge |-> Producer(e)]
           g == [e \in Edge |-> Consumer(e)]
           A == {f[e] : e \in Edge}
           B == {g[e] : e \in Edge}
<1>1. f \in Surjection(Edge, A) /\ g \in Surjection(Edge, B) /\ IsFiniteSet(Edge)
  BY DEF Surjection, Shape
<1>2. IsFiniteSet(A) /\ IsFiniteSet(B)
  BY <1>1, FS_Surjection
<1>3. Node \in SUBSET (A \union B)
  BY DEF Node, Producer, Consumer
<1> HIDE DEF A, B
<1> QED BY <1>2, <1>3, FS_Union, FS_Subset, FS_CardinalityType

LEMMA CycleIsWalked ==
  ASSUME Numbered, NEW C \in rings
  PROVE  \E start \in Node : \E p \in Walks(start) : Closes(p, C, start)
<1>s. Shape /\ Cardinality(Node) \in Nat /\ IsFiniteSet(Node)
  BY NodeFinite DEF Numbered
<1> DEFINE T == {Producer(e) : e \in C}
<1>1. T \in SUBSET Nat /\ T # {} /\ T \subseteq Node
  BY <1>s, RingFinite, EndsAreNodes DEF Numbered
<1>2. PICK start \in T : \A n \in T : start <= n
  <2> HIDE DEF T
  <2> QED BY <1>1, LeastNat
<1>3. PICK c \in C : Producer(c) = start
  OBVIOUS
<1>4. start \in Nat /\ start \in Node /\ \A e \in C : start <= Producer(e)
  BY <1>1, <1>2
<1> HIDE DEF T
<1> DEFINE k == Cardinality(Node)
<1>5. PICK walks : AreWalks(walks, start, k) /\ Walks(start) = walks[k]
  BY <1>s, WalksAre
<1> HIDE DEF k
<1>k. k \in Nat
  BY <1>s DEF k
<1> DEFINE Q(j) == \/ \E p \in walks[j] : Closes(p, C, start)
                   \/ \E p \in walks[j] : \E B : Along(p, B, C, start, j)
           Z == {j \in 0..k : ~Q(j)}
<1>6. Z = {}
  <2> SUFFICES ASSUME Z # {} PROVE FALSE
    OBVIOUS
  <2>1. PICK j \in Z : \A i \in Z : j <= i
    BY LeastNat, <1>k, Z \in SUBSET Nat
  <2>2. walks[j] = IF j = 0 THEN {[at |-> start, seen |-> {start}, stages |-> 0]}
                   ELSE Longer(start, walks[j - 1])
    BY <1>5, <1>k DEF AreWalks
  <2>3. CASE j = 0
    BY <2>1, <2>2, <2>3, <1>s, <1>3, AlongStart
  <2>4. CASE j # 0
    <3>1. j - 1 \in 0..k /\ j - 1 \notin Z
      BY <2>1, <2>4, <1>k
    <3>2. Q(j - 1)
      BY <3>1
    <3>3. walks[j - 1] \subseteq walks[j]
      BY <2>2, <2>4 DEF Longer
    <3>4. ~Q(j)
      BY <2>1
    <3>5. PICK p \in walks[j - 1] : \E B : Along(p, B, C, start, j - 1)
      BY <3>2, <3>3, <3>4
    <3>6. PICK B : Along(p, B, C, start, j - 1)
      BY <3>5
    <3>7. ~Closes(p, C, start)
      BY <3>3, <3>4
    <3>8. \E r \in Longer(start, walks[j - 1]) : \E A : Along(r, A, C, start, (j - 1) + 1)
      BY <3>1, <3>6, <3>7, <1>4, AlongStep
    <3> QED BY <3>8, <3>4, <2>2, <2>4, (j - 1) + 1 = j
  <2> QED BY <2>3, <2>4
<1>7. Q(k)
  BY <1>6, <1>k
<1>8. ASSUME NEW p \in walks[k], NEW B, Along(p, B, C, start, k)
      PROVE  FALSE
  <2>1. p.seen \in SUBSET Node
    BY <1>8, <1>s, RingFinite, EndsAreNodes DEF Along
  <2>2. Cardinality(p.seen) <= k
    BY <2>1, <1>s, FS_Subset DEF k
  <2> QED BY <2>2, <1>8, <1>k DEF Along
<1> QED BY <1>4, <1>5, <1>7, <1>8

LEMMA HeaviestHolds ==
  ASSUME Numbered
  PROVE  HeaviestExact
<1> DEFINE V(start) == {p.stages + Weight(p.at, start) :
                          p \in {q \in Walks(start) : <<q.at, start>> \in Arcs}}
           U == UNION {V(start) : start \in Node}
           S == {0} \union U
           T == {0} \union {Stages(C) : C \in rings}
<1>s. Shape /\ Cardinality(Node) \in Nat
  BY NodeFinite DEF Numbered
<1>1. T \in SUBSET Nat /\ T # {}
  BY <1>s, StagesNat
<1>2. Stages(Edge) \in Nat /\ \A x \in T : x <= Stages(Edge)
  <2>1. Stages(Edge) \in Nat
    BY <1>s, SubStages, Edge \in SUBSET Edge
  <2>2. ASSUME NEW C \in rings
        PROVE  Stages(C) <= Stages(Edge)
    BY <1>s, RingFinite, SubStages, Edge \in SUBSET Edge
  <2> QED BY <2>1, <2>2
<1>3. ASSUME NEW start \in Node, NEW p \in Walks(start), <<p.at, start>> \in Arcs
      PROVE  \E C \in rings : p.stages + Weight(p.at, start) = Stages(C)
  <2>1. IsChain(p, start)
    BY <1>s, WalksAreChains
  <2>2. PICK c \in Edge : graph[c] = <<p.at, start>>
    BY <1>3, <1>s, ArcIsChannel
  <2> QED BY <2>1, <2>2, <1>s, ChainCloses
<1>4. S \subseteq T
  <2>1. ASSUME NEW start \in Node, NEW x \in V(start)
        PROVE  x \in T
    BY <1>3
  <2> HIDE DEF V
  <2>2. U \subseteq T
    BY <2>1
  <2> QED BY <2>2
<1>5. \A x \in T : \E y \in S : x <= y
  <2>1. ASSUME NEW C \in rings
        PROVE  \E y \in S : Stages(C) <= y
    <3>1. PICK start \in Node : \E p \in Walks(start) : Closes(p, C, start)
      BY CycleIsWalked
    <3>2. PICK p \in Walks(start) : Closes(p, C, start)
      BY <3>1
    <3>3. p.stages + Weight(p.at, start) \in S
      BY <3>2 DEF Closes
    <3> QED BY <3>2, <3>3 DEF Closes
  <2>2. 0 \in S /\ 0 <= 0
    <3> HIDE DEF U
    <3> QED OBVIOUS
  <2> HIDE DEF S
  <2> QED BY <2>1, <2>2
<1>6. HeaviestRing = Sets!Max(S)
  BY DEF HeaviestRing
<1> HIDE DEF S
<1>7. Sets!Max(S) = Sets!Max(T)
  <2> HIDE DEF T
  <2> QED BY <1>1, <1>2, <1>4, <1>5, SameMax
<1> QED BY <1>6, <1>7 DEF HeaviestExact

(* Both reports say what is so: a cycle without storage is found exactly   *)
(* when there is one, and the ring a kernel's time is divided by is its    *)
(* heaviest, on every graph of every size.                                 *)
THEOREM ReportsCorrect == Spec => []ReportsExact
<1> DEFINE Inv == IInv /\ Node \subseteq Nat
<1>1. Init => Inv
  <2> SUFFICES ASSUME Init PROVE Inv
    OBVIOUS
  <2>1. graph \in [1..EdgeCount -> (1..NodeCount) \X (1..NodeCount)] /\ NodeCount \in Nat
    BY GraphAssumption DEF Init
  <2>2. Node \subseteq 1..NodeCount
    BY <2>1 DEF Node, Edge
  <2> QED BY <2>1, <2>2, InitBegin, BeginInv
<1>2. Inv /\ [Next]_vars => Inv'
  <2> SUFFICES ASSUME Inv, [Next]_vars PROVE Inv'
    OBVIOUS
  <2>1. UNCHANGED input
    BY DEF Next, Cut, CutDone, Deepen, DeepenStop, vars
  <2> QED BY <2>1, Step, SameGraph
<1>3. Inv => ReportsExact
  BY VerdictHolds, HeaviestHolds DEF IInv, Shape, Numbered, ReportsExact
<1> QED BY <1>1, <1>2, <1>3, PTL DEF Spec
=============================================================================
