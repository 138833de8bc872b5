---------------------------- MODULE DelayProofs ----------------------------
(***************************************************************************)
(* The matched delays.  For every routed netlist: tighten.py's walks find  *)
(* the first and the last arrival exactly where storage cuts every cycle,  *)
(* its storage check leaves no other cycle, and what its rules pass is     *)
(* late enough whichever way the signals take.  The designs of MCTiming    *)
(* are such netlists, with lines and delays of any length.  And for any    *)
(* number of lines of any length: what resize.sh ends with has been routed *)
(* and passed, and is a local minimum.                                     *)
(***************************************************************************)
EXTENDS MCTiming, Resize, FiniteSetTheorems, TLAPS
-----------------------------------------------------------------------------
(* Least members, and finite sets.                                         *)

LEMMA LeastNat ==
  ASSUME NEW T \in SUBSET Nat, T # {}
  PROVE  \E x \in T : \A y \in T : x <= y
<1>1. IsWellFoundedOn(OpToRel(<, Nat), Nat)
  BY NatLessThanWellFounded
<1>2. \E x \in T : \A y \in T : <<y, x>> \notin OpToRel(<, Nat)
  BY <1>1, WFMin
<1>3. \A x, y \in Nat : <<y, x>> \notin OpToRel(<, Nat) => x <= y
  BY DEF OpToRel
<1> QED BY <1>2, <1>3

LEMMA FiniteImage ==
  ASSUME NEW S, IsFiniteSet(S), NEW T, NEW f \in [S -> T]
  PROVE  IsFiniteSet({f[x] : x \in S})
<1> DEFINE R == {f[x] : x \in S}
<1>1. f \in [S -> R] /\ \A y \in R : \E x \in S : f[x] = y
  OBVIOUS
<1>2. f \in Surjection(S, R)
  BY <1>1 DEF Surjection
<1> HIDE DEF R
<1>3. IsFiniteSet(R)
  BY <1>2, FS_Surjection
<1> QED BY <1>3 DEF R

\* Of finitely many things with a number each, one with the least.
LEMMA LeastOf ==
  ASSUME NEW S, IsFiniteSet(S), S # {}, NEW f \in [S -> Int]
  PROVE  \E x \in S : \A y \in S : f[x] <= f[y]
<1> DEFINE Up(x) == {y \in S : f[x] <= f[y]}
           T == {n \in Nat : \E x \in S : Cardinality(S \ Up(x)) = n}
<1>1. \A x \in S : IsFiniteSet(S \ Up(x)) /\ Cardinality(S \ Up(x)) \in Nat
  <2> SUFFICES ASSUME NEW x \in S
               PROVE  IsFiniteSet(S \ Up(x)) /\ Cardinality(S \ Up(x)) \in Nat
    OBVIOUS
  <2>1. (S \ Up(x)) \in SUBSET S
    OBVIOUS
  <2> HIDE DEF Up
  <2> QED BY <2>1, FS_Subset, FS_CardinalityType
<1> HIDE DEF Up
<1>2. T \in SUBSET Nat /\ T # {}
  BY <1>1
<1>3. PICK n \in T : \A m \in T : n <= m
  <2> HIDE DEF T
  <2> QED BY <1>2, LeastNat
<1>4. PICK x \in S : Cardinality(S \ Up(x)) = n
  OBVIOUS
<1>5. ASSUME NEW y \in S, ~(f[x] <= f[y]) PROVE FALSE
  <2>1. (S \ Up(y)) \in SUBSET (S \ Up(x))
    <3>1. \A z \in S : f[x] <= f[z] => f[y] <= f[z]
      BY <1>5
    <3> QED BY <3>1 DEF Up
  <2>2. y \in S \ Up(x) /\ y \notin S \ Up(y)
    BY <1>5 DEF Up
  <2>3. /\ Cardinality(S \ Up(y)) <= Cardinality(S \ Up(x))
        /\ Cardinality(S \ Up(x)) = Cardinality(S \ Up(y)) => (S \ Up(x)) = (S \ Up(y))
    BY <1>1, <2>1, FS_Subset
  <2>4. Cardinality(S \ Up(y)) < n
    BY <2>2, <2>3, <1>4, <1>1
  <2>5. Cardinality(S \ Up(y)) \in T
    BY <1>1
  <2>6. n \in Nat /\ Cardinality(S \ Up(y)) \in Nat
    BY <1>1, <1>4
  <2>7. n <= Cardinality(S \ Up(y))
    BY <2>5, <1>3
  <2> HIDE DEF T
  <2> QED BY <2>4, <2>6, <2>7
<1> QED BY <1>4, <1>5

LEMMA LeastInt ==
  ASSUME NEW S \in SUBSET Int, IsFiniteSet(S), S # {}
  PROVE  /\ Sets!Min(S) \in S /\ \A x \in S : Sets!Min(S) <= x
         /\ Sets!Max(S) \in S /\ \A x \in S : x <= Sets!Max(S)
<1>1. \E x \in S : \A y \in S : x <= y
  <2>1. [z \in S |-> z] \in [S -> Int]
    OBVIOUS
  <2>2. \E x \in S : \A y \in S : [z \in S |-> z][x] <= [z \in S |-> z][y]
    BY <2>1, LeastOf
  <2> QED BY <2>2
<1>2. \E x \in S : \A y \in S : x >= y
  <2>1. [z \in S |-> -z] \in [S -> Int]
    OBVIOUS
  <2>2. \E x \in S : \A y \in S : [z \in S |-> -z][x] <= [z \in S |-> -z][y]
    BY <2>1, LeastOf
  <2>3. PICK x \in S : \A y \in S : -x <= -y
    BY <2>2
  <2> QED BY <2>3
<1>3. Sets!Min(S) \in S /\ \A x \in S : Sets!Min(S) <= x
  BY <1>1 DEF Sets!Min
<1>4. Sets!Max(S) \in S /\ \A x \in S : Sets!Max(S) >= x
  BY <1>2 DEF Sets!Max
<1>5. \A x \in S : x <= Sets!Max(S)
  BY <1>4
<1> QED BY <1>3, <1>4, <1>5

-----------------------------------------------------------------------------
(* What OnCycle computes: every pin of a cycle is found.                   *)

\* grown, as Grown defines it, where pins lead on along the arcs F.
GrownAlong(grown, F, S, k) ==
  grown = [i \in 0..k |->
             IF i = 0 THEN {<<S, S>>}
             ELSE UNION {{<<{x : x \in p[1] \union T}, {x : x \in T \ p[1]}>> :
                            T \in {{x : x \in Along(F, p[2])}}} : p \in grown[i-1]}]

LEMMA GrownExists ==
  ASSUME NEW F, NEW S, NEW k \in Nat
  PROVE  \E grown : GrownAlong(grown, F, S, k)
<1> DEFINE Then(G) == UNION {{<<{x : x \in p[1] \union T}, {x : x \in T \ p[1]}>> :
                                T \in {{x : x \in Along(F, p[2])}}} : p \in G}
           Is(g, j) == g = [i \in 0..j |-> IF i = 0 THEN {<<S, S>>} ELSE Then(g[i-1])]
           T0 == {j \in Nat : ~ \E g : Is(g, j)}
<1>a. \A g : Is(g, k) => GrownAlong(g, F, S, k)
  BY DEF GrownAlong
<1> HIDE DEF Then
<1>b. ASSUME T0 = {} PROVE \E g : Is(g, k)
  <2>1. k \notin T0
    BY <1>b
  <2> HIDE DEF Is
  <2> QED BY <2>1
<1> SUFFICES ASSUME T0 # {} PROVE FALSE
  <2> HIDE DEF Is, T0
  <2> QED BY <1>a, <1>b
<1>0. T0 \in SUBSET Nat
  OBVIOUS
<1>1. PICK j \in T0 : \A i \in T0 : j <= i
  <2> HIDE DEF T0
  <2> QED BY <1>0, LeastNat
<1>2. CASE j = 0
  <2>1. Is([i \in 0..0 |-> {<<S, S>>}], 0)
    OBVIOUS
  <2> QED BY <1>2, <2>1
<1>3. CASE j # 0
  <2>1. j - 1 \in Nat /\ j - 1 \notin T0
    <3> HIDE DEF T0
    <3>1. j \in Nat /\ ~(j <= j - 1)
      BY <1>0, <1>1
    <3> QED BY <3>1, <1>1, <1>3
  <2>2. PICK f : Is(f, j - 1)
    BY <2>1
  <2> DEFINE g == [i \in 0..j |-> IF i < j THEN f[i] ELSE Then(f[j - 1])]
  <2>3. \A i \in 0..j : g[i] = IF i = 0 THEN {<<S, S>>} ELSE Then(g[i - 1])
    <3> SUFFICES ASSUME NEW i \in 0..j
                 PROVE  g[i] = IF i = 0 THEN {<<S, S>>} ELSE Then(g[i - 1])
      OBVIOUS
    <3>1. \A x \in 0..j-1 : f[x] = IF x = 0 THEN {<<S, S>>} ELSE Then(f[x - 1])
      BY <2>2
    <3>2. CASE i = 0
      BY <3>1, <3>2, <1>3, <2>1
    <3>3. CASE i # 0 /\ i < j
      <4>1. i \in 0..j-1 /\ i - 1 \in 0..j /\ i - 1 < j
        BY <3>3, <2>1
      <4>2. g[i] = f[i] /\ g[i - 1] = f[i - 1]
        BY <4>1, <3>3
      <4> QED BY <4>1, <4>2, <3>1, <3>3
    <3>4. CASE i = j
      <4>1. j - 1 \in 0..j /\ j - 1 < j /\ j \in 0..j /\ ~(j < j)
        BY <2>1
      <4>2. g[j] = Then(f[j - 1]) /\ g[j - 1] = f[j - 1]
        BY <4>1
      <4> QED BY <4>2, <3>4, <1>3
    <3> QED BY <3>2, <3>3, <3>4
  <2>4. Is(g, j)
    <3> HIDE DEF g
    <3>1. g = [i \in 0..j |-> g[i]]
      BY DEF g
    <3> QED BY <3>1, <2>3
  <2> QED BY <2>4, <1>1
<1> QED BY <1>2, <1>3

\* One step, of everything so far and what is new.
LEMMA GrownStep ==
  ASSUME NEW F, NEW A, NEW N
  PROVE  UNION {{<<{x : x \in p[1] \union T}, {x : x \in T \ p[1]}>> :
                   T \in {{x : x \in Along(F, p[2])}}} : p \in {<<A, N>>}}
           = {<<A \union Along(F, N), Along(F, N) \ A>>}
<1>1. {x : x \in Along(F, N)} = Along(F, N)
  OBVIOUS
<1>2. {x : x \in A \union Along(F, N)} = A \union Along(F, N)
  OBVIOUS
<1>3. {x : x \in Along(F, N) \ A} = Along(F, N) \ A
  OBVIOUS
<1> DEFINE Made(p) == {<<{x : x \in p[1] \union T}, {x : x \in T \ p[1]}>> :
                        T \in {{x : x \in Along(F, p[2])}}}
<1>4. Made(<<A, N>>) = {<<{x : x \in A \union T}, {x : x \in T \ A}>> : T \in {Along(F, N)}}
  BY <1>1
<1>5. Made(<<A, N>>) = {<<A \union Along(F, N), Along(F, N) \ A>>}
  BY <1>4, <1>2, <1>3
<1> HIDE DEF Made
<1>6. UNION {Made(p) : p \in {<<A, N>>}} = Made(<<A, N>>)
  OBVIOUS
<1> QED BY <1>5, <1>6 DEF Made

LEMMA AlongIn ==
  ASSUME NEW F, NEW P, NEW q
  PROVE  q \in Along(F, P) <=> \E e \in F : e[1] \in P /\ e[2] = q
BY DEF Along

\* What has been reached after i steps: A, of it N in the last one.
Reached(F, S, A, N, i) ==
  /\ S \subseteq A /\ N \subseteq A
  /\ A \subseteq S \union {e[2] : e \in F}
  /\ \A e \in F : e[1] \in A /\ e[1] \notin N => e[2] \in A
  /\ N # {} => Cardinality({e \in F : e[2] \in A}) >= i + 1

LEMMA ReachedStep ==
  ASSUME NEW F, IsFiniteSet(F), NEW S, NEW A, NEW N, NEW i \in Nat, Reached(F, S, A, N, i)
  PROVE  Reached(F, S, A \union Along(F, N), Along(F, N) \ A, i + 1)
<1> DEFINE B == A \union Along(F, N)
           M == Along(F, N) \ A
           U(X) == {e \in F : e[2] \in X}
<1>1. /\ S \subseteq B /\ M \subseteq B
      /\ B \subseteq S \union {e[2] : e \in F}
  BY AlongIn DEF Reached
<1>2. \A e \in F : e[1] \in B /\ e[1] \notin M => e[2] \in B
  BY AlongIn DEF Reached
<1>3. ASSUME M # {} PROVE Cardinality(U(B)) >= i + 2
  <2>1. PICK q \in M : TRUE
    BY <1>3
  <2>2. PICK e \in F : e[1] \in N /\ e[2] = q
    BY <2>1, AlongIn
  <2>3. Cardinality(U(A)) >= i + 1
    BY <2>2 DEF Reached
  <2>4. e \in U(B) /\ e \notin U(A) /\ U(A) \in SUBSET U(B)
    BY <2>1, <2>2
  <2>5. U(B) \in SUBSET F /\ U(A) \in SUBSET F
    OBVIOUS
  <2> HIDE DEF U, B, M
  <2>6. IsFiniteSet(U(B)) /\ IsFiniteSet(U(A)) /\ Cardinality(U(A)) \in Nat /\ Cardinality(U(B)) \in Nat
    BY <2>5, FS_Subset, FS_CardinalityType
  <2>7. Cardinality(U(A)) <= Cardinality(U(B)) /\ Cardinality(U(A)) # Cardinality(U(B))
    BY <2>4, <2>6, FS_Subset
  <2> QED BY <2>3, <2>6, <2>7
<1> HIDE DEF B, M
<1>4. Reached(F, S, B, M, i + 1)
  <2>1. M # {} => Cardinality({e \in F : e[2] \in B}) >= (i + 1) + 1
    BY <1>3
  <2> HIDE DEF U
  <2> QED BY <1>1, <1>2, <2>1 DEF Reached
<1> QED BY <1>4 DEF B, M

\* Grown from what F leads to is closed under F.
LEMMA GrownCloses ==
  ASSUME NEW F, IsFiniteSet(F), NEW S \in SUBSET {e[2] : e \in F},
         NEW grown, GrownAlong(grown, F, S, Cardinality(F))
  PROVE  LET R == UNION {p[1] : p \in grown[Cardinality(F)]}
         IN  S \subseteq R /\ \A e \in F : e[1] \in R => e[2] \in R
<1> DEFINE k == Cardinality(F)
           Good(j) == \E A, N : grown[j] = {<<A, N>>} /\ Reached(F, S, A, N, j)
           T0 == {j \in 0..k : ~Good(j)}
<1>k. k \in Nat
  BY FS_CardinalityType
<1>1. Good(0)
  <2>1. grown[0] = {<<S, S>>}
    BY <1>k DEF GrownAlong
  <2>2. ASSUME S # {} PROVE Cardinality({e \in F : e[2] \in S}) >= 1
    <3> DEFINE U == {e \in F : e[2] \in S}
    <3>1. U # {} /\ U \in SUBSET F
      BY <2>2
    <3> HIDE DEF U
    <3>2. IsFiniteSet(U) /\ Cardinality(U) \in Nat /\ Cardinality(U) # 0
      BY <3>1, FS_Subset, FS_CardinalityType, FS_EmptySet
    <3> QED BY <3>2 DEF U
  <2>3. Reached(F, S, S, S, 0)
    BY <2>2 DEF Reached
  <2> QED BY <2>1, <2>3
<1>2. ASSUME NEW j \in 0..k, j # 0, Good(j - 1) PROVE Good(j)
  <2>1. PICK A, N : grown[j - 1] = {<<A, N>>} /\ Reached(F, S, A, N, j - 1)
    BY <1>2
  <2>2. grown[j] = UNION {{<<{x : x \in p[1] \union T}, {x : x \in T \ p[1]}>> :
                            T \in {{x : x \in Along(F, p[2])}}} : p \in grown[j-1]}
    BY <1>2, <1>k DEF GrownAlong
  <2>3. grown[j] = {<<A \union Along(F, N), Along(F, N) \ A>>}
    BY <2>1, <2>2, GrownStep
  <2>4. j - 1 \in Nat /\ (j - 1) + 1 = j
    BY <1>2, <1>k
  <2>5. Reached(F, S, A \union Along(F, N), Along(F, N) \ A, j)
    <3>1. Reached(F, S, A \union Along(F, N), Along(F, N) \ A, (j - 1) + 1)
      BY ONLY IsFiniteSet(F), <2>1, <2>4, ReachedStep
    <3> QED BY <3>1, <2>4
  <2> QED BY <2>3, <2>5
<1> HIDE DEF Good
<1>3. T0 = {}
  <2> SUFFICES ASSUME T0 # {} PROVE FALSE
    OBVIOUS
  <2>1. T0 \in SUBSET Nat
    BY <1>k
  <2>2. PICK j \in T0 : \A i \in T0 : j <= i
    <3> HIDE DEF T0
    <3> QED BY <2>1, LeastNat
  <2>3. j # 0 /\ j - 1 \in 0..k /\ j \in 0..k /\ ~(j <= j - 1)
    BY <1>1, <1>k
  <2>4. Good(j - 1)
    BY <2>2, <2>3
  <2> QED BY <1>2, <2>3, <2>4
<1>4. Good(k)
  BY <1>3, <1>k
<1>5. PICK A, N : grown[k] = {<<A, N>>} /\ Reached(F, S, A, N, k)
  BY <1>4 DEF Good
<1>6. N = {}
  <2> DEFINE U == {e \in F : e[2] \in A}
  <2>1. U \in SUBSET F
    OBVIOUS
  <2>2. N # {} => Cardinality(U) >= k + 1
    BY <1>5 DEF Reached
  <2> HIDE DEF U
  <2>3. Cardinality(U) <= k /\ Cardinality(U) \in Nat
    BY <2>1, FS_Subset, FS_CardinalityType
  <2> QED BY <2>2, <2>3, <1>k
<1>7. UNION {p[1] : p \in grown[k]} = A
  BY <1>5
<1> QED BY <1>5, <1>6, <1>7 DEF Reached

\* after, as Iterated defines it, when arcs that are not between two others go.
Narrowed(after, E, k) ==
  after = [i \in 0..k |-> IF i = 0 THEN {E} ELSE {Between(y) : y \in after[i-1]}]

LEMMA NarrowedExists ==
  ASSUME NEW E, NEW k \in Nat
  PROVE  \E after : Narrowed(after, E, k)
<1> DEFINE Then(G) == {Between(y) : y \in G}
           Is(g, j) == g = [i \in 0..j |-> IF i = 0 THEN {E} ELSE Then(g[i-1])]
           T0 == {j \in Nat : ~ \E g : Is(g, j)}
<1>a. \A g : Is(g, k) => Narrowed(g, E, k)
  BY DEF Narrowed
<1> HIDE DEF Then
<1>b. ASSUME T0 = {} PROVE \E g : Is(g, k)
  <2>1. k \notin T0
    BY <1>b
  <2> HIDE DEF Is
  <2> QED BY <2>1
<1> SUFFICES ASSUME T0 # {} PROVE FALSE
  <2> HIDE DEF Is, T0
  <2> QED BY <1>a, <1>b
<1>0. T0 \in SUBSET Nat
  OBVIOUS
<1>1. PICK j \in T0 : \A i \in T0 : j <= i
  <2> HIDE DEF T0
  <2> QED BY <1>0, LeastNat
<1>2. CASE j = 0
  <2>1. Is([i \in 0..0 |-> {E}], 0)
    OBVIOUS
  <2> QED BY <1>2, <2>1
<1>3. CASE j # 0
  <2>1. j - 1 \in Nat /\ j - 1 \notin T0
    <3> HIDE DEF T0
    <3>1. j \in Nat /\ ~(j <= j - 1)
      BY <1>0, <1>1
    <3> QED BY <3>1, <1>1, <1>3
  <2>2. PICK f : Is(f, j - 1)
    BY <2>1
  <2> DEFINE g == [i \in 0..j |-> IF i < j THEN f[i] ELSE Then(f[j - 1])]
  <2>3. \A i \in 0..j : g[i] = IF i = 0 THEN {E} ELSE Then(g[i - 1])
    <3> SUFFICES ASSUME NEW i \in 0..j
                 PROVE  g[i] = IF i = 0 THEN {E} ELSE Then(g[i - 1])
      OBVIOUS
    <3>1. \A x \in 0..j-1 : f[x] = IF x = 0 THEN {E} ELSE Then(f[x - 1])
      BY <2>2
    <3>2. CASE i = 0
      BY <3>1, <3>2, <1>3, <2>1
    <3>3. CASE i # 0 /\ i < j
      <4>1. i \in 0..j-1 /\ i - 1 \in 0..j /\ i - 1 < j
        BY <3>3, <2>1
      <4>2. g[i] = f[i] /\ g[i - 1] = f[i - 1]
        BY <4>1, <3>3
      <4> QED BY <4>1, <4>2, <3>1, <3>3
    <3>4. CASE i = j
      <4>1. j - 1 \in 0..j /\ j - 1 < j /\ j \in 0..j /\ ~(j < j)
        BY <2>1
      <4>2. g[j] = Then(f[j - 1]) /\ g[j - 1] = f[j - 1]
        BY <4>1
      <4> QED BY <4>2, <3>4, <1>3
    <3> QED BY <3>2, <3>3, <3>4
  <2>4. Is(g, j)
    <3> HIDE DEF g
    <3>1. g = [i \in 0..j |-> g[i]]
      BY DEF g
    <3> QED BY <3>1, <2>3
  <2> QED BY <2>4, <1>1
<1> QED BY <1>2, <1>3

\* Arcs each of which leads to another and comes from another are never left out.
CycleArcs(C) == \A a \in C : /\ \E b \in C : b[2] = a[1]
                             /\ \E b \in C : b[1] = a[2]

LEMMA BetweenKeeps ==
  ASSUME NEW C, CycleArcs(C), NEW G, C \subseteq G
  PROVE  C \subseteq Between(G) /\ Between(G) \subseteq G
BY DEF CycleArcs, Between

LEMMA CoreKeeps ==
  ASSUME NEW C, CycleArcs(C), NEW E, C \subseteq E, IsFiniteSet(E)
  PROVE  C \subseteq Iterated(Between, E, Cardinality(E)) /\ Iterated(Between, E, Cardinality(E)) \subseteq E
<1> DEFINE k == Cardinality(E)
           after == CHOOSE f : Narrowed(f, E, k)
           Good(j) == \E G : after[j] = {G} /\ C \subseteq G /\ G \subseteq E
           T0 == {j \in 0..k : ~Good(j)}
<1>k. k \in Nat
  BY FS_CardinalityType
<1>1. Narrowed(after, E, k)
  BY <1>k, NarrowedExists
<1>2. Iterated(Between, E, k) = CHOOSE y \in after[k] : TRUE
  BY DEF Iterated, Narrowed
<1> HIDE DEF after, k
<1>3. Good(0)
  BY <1>1, <1>k DEF Narrowed
<1>4. ASSUME NEW j \in 0..k, j # 0, Good(j - 1) PROVE Good(j)
  <2>1. PICK G : after[j - 1] = {G} /\ C \subseteq G /\ G \subseteq E
    BY <1>4
  <2>2. after[j] = {Between(y) : y \in after[j-1]}
    BY <1>1, <1>4, <1>k DEF Narrowed
  <2>3. after[j] = {Between(G)}
    BY <2>1, <2>2
  <2> QED BY <2>1, <2>3, BetweenKeeps
<1> HIDE DEF Good
<1>5. T0 = {}
  <2> SUFFICES ASSUME T0 # {} PROVE FALSE
    OBVIOUS
  <2>1. T0 \in SUBSET Nat
    BY <1>k
  <2>2. PICK j \in T0 : \A i \in T0 : j <= i
    <3> HIDE DEF T0
    <3> QED BY <2>1, LeastNat
  <2>3. j # 0 /\ j - 1 \in 0..k /\ j \in 0..k /\ ~(j <= j - 1)
    BY <1>3, <1>k
  <2>4. Good(j - 1)
    BY <2>2, <2>3
  <2> QED BY <1>4, <2>3, <2>4
<1>6. Good(k)
  BY <1>5, <1>k
<1>7. PICK G : after[k] = {G} /\ C \subseteq G /\ G \subseteq E
  BY <1>6 DEF Good
<1>8. Iterated(Between, E, k) = G
  BY <1>2, <1>7
<1> QED BY <1>7, <1>8 DEF k

\* r goes along arcs of E from where it is after i steps, to where it was.
Round(r, i, j, E) ==
  /\ i \in Nat /\ j \in Nat /\ i < j
  /\ r[i] = r[j]
  /\ \A m \in i+1..j : <<r[m-1], r[m]>> \in E

\* Every pin of a way round is on a cycle.
LEMMA RoundIsFound ==
  ASSUME NEW E, IsFiniteSet(E), NEW r, NEW i, NEW j, Round(r, i, j, E), NEW m \in i..j
  PROVE  r[m] \in OnCycle(E)
<1> DEFINE C == {<<r[n-1], r[n]>> : n \in i+1..j}
           core == Iterated(Between, E, Cardinality(E))
           grown == CHOOSE g : GrownAlong(g, core, Along(core, {r[m]}), Cardinality(core))
           R == UNION {p[1] : p \in grown[Cardinality(core)]}
<1>0. i \in Nat /\ j \in Nat /\ i < j /\ r[i] = r[j] /\ m \in Nat
  BY DEF Round
<1>1. C \subseteq E
  BY DEF Round
<1>2. \A n \in i..j-1 : <<r[n], r[n+1]>> \in C
  <2> SUFFICES ASSUME NEW n \in i..j-1 PROVE <<r[n], r[n+1]>> \in C
    OBVIOUS
  <2>1. n + 1 \in i+1..j /\ (n + 1) - 1 = n
    BY <1>0
  <2> QED BY <2>1
<1>3. CycleArcs(C)
  <2> DEFINE Pre(q) == \E b \in C : b[2] = q
             Suc(q) == \E b \in C : b[1] = q
  <2>1. ASSUME NEW n \in i+1..j PROVE Pre(r[n-1]) /\ Suc(r[n])
    <3>1. \E b \in C : b[2] = r[n-1]
      <4>1. CASE n = i + 1
        <5>1. j \in i+1..j /\ n - 1 = i
          BY <1>0, <4>1
        <5>2. <<r[j-1], r[j]>> \in C
          BY <5>1
        <5> HIDE DEF C
        <5> QED BY <5>1, <5>2, <1>0
      <4>2. CASE n # i + 1
        <5>1. n - 1 \in i+1..j
          BY <1>0, <4>2
        <5>2. <<r[(n-1)-1], r[n-1]>> \in C
          BY <5>1
        <5> HIDE DEF C
        <5> QED BY <5>2
      <4> QED BY <4>1, <4>2
    <3>2. \E b \in C : b[1] = r[n]
      <4>1. CASE n = j
        <5>1. <<r[i], r[i+1]>> \in C
          BY <1>0, <1>2
        <5> HIDE DEF C
        <5> QED BY <5>1, <4>1, <1>0
      <4>2. CASE n # j
        <5>1. n \in i..j-1
          BY <1>0, <4>2
        <5>2. <<r[n], r[n+1]>> \in C
          BY <5>1, <1>2
        <5> HIDE DEF C
        <5> QED BY <5>2
      <4> QED BY <4>1, <4>2
    <3> QED BY <3>1, <3>2
  <2>2. \A a \in C : Pre(a[1]) /\ Suc(a[2])
    <3> HIDE DEF Pre, Suc
    <3> QED BY <2>1
  <2> HIDE DEF C
  <2> QED BY <2>2 DEF CycleArcs
<1> HIDE DEF C
<1>4. C \subseteq core /\ core \subseteq E
  BY <1>1, <1>3, CoreKeeps
<1>5. IsFiniteSet(core)
  BY <1>4, FS_Subset
<1>c. Cardinality(core) \in Nat
  BY <1>5, FS_CardinalityType
<1>6. r[m] \in {a[1] : a \in core}
  <2>1. CASE m = j
    <3>1. <<r[i], r[i+1]>> \in core
      BY <1>0, <1>2, <1>4
    <3> HIDE DEF core
    <3> QED BY <3>1, <2>1, <1>0
  <2>2. CASE m # j
    <3>1. m \in i..j-1
      BY <1>0, <2>2
    <3>2. <<r[m], r[m+1]>> \in core
      BY <3>1, <1>2, <1>4
    <3> HIDE DEF core
    <3> QED BY <3>2
  <2> QED BY <2>1, <2>2
<1>7. GrownAlong(grown, core, Along(core, {r[m]}), Cardinality(core))
  <2> HIDE DEF core
  <2> QED BY <1>c, GrownExists
<1>8. r[m] \in OnCycle(E) <=> r[m] \in R
  <2>1. r[m] \in OnCycle(E) <=>
          r[m] \in LET Onward(P) == Along(core, P)
                   IN  Grown(Onward, Onward({r[m]}), Cardinality(core))
    BY <1>6 DEF OnCycle
  <2> HIDE DEF core
  <2>2. R = LET Onward(P) == Along(core, P)
            IN  Grown(Onward, Onward({r[m]}), Cardinality(core))
    BY DEF Grown, GrownAlong
  <2> HIDE DEF R
  <2> QED BY <2>1, <2>2
<1> HIDE DEF grown, core
<1>9. Along(core, {r[m]}) \subseteq R /\ \A e \in core : e[1] \in R => e[2] \in R
  <2>1. Along(core, {r[m]}) \in SUBSET {e[2] : e \in core}
    BY AlongIn
  <2> QED BY <2>1, <1>5, <1>7, GrownCloses
<1> HIDE DEF R
<1>10. \A n \in i..j-1 : r[n] \in R => r[n+1] \in R
  <2> SUFFICES ASSUME NEW n \in i..j-1, r[n] \in R PROVE r[n+1] \in R
    OBVIOUS
  <2>1. <<r[n], r[n+1]>> \in core
    BY <1>2, <1>4
  <2> QED BY <2>1, <1>9
<1>11. ASSUME NEW a \in i..j, r[a] \in R, NEW n \in a..j PROVE r[n] \in R
  <2> DEFINE T0 == {x \in a..j : r[x] \notin R}
  <2> SUFFICES ASSUME T0 # {} PROVE FALSE
    OBVIOUS
  <2>1. T0 \in SUBSET Nat
    BY <1>0
  <2>2. PICK x \in T0 : \A y \in T0 : x <= y
    <3> HIDE DEF T0
    <3> QED BY <2>1, LeastNat
  <2>3. x # a /\ x \in a..j /\ r[x] \notin R
    BY <1>11
  <2>4. x - 1 \in a..j /\ x - 1 \in i..j-1 /\ ~(x <= x - 1) /\ (x - 1) + 1 = x
    BY <2>3, <1>0
  <2>5. r[x - 1] \in R
    BY <2>2, <2>4
  <2> QED BY <2>3, <2>4, <2>5, <1>10
<1>12. \E a \in i..j : r[a] \in R
  <2>1. CASE m = j
    <3>1. <<r[i], r[i+1]>> \in core /\ i + 1 \in i..j /\ r[i] \in {r[m]}
      BY <1>0, <1>2, <1>4, <2>1
    <3>2. r[i+1] \in Along(core, {r[m]})
      BY <3>1, AlongIn
    <3> QED BY <3>1, <3>2, <1>9
  <2>2. CASE m # j
    <3>1. m \in i..j-1 /\ m + 1 \in i..j
      BY <1>0, <2>2
    <3>2. <<r[m], r[m+1]>> \in core
      BY <3>1, <1>2, <1>4
    <3>3. r[m+1] \in Along(core, {r[m]})
      BY <3>2, AlongIn
    <3> QED BY <3>1, <3>3, <1>9
  <2> QED BY <2>1, <2>2
<1>13. r[j] \in R
  BY <1>11, <1>12, <1>0
<1>14. r[m] \in R
  BY <1>11, <1>13, <1>0
<1> QED BY <1>8, <1>14

-----------------------------------------------------------------------------
(* What Relax computes: no way along the arcs is later than the latest     *)
(* arrival, or earlier than the earliest, in as many steps as it has.      *)

\* The netlist has delays, and not without end.
Timed == /\ IsFiniteSet(Arcs)
         /\ \A a \in Arcs : edge[a] \in Nat /\ a = <<a[1], a[2]>>

Table(w) == /\ w.frontier \subseteq DOMAIN w.at
            /\ \A q \in DOMAIN w.at : w.at[q].t \in Nat

\* The table has an arrival at q that is a bound on t.
Told(w, q, t, longest) == /\ q \in DOMAIN w.at
                          /\ IF longest THEN t <= w.at[q].t ELSE w.at[q].t <= t

\* What a pass from w to w2 does: it loses nothing, tells all that the frontier
\* drives, and makes nothing up.
Passing(w, w2, longest, arcs) ==
  /\ Table(w2)
  /\ \A q : \A t \in Nat : Told(w, q, t, longest) => Told(w2, q, t, longest)
  /\ \A a \in arcs : a[1] \in w.frontier => Told(w2, a[2], w.at[a[1]].t + edge[a], longest)
  /\ \A q \in DOMAIN w2.at : q \notin w2.frontier /\ q \notin stops =>
       q \in DOMAIN w.at /\ w2.at[q] = w.at[q]
  /\ \A q \in w2.frontier : q \notin stops
  /\ \A q \in DOMAIN w2.at :
       \/ q \in DOMAIN w.at /\ w2.at[q] = w.at[q]
       \/ \E a \in arcs : a[1] \in w.frontier /\ a[2] = q /\ w2.at[q].t = w.at[a[1]].t + edge[a]

LEMMA OntoTells ==
  ASSUME Timed, NEW arcs \in SUBSET Arcs, NEW longest \in BOOLEAN, NEW level,
         NEW w, Table(w)
  PROVE  Passing(w, Onto(w, level, longest, arcs), longest, arcs)
<1> DEFINE w2 == Onto(w, level, longest, arcs)
           Better(x, y) == IF longest THEN x.t > y.t ELSE x.t < y.t
           taken == {a \in arcs : a[1] \in w.frontier}
           arr(a) == Arrival(w.at[a[1]].t + edge[a], level, a[1])
           heard == {<<a[2], arr(a)>> : a \in taken}
           first == {h \in heard : /\ \A g \in heard : g[1] = h[1] => ~Better(g[2], h[2])
                                   /\ h[1] \in DOMAIN w.at => Better(h[2], w.at[h[1]])}
           news  == {h[1] : h \in first}
           new   == [q \in news |-> (CHOOSE h \in first : h[1] = q)[2]]
           merged  == Over(new, w.at)
<1>1. CASE w.frontier = {}
  <2>1. Onto(w, level, longest, arcs) = w
    BY <1>1 DEF Onto
  <2> HIDE DEF Better, taken, heard, first, news, new, merged
  <2> QED BY <1>1, <2>1 DEF Passing
<1>2. CASE w.frontier # {}
  <2>1. w2 = [at |-> merged, frontier |-> news \ stops]
    BY <1>2 DEF Onto
  <2>2. w2.at = merged /\ w2.frontier = news \ stops
    <3> HIDE DEF merged, news, w2
    <3> QED BY <2>1
  <2> HIDE DEF w2
  <2>3. \A a \in taken : arr(a).t = w.at[a[1]].t + edge[a] /\ arr(a).t \in Nat
    BY DEF Timed, Table, Arrival
  <2>4. \A h \in heard : \E a \in taken : h[1] = a[2] /\ h[2] = arr(a)
    <3> HIDE DEF arr, taken
    <3> QED OBVIOUS
  <2>5. \A h \in heard : h[2].t \in Nat
    <3> HIDE DEF heard, arr, taken
    <3> QED BY <2>3, <2>4
  <2>6. \A q \in news : \E h \in first : h[1] = q
    <3> HIDE DEF first
    <3> QED OBVIOUS
  <2>7. \A q \in news : \E h \in first : h[1] = q /\ new[q] = h[2]
    <3> HIDE DEF first, news
    <3> QED BY <2>6
  <2>8. /\ DOMAIN merged = news \union DOMAIN w.at
        /\ \A q \in news : merged[q] = new[q]
        /\ \A q \in DOMAIN w.at \ news : merged[q] = w.at[q]
    <3>1. DOMAIN new = news
      OBVIOUS
    <3> HIDE DEF new, news
    <3> QED BY <3>1 DEF Over
  <2>9. \A h \in first : h \in heard /\ (h[1] \in DOMAIN w.at => Better(h[2], w.at[h[1]]))
                         /\ \A g \in heard : g[1] = h[1] => ~Better(g[2], h[2])
    <3> HIDE DEF heard, Better
    <3> QED OBVIOUS
  <2>10. Table(w2)
    <3>1. w2.frontier \subseteq DOMAIN w2.at
      <4> HIDE DEF merged, news
      <4> QED BY <2>2, <2>8
    <3>2. \A q \in news : merged[q].t \in Nat
      <4> HIDE DEF merged, news, new, first, heard, Better
      <4> QED BY <2>5, <2>7, <2>8, <2>9
    <3>3. \A q \in DOMAIN merged : merged[q].t \in Nat
      <4> HIDE DEF merged, news, new
      <4> QED BY <3>2, <2>8 DEF Table
    <3> HIDE DEF merged, news
    <3> QED BY <3>1, <3>3, <2>2 DEF Table
  <2>11. ASSUME NEW q, NEW t \in Nat, Told(w, q, t, longest) PROVE Told(w2, q, t, longest)
    <3>1. CASE q \notin news
      <4> HIDE DEF merged, news, new
      <4> QED BY <3>1, <2>2, <2>8, <2>11 DEF Told
    <3>2. CASE q \in news
      <4>1. PICK h \in first : h[1] = q /\ new[q] = h[2]
        <5> HIDE DEF news, new, first
        <5> QED BY <3>2, <2>7
      <4>2. h \in heard /\ Better(h[2], w.at[q]) /\ q \in DOMAIN w.at
        <5> HIDE DEF Better, heard, first
        <5> QED BY <2>9, <4>1, <2>11 DEF Told
      <4>3. h[2].t \in Nat /\ w.at[q].t \in Nat
        <5> HIDE DEF heard
        <5> QED BY <4>2, <2>5 DEF Table
      <4>4. merged[q] = h[2] /\ q \in DOMAIN merged
        <5> HIDE DEF merged, news, new, first
        <5> QED BY <4>1, <2>8, <3>2
      <4> HIDE DEF merged, news, new, first, heard
      <4> QED BY <4>2, <4>3, <4>4, <2>2, <2>11 DEF Told
    <3> QED BY <3>1, <3>2
  <2>12. ASSUME NEW a \in arcs, a[1] \in w.frontier
         PROVE  Told(w2, a[2], w.at[a[1]].t + edge[a], longest)
    <3> DEFINE rival == {b \in taken : b[2] = a[2]}
               f == [b \in rival |-> IF longest THEN -(arr(b).t) ELSE arr(b).t]
    <3>1. a \in rival /\ rival \in SUBSET Arcs
      BY <2>12
    <3>2. f \in [rival -> Int]
      <4>1. \A b \in rival : arr(b).t \in Nat
        BY <2>3
      <4> HIDE DEF rival, arr
      <4> QED BY <4>1
    <3>3. IsFiniteSet(rival)
      <4> HIDE DEF rival
      <4> QED BY <3>1, FS_Subset DEF Timed
    <3>4. PICK b \in rival : \A c \in rival : f[b] <= f[c]
      <4> HIDE DEF rival, f
      <4> QED BY <3>1, <3>2, <3>3, LeastOf
    <3>5. b \in taken /\ b[2] = a[2] /\ a \in taken
      BY <2>12
    <3> DEFINE h == <<b[2], arr(b)>>
    <3>6. h \in heard
      <4> HIDE DEF taken, arr
      <4> QED BY <3>5
    <3>7. \A c \in rival : ~Better(arr(c), arr(b))
      <4>1. \A c \in rival : f[b] <= f[c] /\ arr(c).t \in Nat /\ arr(b).t \in Nat
        BY <3>4, <2>3
      <4>2. \A c \in rival : f[c] = IF longest THEN -(arr(c).t) ELSE arr(c).t
        OBVIOUS
      <4> HIDE DEF f, rival, arr
      <4> QED BY <4>1, <4>2
    <3>8. \A g \in heard : g[1] = a[2] => ~Better(g[2], arr(b))
      <4> SUFFICES ASSUME NEW g \in heard, g[1] = a[2] PROVE ~Better(g[2], arr(b))
        OBVIOUS
      <4>1. PICK c \in taken : g[1] = c[2] /\ g[2] = arr(c)
        <5> HIDE DEF heard, taken, arr
        <5> QED BY <2>4
      <4>2. c \in rival
        BY <4>1
      <4> HIDE DEF rival, heard, taken, arr, Better
      <4> QED BY <3>7, <4>1, <4>2
    <3>9. /\ arr(a).t = w.at[a[1]].t + edge[a] /\ arr(a).t \in Nat /\ arr(b).t \in Nat
          /\ IF longest THEN arr(a).t <= arr(b).t ELSE arr(b).t <= arr(a).t
      <4>1. ~Better(arr(a), arr(b))
        <5> HIDE DEF Better, rival
        <5> QED BY <3>1, <3>7
      <4>2. arr(a).t = w.at[a[1]].t + edge[a] /\ arr(a).t \in Nat /\ arr(b).t \in Nat
        <5> HIDE DEF taken, arr
        <5> QED BY <2>3, <3>5
      <4> HIDE DEF arr
      <4> QED BY <4>1, <4>2
    <3> HIDE DEF arr, rival, f
    <3>10. CASE a[2] \in DOMAIN w.at /\ ~Better(arr(b), w.at[a[2]])
      <4>1. w.at[a[2]].t \in Nat
        BY <3>10 DEF Table
      <4>2. Told(w, a[2], arr(a).t, longest)
        BY <3>9, <3>10, <4>1 DEF Told
      <4>3. Told(w2, a[2], arr(a).t, longest)
        <5> HIDE DEF taken, Better
        <5> QED BY <2>11, <3>9, <4>2
      <4> QED BY <4>3, <3>9
    <3>11. CASE ~(a[2] \in DOMAIN w.at /\ ~Better(arr(b), w.at[a[2]]))
      <4>1. h \in first
        <5>1. h[1] = a[2] /\ h[2] = arr(b)
          BY <3>5
        <5> HIDE DEF h, heard, Better
        <5> QED BY <5>1, <3>6, <3>8, <3>11
      <4>2. a[2] \in news
        <5>1. h[1] = a[2]
          BY <3>5
        <5> HIDE DEF h, first
        <5> QED BY <5>1, <4>1
      <4>3. PICK g \in first : g[1] = a[2] /\ new[a[2]] = g[2]
        <5> HIDE DEF news, new, first
        <5> QED BY <4>2, <2>7
      <4>4. ~Better(arr(b), g[2]) /\ g \in heard
        <5>1. h[1] = a[2] /\ h[2] = arr(b)
          BY <3>5
        <5> HIDE DEF h, first, heard, Better
        <5> QED BY <2>9, <4>3, <3>6, <5>1
      <4>5. g[2].t \in Nat
        <5> HIDE DEF heard
        <5> QED BY <2>5, <4>4
      <4>6. merged[a[2]] = g[2] /\ a[2] \in DOMAIN merged
        <5> HIDE DEF merged, news, new, first
        <5> QED BY <4>2, <4>3, <2>8
      <4> HIDE DEF merged, news, new, first, heard
      <4> QED BY <4>4, <4>5, <4>6, <3>9, <2>2 DEF Told
    <3> QED BY <3>10, <3>11
  <2>13. ASSUME NEW q \in DOMAIN w2.at, q \notin w2.frontier, q \notin stops
         PROVE  q \in DOMAIN w.at /\ w2.at[q] = w.at[q]
    <3> HIDE DEF merged, news
    <3> QED BY <2>13, <2>2, <2>8
  <2>14. ASSUME NEW q \in DOMAIN w2.at, ~(q \in DOMAIN w.at /\ w2.at[q] = w.at[q])
         PROVE  \E a \in arcs : a[1] \in w.frontier /\ a[2] = q /\ w2.at[q].t = w.at[a[1]].t + edge[a]
    <3>1. q \in news /\ w2.at[q] = new[q]
      <4> HIDE DEF merged, news, new
      <4> QED BY <2>14, <2>2, <2>8
    <3>2. PICK h \in first : h[1] = q /\ new[q] = h[2]
      <4> HIDE DEF news, new, first
      <4> QED BY <3>1, <2>7
    <3>3. h \in heard
      <4> HIDE DEF first, heard
      <4> QED BY <2>9
    <3>4. PICK a \in taken : h[1] = a[2] /\ h[2] = arr(a)
      <4> HIDE DEF taken, arr, heard
      <4> QED BY <2>4, <3>3
    <3>5. arr(a).t = w.at[a[1]].t + edge[a]
      <4> HIDE DEF taken, arr
      <4> QED BY <2>3
    <3>6. a \in arcs /\ a[1] \in w.frontier
      OBVIOUS
    <3> HIDE DEF taken, arr, heard, first, news, new
    <3> QED BY <3>1, <3>2, <3>4, <3>5, <3>6
  <2>15. \A q \in w2.frontier : q \notin stops
    <3> HIDE DEF merged, news
    <3> QED BY <2>2
  <2> HIDE DEF taken, arr, heard, first, news, new, merged, Better
  <2> QED BY <2>10, <2>11, <2>12, <2>13, <2>14, <2>15 DEF w2, Passing
<1> QED BY <1>1, <1>2

-----------------------------------------------------------------------------
(* What Relax computes: every way along the arcs that it has passes for,   *)
(* and nothing that is not a way.                                          *)

\* A signal on its way: where it is after k arcs and when, not going on through
\* storage.
Flight(r, n, arcs) ==
  /\ \A k \in 0..n : r[k].t \in Nat
  /\ \A k \in 1..n : /\ <<r[k-1].pin, r[k].pin>> \in arcs
                     /\ r[k].t = r[k-1].t + edge[<<r[k-1].pin, r[k].pin>>]
                     /\ k > 1 => r[k-1].pin \notin stops

Seeded(r, seeds) == r[0].pin \in DOMAIN seeds /\ r[0].t = seeds[r[0].pin].t

\* after, as Iterated defines it in Relax.
Relaxing(after, seeds, level, longest, arcs, k) ==
  after = [i \in 0..k |->
             IF i = 0 THEN {[at |-> seeds, frontier |-> DOMAIN seeds]}
             ELSE {Onto(y, level, longest, arcs) : y \in after[i-1]}]

LEMMA RelaxingExists ==
  ASSUME NEW seeds, NEW level, NEW longest, NEW arcs, NEW k \in Nat
  PROVE  \E after : Relaxing(after, seeds, level, longest, arcs, k)
<1> DEFINE Then(G) == {Onto(y, level, longest, arcs) : y \in G}
           Is(g, j) == g = [i \in 0..j |-> IF i = 0 THEN {[at |-> seeds, frontier |-> DOMAIN seeds]} ELSE Then(g[i-1])]
           T0 == {j \in Nat : ~ \E g : Is(g, j)}
<1>a. \A g : Is(g, k) => Relaxing(g, seeds, level, longest, arcs, k)
  BY DEF Relaxing
<1> HIDE DEF Then
<1>b. ASSUME T0 = {} PROVE \E g : Is(g, k)
  <2>1. k \notin T0
    BY <1>b
  <2> HIDE DEF Is
  <2> QED BY <2>1
<1> SUFFICES ASSUME T0 # {} PROVE FALSE
  <2> HIDE DEF Is, T0
  <2> QED BY <1>a, <1>b
<1>0. T0 \in SUBSET Nat
  OBVIOUS
<1>1. PICK j \in T0 : \A i \in T0 : j <= i
  <2> HIDE DEF T0
  <2> QED BY <1>0, LeastNat
<1>2. CASE j = 0
  <2>1. Is([i \in 0..0 |-> {[at |-> seeds, frontier |-> DOMAIN seeds]}], 0)
    OBVIOUS
  <2> QED BY <1>2, <2>1
<1>3. CASE j # 0
  <2>1. j - 1 \in Nat /\ j - 1 \notin T0
    <3> HIDE DEF T0
    <3>1. j \in Nat /\ ~(j <= j - 1)
      BY <1>0, <1>1
    <3> QED BY <3>1, <1>1, <1>3
  <2>2. PICK f : Is(f, j - 1)
    BY <2>1
  <2> DEFINE g == [i \in 0..j |-> IF i < j THEN f[i] ELSE Then(f[j - 1])]
  <2>3. \A i \in 0..j : g[i] = IF i = 0 THEN {[at |-> seeds, frontier |-> DOMAIN seeds]} ELSE Then(g[i - 1])
    <3> SUFFICES ASSUME NEW i \in 0..j
                 PROVE  g[i] = IF i = 0 THEN {[at |-> seeds, frontier |-> DOMAIN seeds]} ELSE Then(g[i - 1])
      OBVIOUS
    <3>1. \A x \in 0..j-1 : f[x] = IF x = 0 THEN {[at |-> seeds, frontier |-> DOMAIN seeds]} ELSE Then(f[x - 1])
      BY <2>2
    <3>2. CASE i = 0
      BY <3>1, <3>2, <1>3, <2>1
    <3>3. CASE i # 0 /\ i < j
      <4>1. i \in 0..j-1 /\ i - 1 \in 0..j /\ i - 1 < j
        BY <3>3, <2>1
      <4>2. g[i] = f[i] /\ g[i - 1] = f[i - 1]
        BY <4>1, <3>3
      <4> QED BY <4>1, <4>2, <3>1, <3>3
    <3>4. CASE i = j
      <4>1. j - 1 \in 0..j /\ j - 1 < j /\ j \in 0..j /\ ~(j < j)
        BY <2>1
      <4>2. g[j] = Then(f[j - 1]) /\ g[j - 1] = f[j - 1]
        BY <4>1
      <4> QED BY <4>2, <3>4, <1>3
    <3> QED BY <3>2, <3>3, <3>4
  <2>4. Is(g, j)
    <3> HIDE DEF g
    <3>1. g = [i \in 0..j |-> g[i]]
      BY DEF g
    <3> QED BY <3>1, <2>3
  <2> QED BY <2>4, <1>1
<1> QED BY <1>2, <1>3

\* The table after i passes.
Passed(w, i, seeds, longest, arcs) ==
  /\ Table(w)
  /\ i = 0 => w = [at |-> seeds, frontier |-> DOMAIN seeds]
  /\ i # 0 => \A q \in w.frontier : q \notin stops
  /\ \A a \in arcs : a[1] \in DOMAIN w.at /\ a[1] \notin w.frontier /\ a[1] \notin stops =>
        Told(w, a[2], w.at[a[1]].t + edge[a], longest)
  /\ \A n \in 0..i : \A r : Flight(r, n, arcs) /\ Seeded(r, seeds) =>
        Told(w, r[n].pin, r[n].t, longest)
  /\ \A q \in DOMAIN w.at :
        \E n \in 0..i : \E r : /\ Flight(r, n, arcs) /\ Seeded(r, seeds)
                              /\ r[n] = [pin |-> q, t |-> w.at[q].t]

LEMMA PassedFirst ==
  ASSUME NEW arcs, NEW longest \in BOOLEAN, NEW seeds,
         Table([at |-> seeds, frontier |-> DOMAIN seeds])
  PROVE  Passed([at |-> seeds, frontier |-> DOMAIN seeds], 0, seeds, longest, arcs)
<1> DEFINE w == [at |-> seeds, frontier |-> DOMAIN seeds]
<1>0. w.at = seeds /\ w.frontier = DOMAIN seeds
  OBVIOUS
<1>1. \A n \in 0..0 : \A r : Flight(r, n, arcs) /\ Seeded(r, seeds) => Told(w, r[n].pin, r[n].t, longest)
  <2> SUFFICES ASSUME NEW r, Flight(r, 0, arcs), Seeded(r, seeds)
               PROVE  Told(w, r[0].pin, r[0].t, longest)
    OBVIOUS
  <2> QED BY <1>0 DEF Seeded, Told, Flight
<1>2. ASSUME NEW q \in DOMAIN seeds
      PROVE  \E n \in 0..0 : \E r : Flight(r, n, arcs) /\ Seeded(r, seeds) /\ r[n] = [pin |-> q, t |-> seeds[q].t]
  <2> DEFINE r == [k \in 0..0 |-> [pin |-> q, t |-> seeds[q].t]]
  <2>1. r[0] = [pin |-> q, t |-> seeds[q].t] /\ seeds[q].t \in Nat
    BY <1>0 DEF Table
  <2> HIDE DEF r
  <2>2. Flight(r, 0, arcs)
    BY <2>1 DEF Flight
  <2>3. Seeded(r, seeds)
    BY <2>1 DEF Seeded
  <2> QED BY <2>1, <2>2, <2>3
<1> HIDE DEF w
<1> QED BY <1>0, <1>1, <1>2 DEF Passed, w

LEMMA PassedNext ==
  ASSUME Timed, NEW arcs \in SUBSET Arcs, NEW longest \in BOOLEAN, NEW level, NEW seeds,
         NEW i \in Nat, NEW w, Passed(w, i, seeds, longest, arcs)
  PROVE  Passed(Onto(w, level, longest, arcs), i + 1, seeds, longest, arcs)
<1> DEFINE w2 == Onto(w, level, longest, arcs)
<1>0. Passing(w, w2, longest, arcs)
  <2>1. Table(w)
    BY DEF Passed
  <2> QED BY <2>1, OntoTells
<1> HIDE DEF w2
<1>1. /\ Table(w2)
      /\ \A q : \A t \in Nat : Told(w, q, t, longest) => Told(w2, q, t, longest)
      /\ \A a \in arcs : a[1] \in w.frontier => Told(w2, a[2], w.at[a[1]].t + edge[a], longest)
      /\ \A q \in DOMAIN w2.at : q \notin w2.frontier /\ q \notin stops =>
           q \in DOMAIN w.at /\ w2.at[q] = w.at[q]
      /\ \A q \in w2.frontier : q \notin stops
      /\ \A q \in DOMAIN w2.at :
           \/ q \in DOMAIN w.at /\ w2.at[q] = w.at[q]
           \/ \E a \in arcs : a[1] \in w.frontier /\ a[2] = q /\ w2.at[q].t = w.at[a[1]].t + edge[a]
  BY <1>0 DEF Passing
<1>2. Table(w) /\ (i = 0 => w = [at |-> seeds, frontier |-> DOMAIN seeds])
      /\ (i # 0 => \A q \in w.frontier : q \notin stops)
  BY DEF Passed
<1>3. \A a \in arcs : a[1] \in DOMAIN w.at /\ a[1] \notin w.frontier /\ a[1] \notin stops =>
        Told(w, a[2], w.at[a[1]].t + edge[a], longest)
  BY DEF Passed
<1>4. \A n \in 0..i : \A r : Flight(r, n, arcs) /\ Seeded(r, seeds) => Told(w, r[n].pin, r[n].t, longest)
  BY DEF Passed
<1>5. \A q \in DOMAIN w.at :
        \E n \in 0..i : \E r : Flight(r, n, arcs) /\ Seeded(r, seeds) /\ r[n] = [pin |-> q, t |-> w.at[q].t]
  BY DEF Passed
<1>6. ASSUME NEW a \in arcs, a[1] \in DOMAIN w2.at, a[1] \notin w2.frontier, a[1] \notin stops
      PROVE  Told(w2, a[2], w2.at[a[1]].t + edge[a], longest)
  <2>1. a[1] \in DOMAIN w.at /\ w2.at[a[1]] = w.at[a[1]]
    BY <1>1, <1>6
  <2>2. CASE a[1] \in w.frontier
    BY <1>1, <2>1, <2>2
  <2>3. CASE a[1] \notin w.frontier
    <3>1. Told(w, a[2], w.at[a[1]].t + edge[a], longest)
      BY <1>3, <1>6, <2>1, <2>3
    <3>2. w.at[a[1]].t + edge[a] \in Nat
      BY <1>2, <2>1 DEF Timed, Table
    <3> QED BY <1>1, <2>1, <3>1, <3>2
  <2> QED BY <2>2, <2>3
<1>7. ASSUME NEW n \in 0..i+1, NEW r, Flight(r, n, arcs), Seeded(r, seeds)
      PROVE  Told(w2, r[n].pin, r[n].t, longest)
  <2>0. r[n].t \in Nat
    BY <1>7 DEF Flight
  <2>1. CASE n \in 0..i
    BY <2>0, <2>1, <1>1, <1>4, <1>7
  <2>2. CASE n = i + 1
    <3> DEFINE a == <<r[n-1].pin, r[n].pin>>
    <3>1. /\ n - 1 \in 0..i /\ n \in 1..n /\ n - 1 \in 0..n
          /\ \A k \in 0..n-1 : k \in 0..n
          /\ \A k \in 1..n-1 : k \in 1..n
      BY <2>2
    <3>2. a \in arcs /\ r[n].t = r[n-1].t + edge[a] /\ (n > 1 => r[n-1].pin \notin stops) /\ r[n-1].t \in Nat
      BY <1>7, <3>1 DEF Flight
    <3>3. Flight(r, n - 1, arcs)
      BY <1>7, <3>1 DEF Flight
    <3>4. Told(w, r[n-1].pin, r[n-1].t, longest)
      BY <1>4, <1>7, <3>1, <3>3
    <3>5. a[1] = r[n-1].pin /\ a[2] = r[n].pin /\ edge[a] \in Nat
      BY <3>2 DEF Timed
    <3> HIDE DEF a
    <3>6. w.at[a[1]].t \in Nat /\ a[1] \in DOMAIN w.at
      BY <3>4, <3>5, <1>2 DEF Told, Table
    <3>7. Told(w2, a[2], w.at[a[1]].t + edge[a], longest)
      <4>1. CASE a[1] \in w.frontier
        BY <4>1, <3>2, <1>1
      <4>2. CASE a[1] \notin w.frontier
        <5>1. i # 0
          <6> SUFFICES ASSUME i = 0 PROVE FALSE
            OBVIOUS
          <6>1. w.frontier = DOMAIN w.at
            BY <1>2
          <6> QED BY <6>1, <4>2, <3>6
        <5>2. n > 1
          BY <2>2, <5>1
        <5>3. Told(w, a[2], w.at[a[1]].t + edge[a], longest)
          BY <1>3, <3>2, <3>5, <3>6, <4>2, <5>2
        <5> QED BY <5>3, <1>1, <3>5, <3>6
      <4> QED BY <4>1, <4>2
    <3>8. IF longest THEN r[n-1].t <= w.at[a[1]].t ELSE w.at[a[1]].t <= r[n-1].t
      BY <3>4, <3>5 DEF Told
    <3>9. a[2] \in DOMAIN w2.at /\ w2.at[a[2]].t \in Nat
      BY <3>7, <1>1 DEF Told, Table
    <3> QED BY <3>2, <3>5, <3>6, <3>7, <3>8, <3>9 DEF Told
  <2> QED BY <2>1, <2>2
<1>8. ASSUME NEW q \in DOMAIN w2.at
      PROVE  \E n \in 0..i+1 : \E r : /\ Flight(r, n, arcs) /\ Seeded(r, seeds)
                                      /\ r[n] = [pin |-> q, t |-> w2.at[q].t]
  <2>1. CASE q \in DOMAIN w.at /\ w2.at[q] = w.at[q]
    <3>1. PICK n \in 0..i : \E r : Flight(r, n, arcs) /\ Seeded(r, seeds) /\ r[n] = [pin |-> q, t |-> w.at[q].t]
      BY <1>5, <2>1
    <3>2. n \in 0..i+1
      OBVIOUS
    <3> QED BY <3>1, <3>2, <2>1
  <2>2. CASE ~(q \in DOMAIN w.at /\ w2.at[q] = w.at[q])
    <3>1. PICK a \in arcs : a[1] \in w.frontier /\ a[2] = q /\ w2.at[q].t = w.at[a[1]].t + edge[a]
      BY <1>1, <2>2
    <3>2. a[1] \in DOMAIN w.at /\ edge[a] \in Nat /\ a = <<a[1], a[2]>> /\ w.at[a[1]].t \in Nat
      BY <1>2, <3>1 DEF Table, Timed
    <3> PICK n \in 0..i : \E f : /\ Flight(f, n, arcs) /\ Seeded(f, seeds)
                               /\ f[n] = [pin |-> a[1], t |-> w.at[a[1]].t]
      BY <1>5, <3>2
    <3>3. PICK f : Flight(f, n, arcs) /\ Seeded(f, seeds) /\ f[n] = [pin |-> a[1], t |-> w.at[a[1]].t]
      OBVIOUS
    <3>4. n # 0 => a[1] \notin stops
      BY <1>2, <3>1
    <3> DEFINE r == [k \in 0..n+1 |-> IF k <= n THEN f[k] ELSE [pin |-> q, t |-> w2.at[q].t]]
    <3>5. /\ \A k \in 0..n : r[k] = f[k]
          /\ r[n+1] = [pin |-> q, t |-> w2.at[q].t]
          /\ n + 1 \in 0..i+1
      OBVIOUS
    <3> HIDE DEF r
    <3>6. Flight(r, n + 1, arcs)
      <4>1. ASSUME NEW k \in 0..n+1 PROVE r[k].t \in Nat
        <5>1. CASE k = n + 1
          BY <5>1, <3>5, <3>1, <3>2
        <5>2. CASE k \in 0..n
          BY <5>2, <3>3, <3>5 DEF Flight
        <5> QED BY <5>1, <5>2
      <4>2. ASSUME NEW k \in 1..n+1
            PROVE  /\ <<r[k-1].pin, r[k].pin>> \in arcs
                   /\ r[k].t = r[k-1].t + edge[<<r[k-1].pin, r[k].pin>>]
                   /\ k > 1 => r[k-1].pin \notin stops
        <5>1. CASE k = n + 1
          <6>1. r[k-1].pin = a[1] /\ r[k-1].t = w.at[a[1]].t /\ r[k].pin = q /\ r[k].t = w2.at[q].t
            BY <5>1, <3>3, <3>5
          <6>2. <<r[k-1].pin, r[k].pin>> = a
            BY <6>1, <3>1, <3>2
          <6>3. k > 1 => n # 0
            BY <5>1
          <6> QED BY <6>1, <6>2, <6>3, <3>1, <3>4
        <5>2. CASE k \in 1..n
          <6>1. r[k] = f[k] /\ r[k-1] = f[k-1]
            BY <5>2, <3>5
          <6> QED BY <6>1, <5>2, <3>3 DEF Flight
        <5> QED BY <5>1, <5>2
      <4> QED BY <4>1, <4>2 DEF Flight
    <3>7. Seeded(r, seeds)
      BY <3>3, <3>5 DEF Seeded
    <3> QED BY <3>5, <3>6, <3>7
  <2> QED BY <2>1, <2>2
<1>9. i + 1 # 0
  OBVIOUS
<1> QED BY <1>1, <1>6, <1>7, <1>8, <1>9 DEF Passed, w2

LEMMA RelaxPasses ==
  ASSUME Timed, NEW arcs \in SUBSET Arcs, NEW longest \in BOOLEAN, NEW level, NEW seeds,
         Table([at |-> seeds, frontier |-> DOMAIN seeds])
  PROVE  Passed(Relax(seeds, level, longest, arcs), Cardinality(arcs) + 1, seeds, longest, arcs)
<1> DEFINE k == Cardinality(arcs) + 1
           after == CHOOSE f : Relaxing(f, seeds, level, longest, arcs, k)
           Good(j) == \E w : after[j] = {w} /\ Passed(w, j, seeds, longest, arcs)
           T0 == {j \in 0..k : ~Good(j)}
<1>k. k \in Nat
  BY FS_Subset, FS_CardinalityType DEF Timed
<1>1. Relaxing(after, seeds, level, longest, arcs, k)
  <2> HIDE DEF k
  <2> QED BY <1>k, RelaxingExists
<1>2. Relax(seeds, level, longest, arcs) = CHOOSE y \in after[k] : TRUE
  BY DEF Relax, Iterated, Relaxing
<1> HIDE DEF after, k
<1>3. Good(0)
  <2>1. after[0] = {[at |-> seeds, frontier |-> DOMAIN seeds]}
    BY <1>1, <1>k DEF Relaxing
  <2> QED BY <2>1, PassedFirst
<1>4. ASSUME NEW j \in 0..k, j # 0, Good(j - 1) PROVE Good(j)
  <2>1. PICK w : after[j - 1] = {w} /\ Passed(w, j - 1, seeds, longest, arcs)
    BY <1>4
  <2>2. after[j] = {Onto(y, level, longest, arcs) : y \in after[j-1]}
    BY <1>1, <1>4, <1>k DEF Relaxing
  <2>3. after[j] = {Onto(w, level, longest, arcs)}
    BY <2>1, <2>2
  <2>4. j - 1 \in Nat /\ (j - 1) + 1 = j
    BY <1>4, <1>k
  <2>5. Passed(Onto(w, level, longest, arcs), (j - 1) + 1, seeds, longest, arcs)
    BY ONLY Timed, arcs \in SUBSET Arcs, longest \in BOOLEAN, <2>1, <2>4, PassedNext
  <2> QED BY <2>3, <2>4, <2>5
<1> HIDE DEF Good
<1>5. T0 = {}
  <2> SUFFICES ASSUME T0 # {} PROVE FALSE
    OBVIOUS
  <2>1. T0 \in SUBSET Nat
    BY <1>k
  <2>2. PICK j \in T0 : \A i \in T0 : j <= i
    <3> HIDE DEF T0
    <3> QED BY <2>1, LeastNat
  <2>3. j # 0 /\ j - 1 \in 0..k /\ j \in 0..k /\ ~(j <= j - 1)
    BY <1>3, <1>k
  <2>4. Good(j - 1)
    BY <2>2, <2>3
  <2> QED BY <1>4, <2>3, <2>4
<1>6. Good(k)
  BY <1>5, <1>k
<1>7. PICK w : after[k] = {w} /\ Passed(w, k, seeds, longest, arcs)
  BY <1>6 DEF Good
<1> QED BY <1>7, <1>2 DEF k

-----------------------------------------------------------------------------
(* Where storage cuts every cycle, a signal's way is short, so that walk   *)
(* says exactly when the first and the last of them arrive.                *)

\* No cycle but through storage.
NoLoop == \A r, i, j : ~Round(r, i, j, {a \in Arcs : a[1] \notin stops})

\* A signal that is at a pin at 0 may be at another at t, by arcs inside a cell.
Arrives(from, to, t, cell) ==
  \E n \in Nat : \E r : /\ Flight(r, n, {a \in Arcs : In(a[2].inst, cell)})
                        /\ r[0] = [pin |-> from, t |-> 0]
                        /\ r[n] = [pin |-> to, t |-> t]

LEMMA FlightShort ==
  ASSUME Timed, NoLoop, NEW arcs \in SUBSET Arcs, NEW n \in Nat, NEW r, Flight(r, n, arcs)
  PROVE  n <= Cardinality(arcs) + 1
<1> DEFINE f == [k \in 2..n |-> <<r[k-1].pin, r[k].pin>>]
           pins == [k \in 0..n |-> r[k].pin]
<1>0. IsFiniteSet(arcs) /\ Cardinality(arcs) \in Nat
  BY FS_Subset, FS_CardinalityType DEF Timed
<1> SUFFICES ASSUME n > Cardinality(arcs) + 1 PROVE FALSE
  BY <1>0
<1>1. f \in [2..n -> arcs]
  BY DEF Flight
<1>2. IsFiniteSet(2..n) /\ Cardinality(2..n) = n - 1
  BY <1>0, FS_Interval
<1>3. PICK x, y \in 2..n : x # y /\ f[x] = f[y]
  <2> HIDE DEF f
  <2>1. Cardinality(arcs) < Cardinality(2..n)
    BY <1>0, <1>2
  <2> QED BY <1>0, <1>1, <1>2, <2>1, FS_PigeonHole
<1>4. ASSUME NEW u \in 2..n, NEW v \in 2..n, u < v, f[u] = f[v] PROVE FALSE
  <2>1. r[u].pin = r[v].pin
    BY <1>4
  <2>2. pins[u] = pins[v] /\ u \in Nat /\ v \in Nat
    BY <2>1
  <2>3. ASSUME NEW k \in u+1..v
        PROVE  <<pins[k-1], pins[k]>> \in {a \in Arcs : a[1] \notin stops}
    <3>1. k \in 1..n /\ k > 1 /\ k - 1 \in 0..n /\ k \in 0..n
      OBVIOUS
    <3>2. <<r[k-1].pin, r[k].pin>> \in arcs /\ r[k-1].pin \notin stops
      BY <3>1 DEF Flight
    <3> QED BY <3>1, <3>2
  <2> HIDE DEF pins
  <2>4. Round(pins, u, v, {a \in Arcs : a[1] \notin stops})
    BY <1>4, <2>2, <2>3 DEF Round
  <2> QED BY <2>4 DEF NoLoop
<1>5. x < y \/ y < x
  BY <1>3
<1> HIDE DEF f
<1> QED BY <1>3, <1>4, <1>5

LEMMA WalkPasses ==
  ASSUME Timed, NEW from, NEW longest \in BOOLEAN, NEW cell
  PROVE  LET arcs == {a \in Arcs : In(a[2].inst, cell)}
         IN  \E w : /\ Walk(from, longest, cell) = w.at
                    /\ Passed(w, Cardinality(arcs) + 1, One(from, Arrival(0, 0, from)), longest, arcs)
<1> DEFINE arcs == {a \in Arcs : In(a[2].inst, cell)}
           seeds == One(from, Arrival(0, 0, from))
<1>1. DOMAIN seeds = {from} /\ seeds[from].t = 0
  BY DEF One, Arrival
<1>2. Walk(from, longest, cell) = Relax(seeds, 0, longest, arcs).at
  BY DEF Walk
<1>3. arcs \in SUBSET Arcs
  OBVIOUS
<1> HIDE DEF arcs, seeds
<1>4. Table([at |-> seeds, frontier |-> DOMAIN seeds])
  BY <1>1 DEF Table
<1>5. Passed(Relax(seeds, 0, longest, arcs), Cardinality(arcs) + 1, seeds, longest, arcs)
  BY <1>3, <1>4, RelaxPasses
<1> QED BY <1>2, <1>5 DEF arcs, seeds

\* walk leaves out no arrival.
LEMMA WalkBounds ==
  ASSUME Timed, NoLoop, NEW from, NEW to, NEW t, NEW cell, Arrives(from, to, t, cell)
  PROVE  /\ t \in Nat
         /\ to \in DOMAIN Walk(from, TRUE, cell) /\ t <= Walk(from, TRUE, cell)[to].t
         /\ to \in DOMAIN Walk(from, FALSE, cell) /\ Walk(from, FALSE, cell)[to].t <= t
<1> DEFINE arcs == {a \in Arcs : In(a[2].inst, cell)}
           seeds == One(from, Arrival(0, 0, from))
<1> PICK n \in Nat : \E r : /\ Flight(r, n, arcs)
                          /\ r[0] = [pin |-> from, t |-> 0] /\ r[n] = [pin |-> to, t |-> t]
  BY DEF Arrives
<1>1. PICK r : Flight(r, n, arcs) /\ r[0] = [pin |-> from, t |-> 0] /\ r[n] = [pin |-> to, t |-> t]
  OBVIOUS
<1>2. DOMAIN seeds = {from} /\ seeds[from].t = 0
  BY DEF One, Arrival
<1>3. arcs \in SUBSET Arcs
  OBVIOUS
<1>4. \A longest \in BOOLEAN : \E w : /\ Walk(from, longest, cell) = w.at
                                      /\ Passed(w, Cardinality(arcs) + 1, seeds, longest, arcs)
  BY WalkPasses
<1> HIDE DEF arcs, seeds
<1>5. Seeded(r, seeds)
  BY <1>1, <1>2 DEF Seeded
<1>6. n \in 0..Cardinality(arcs)+1
  <2>1. n <= Cardinality(arcs) + 1
    BY <1>1, <1>3, FlightShort
  <2>2. Cardinality(arcs) \in Nat
    BY <1>3, FS_Subset, FS_CardinalityType DEF Timed
  <2> QED BY <2>1, <2>2
<1>7. ASSUME NEW longest \in BOOLEAN
      PROVE  /\ to \in DOMAIN Walk(from, longest, cell)
             /\ IF longest THEN t <= Walk(from, longest, cell)[to].t
                           ELSE Walk(from, longest, cell)[to].t <= t
  <2>1. PICK w : /\ Walk(from, longest, cell) = w.at
                 /\ Passed(w, Cardinality(arcs) + 1, seeds, longest, arcs)
    BY <1>4
  <2>2. Told(w, r[n].pin, r[n].t, longest)
    BY <2>1, <1>1, <1>5, <1>6 DEF Passed
  <2>3. r[n].pin = to /\ r[n].t = t
    BY <1>1
  <2> QED BY <2>1, <2>2, <2>3 DEF Told
<1>8. t \in Nat
  BY <1>1 DEF Flight
<1> QED BY <1>7, <1>8

\* And every entry of it is an arrival.
LEMMA WalkArrives ==
  ASSUME Timed, NEW from, NEW longest \in BOOLEAN, NEW cell, NEW to \in DOMAIN Walk(from, longest, cell)
  PROVE  /\ Walk(from, longest, cell)[to].t \in Nat
         /\ Arrives(from, to, Walk(from, longest, cell)[to].t, cell)
<1> DEFINE arcs == {a \in Arcs : In(a[2].inst, cell)}
           seeds == One(from, Arrival(0, 0, from))
<1>1. PICK w : /\ Walk(from, longest, cell) = w.at
               /\ Passed(w, Cardinality(arcs) + 1, seeds, longest, arcs)
  BY WalkPasses
<1>2. DOMAIN seeds = {from} /\ seeds[from].t = 0
  BY DEF One, Arrival
<1>3. Cardinality(arcs) \in Nat
  BY FS_Subset, FS_CardinalityType DEF Timed
<1> HIDE DEF arcs, seeds
<1> PICK n \in 0..Cardinality(arcs)+1 :
       \E r : Flight(r, n, arcs) /\ Seeded(r, seeds) /\ r[n] = [pin |-> to, t |-> w.at[to].t]
  BY <1>1 DEF Passed
<1>4. PICK r : Flight(r, n, arcs) /\ Seeded(r, seeds) /\ r[n] = [pin |-> to, t |-> w.at[to].t]
  OBVIOUS
<1>5. n \in Nat
  BY <1>3
<1>6. r[0].pin = from /\ r[0].t = 0
  BY <1>2, <1>4 DEF Seeded
<1> DEFINE g == [k \in 0..n |-> [pin |-> r[k].pin, t |-> r[k].t]]
<1>7. /\ \A k \in 0..n : g[k].pin = r[k].pin /\ g[k].t = r[k].t
      /\ g[0] = [pin |-> from, t |-> 0] /\ g[n] = [pin |-> to, t |-> w.at[to].t]
  BY <1>4, <1>5, <1>6
<1> HIDE DEF g
<1>8. Flight(g, n, arcs)
  <2>1. \A k \in 1..n : k \in 0..n /\ k - 1 \in 0..n
    BY <1>5
  <2> QED BY <2>1, <1>4, <1>7 DEF Flight
<1>9. Arrives(from, to, w.at[to].t, cell)
  BY <1>5, <1>7, <1>8 DEF Arrives, arcs
<1>10. w.at[to].t \in Nat
  BY <1>1 DEF Passed, Table
<1> QED BY <1>1, <1>9, <1>10

-----------------------------------------------------------------------------
(* What main's first steps leave: delays of the routed files, and no cycle *)
(* but through storage.                                                    *)

\* A routed design as the tools write it: finitely many delays, a cell's arcs
\* from its inputs to its outputs and routes from outputs to inputs.
WellRouted ==
  /\ \A f \in {sdf.io, sdf.net} :
       IsFiniteSet(DOMAIN f) /\ \A a \in DOMAIN f : f[a] \in Nat /\ a = <<a[1], a[2]>>
  /\ \A a, b \in DOMAIN sdf.io : a[2] # b[1]
  /\ \A a, b \in DOMAIN sdf.net : a[2] # b[1]
  /\ IsFiniteSet(DOMAIN sdf.lut) /\ IsFiniteSet(sdf.rams)

OfFiles == Arcs \subseteq DOMAIN sdf.io \union DOMAIN sdf.net

LEMMA MergedTimed ==
  ASSUME WellRouted, edge = Over(sdf.io, sdf.net)
  PROVE  Timed /\ OfFiles
<1>1. Arcs = DOMAIN sdf.io \union DOMAIN sdf.net
  BY DEF Arcs, Over
<1>2. IsFiniteSet(Arcs)
  BY <1>1, FS_Union DEF WellRouted
<1>3. ASSUME NEW a \in Arcs PROVE edge[a] \in Nat /\ a = <<a[1], a[2]>>
  <2>1. edge[a] = IF a \in DOMAIN sdf.io THEN sdf.io[a] ELSE sdf.net[a]
    BY <1>1, <1>3 DEF Over
  <2> QED BY <1>1, <1>3, <2>1 DEF WellRouted
<1> QED BY <1>1, <1>2, <1>3 DEF Timed, OfFiles

LEMMA FewerTimed ==
  ASSUME Timed, OfFiles, NEW kept \in SUBSET Arcs, UNCHANGED sdf,
         edge' = [a \in kept |-> edge[a]]
  PROVE  Timed' /\ OfFiles' /\ Arcs' = kept
<1>1. Arcs' = kept
  BY DEF Arcs
<1>2. IsFiniteSet(kept)
  BY FS_Subset DEF Timed
<1> QED BY <1>1, <1>2 DEF Timed, OfFiles

\* Every way round passes an output.
LEMMA RoundTurns ==
  ASSUME WellRouted, OfFiles, NEW E \in SUBSET Arcs, NEW r, NEW i, NEW j, Round(r, i, j, E)
  PROVE  \E m \in i..j-1 : Output(r[m])
<1>0. i \in Nat /\ j \in Nat /\ i < j /\ r[i] = r[j]
  BY DEF Round
<1>1. \A m \in i+1..j : <<r[m-1], r[m]>> \in DOMAIN sdf.io \union DOMAIN sdf.net
  BY DEF Round, OfFiles
<1>2. ASSUME NEW m \in i+1..j, <<r[m-1], r[m]>> \in DOMAIN sdf.io PROVE Output(r[m])
  <2> DEFINE a == <<r[m-1], r[m]>>
  <2>1. a[2] = r[m] /\ a \in DOMAIN sdf.io
    BY <1>2
  <2> HIDE DEF a
  <2>2. r[m] \notin {b[1] : b \in DOMAIN sdf.io}
    BY <2>1 DEF WellRouted
  <2>3. r[m] \in {b[2] : b \in DOMAIN sdf.io}
    BY <2>1
  <2> QED BY <2>2, <2>3 DEF Output
<1>3. ASSUME NEW m \in i+1..j, Output(r[m]) PROVE \E x \in i..j-1 : Output(r[x])
  <2>1. CASE m = j
    BY <2>1, <1>0, <1>3
  <2>2. CASE m # j
    BY <2>2, <1>0, <1>3
  <2> QED BY <2>1, <2>2
<1>4. CASE <<r[i], r[i+1]>> \in DOMAIN sdf.io
  <2>1. i + 1 \in i+1..j /\ (i + 1) - 1 = i
    BY <1>0
  <2> QED BY <1>2, <1>3, <1>4, <2>1
<1>5. CASE <<r[i], r[i+1]>> \in DOMAIN sdf.net
  <2>1. \A y : <<r[i+1], y>> \notin DOMAIN sdf.net
    <3> SUFFICES ASSUME NEW y, <<r[i+1], y>> \in DOMAIN sdf.net PROVE FALSE
      OBVIOUS
    <3>1. <<r[i], r[i+1]>>[2] = <<r[i+1], y>>[1]
      OBVIOUS
    <3> QED BY <3>1, <1>5 DEF WellRouted
  <2>2. i + 1 # j
    BY <2>1, <1>0, <1>5
  <2>3. i + 2 \in i+1..j /\ (i + 2) - 1 = i + 1
    BY <2>2, <1>0
  <2>4. <<r[i+1], r[i+2]>> \in DOMAIN sdf.io
    BY <1>1, <2>1, <2>3
  <2> QED BY <1>2, <1>3, <2>3, <2>4
<1>6. i + 1 \in i+1..j /\ (i + 1) - 1 = i
  BY <1>0
<1> QED BY <1>1, <1>4, <1>5, <1>6

\* What passes the storage check has no way round but through storage.
LEMMA StorageCuts ==
  ASSUME WellRouted, Timed, OfFiles, CheckStorage, pc' = "A"
  PROVE  NoLoop'
<1> DEFINE E == {a \in Arcs : a[1] \notin stops}
           ring(i) == \E o \in sdf.osc : In(i, o) /\ \E p \in Loose : In(p.inst, o)
           kept == {b \in Arcs : ~ring(b[1].inst)}
<1>1. /\ \A p \in Loose : ring(p.inst)
      /\ edge' = [a \in kept |-> edge[a]]
      /\ stops' = stops
  <2> HIDE DEF ring
  <2>1. CheckStorage => /\ IF \E p \in Loose : ~ring(p.inst) THEN pc' = "abort" /\ UNCHANGED edge
                           ELSE pc' = "A" /\ edge' = [a \in {b \in Arcs : ~ring(b[1].inst)} |-> edge[a]]
                        /\ stops' = stops
    BY DEF CheckStorage, ring
  <2>2. pc' # "abort"
    OBVIOUS
  <2> QED BY <2>1, <2>2
<1>2. Arcs' = kept
  BY <1>1 DEF Arcs
<1>3. IsFiniteSet(E)
  BY FS_Subset DEF Timed
<1> SUFFICES ASSUME NEW r, NEW i, NEW j, Round(r, i, j, {a \in kept : a[1] \notin stops})
             PROVE  FALSE
  <2> HIDE DEF kept
  <2> QED BY <1>1, <1>2 DEF NoLoop, Round
<1>4. Round(r, i, j, E)
  BY DEF Round
<1>5. PICK m \in i..j-1 : Output(r[m])
  <2>1. E \in SUBSET Arcs
    OBVIOUS
  <2> QED BY ONLY WellRouted, OfFiles, <1>4, <2>1, RoundTurns
<1>6. i \in Nat /\ j \in Nat /\ i < j
  BY <1>4 DEF Round
<1>7. m \in i..j /\ m + 1 \in i+1..j /\ (m + 1) - 1 = m
  BY <1>6
<1>8. r[m] \in OnCycle(E)
  <2> HIDE DEF E
  <2> QED BY <1>3, <1>4, <1>7, RoundIsFound
<1>9. r[m] \in Loose
  BY <1>5, <1>8 DEF Loose
<1>10. ring(r[m].inst)
  <2> HIDE DEF ring
  <2> QED BY <1>1, <1>9
<1>11. <<r[m], r[m+1]>> \in kept
  <2> HIDE DEF kept
  <2> QED BY <1>7 DEF Round
<1>12. ~ring(r[m].inst)
  <2> HIDE DEF ring
  <2>1. ~ring(<<r[m], r[m+1]>>[1].inst)
    BY <1>11
  <2> QED BY <2>1
<1> QED BY <1>10, <1>12

-----------------------------------------------------------------------------
(* Margins: one for each way two arrivals can meet, and a worst one.       *)

Sane(M) == IsFiniteSet(M) /\ \A m \in M : m.margin \in Int

LEMMA Extremes ==
  ASSUME NEW x \in Int, NEW y \in Int
  PROVE  Sets!Max({x, y}) = IF x <= y THEN y ELSE x
<1>1. {x, y} \in SUBSET Int /\ {x, y} # {} /\ {x, y} = {x} \union {y}
  OBVIOUS
<1>2. IsFiniteSet({x, y})
  <2>1. IsFiniteSet({x}) /\ IsFiniteSet({y})
    BY FS_Singleton
  <2>2. IsFiniteSet({x} \union {y})
    BY <2>1, FS_Union
  <2> QED BY <2>2, <1>1
<1> DEFINE S == {x, y}
<1>0. S \in SUBSET Int /\ IsFiniteSet(S) /\ S # {}
  BY <1>1, <1>2
<1>3. x \in S /\ y \in S /\ \A z \in S : z = x \/ z = y
  OBVIOUS
<1> HIDE DEF S
<1>4. Sets!Max(S) \in S /\ \A z \in S : z <= Sets!Max(S)
  BY <1>0, LeastInt
<1>5. Sets!Max(S) = IF x <= y THEN y ELSE x
  <2>1. (Sets!Max(S) = x \/ Sets!Max(S) = y) /\ x <= Sets!Max(S) /\ y <= Sets!Max(S)
    BY <1>3, <1>4
  <2> QED BY <2>1
<1> QED BY <1>5 DEF S

\* A later signal needs no less of a margin.
LEMMA GuardGrows ==
  ASSUME NEW p, NEW t \in Nat, NEW u \in Nat, t <= u
  PROVE  Guard(p, t) \in Nat /\ Guard(p, u) \in Nat /\ Guard(p, t) <= Guard(p, u)
<1>1. CASE p.port \in DOMAIN SetupTime
  BY <1>1, GuardAssumption DEF Guard
<1>2. CASE p.port \notin DOMAIN SetupTime
  <2>1. t \div 5 \in Nat /\ u \div 5 \in Nat /\ t \div 5 <= u \div 5
    OBVIOUS
  <2>2. Guard(p, t) = Sets!Max({t \div 5, GuardFloor}) /\ Guard(p, u) = Sets!Max({u \div 5, GuardFloor})
    BY <1>2 DEF Guard
  <2>3. GuardFloor \in Nat
    BY GuardAssumption
  <2>4. /\ Guard(p, t) = IF t \div 5 <= GuardFloor THEN GuardFloor ELSE t \div 5
        /\ Guard(p, u) = IF u \div 5 <= GuardFloor THEN GuardFloor ELSE u \div 5
    BY <2>1, <2>2, <2>3, Extremes
  <2> QED BY <2>1, <2>3, <2>4
<1> QED BY <1>1, <1>2

\* What a margin says.
Weighs(m, x, y, p, early, cell) ==
  /\ m.from = x /\ m.to = y /\ m.pin = p
  /\ early \in DOMAIN Walk(x, FALSE, cell) /\ p \in DOMAIN Walk(y, TRUE, cell)
  /\ m.margin = Walk(x, FALSE, cell)[early].t - Walk(y, TRUE, cell)[p].t
                  - Guard(p, Walk(y, TRUE, cell)[p].t)

LEMMA MarginsWeigh ==
  ASSUME NEW starts, NEW late, NEW early, NEW cell
  PROVE  /\ \A m \in Margins(starts, late, early, cell) :
              \E x, y \in starts, p \in late : Weighs(m, x, y, p, early, cell)
         /\ \A x, y \in starts, p \in late :
              early \in DOMAIN Walk(x, FALSE, cell) /\ p \in DOMAIN Walk(y, TRUE, cell) =>
                \E m \in Margins(starts, late, early, cell) : Weighs(m, x, y, p, early, cell)
<1> DEFINE quick == {s \in {[from |-> s, at |-> Walk(s, FALSE, cell)] : s \in starts} :
                      early \in DOMAIN s.at}
           slow == {[from |-> s, at |-> Walk(s, TRUE, cell)] : s \in starts}
           pairs == {y \in quick \X slow \X late : y[3] \in DOMAIN y[2].at}
           made(x) == [from   |-> x[1].from, to |-> x[2].from, pin |-> x[3],
                       early  |-> x[1].at[early].t, late |-> x[2].at[x[3]].t,
                       margin |-> x[1].at[early].t - x[2].at[x[3]].t - Guard(x[3], x[2].at[x[3]].t)]
<1>1. Margins(starts, late, early, cell) = {made(x) : x \in pairs}
  BY DEF Margins
<1>2. \A x \in pairs : x[1] \in quick /\ x[2] \in slow /\ x[3] \in late /\ x[3] \in DOMAIN x[2].at
  <2> HIDE DEF quick, slow
  <2> QED OBVIOUS
<1>3. \A s \in quick : /\ s.from \in starts /\ s.at = Walk(s.from, FALSE, cell)
                      /\ early \in DOMAIN s.at
  <2> SUFFICES ASSUME NEW s \in quick
               PROVE  s.from \in starts /\ s.at = Walk(s.from, FALSE, cell) /\ early \in DOMAIN s.at
    OBVIOUS
  <2>1. PICK z \in starts : s = [from |-> z, at |-> Walk(z, FALSE, cell)] /\ early \in DOMAIN s.at
    OBVIOUS
  <2> HIDE DEF quick
  <2> QED BY <2>1
<1>4. \A s \in slow : s.from \in starts /\ s.at = Walk(s.from, TRUE, cell)
  <2> SUFFICES ASSUME NEW s \in slow PROVE s.from \in starts /\ s.at = Walk(s.from, TRUE, cell)
    OBVIOUS
  <2>1. PICK z \in starts : s = [from |-> z, at |-> Walk(z, TRUE, cell)]
    OBVIOUS
  <2> HIDE DEF slow
  <2> QED BY <2>1
<1>5. \A x : /\ made(x).from = x[1].from /\ made(x).to = x[2].from /\ made(x).pin = x[3]
             /\ made(x).margin = x[1].at[early].t - x[2].at[x[3]].t - Guard(x[3], x[2].at[x[3]].t)
  OBVIOUS
<1>6. ASSUME NEW m \in Margins(starts, late, early, cell)
      PROVE  \E x, y \in starts, p \in late : Weighs(m, x, y, p, early, cell)
  <2>1. PICK z \in pairs : m = made(z)
    <3> HIDE DEF pairs, made
    <3> QED BY <1>1
  <2> HIDE DEF pairs, made, quick, slow
  <2>2. z[1] \in quick /\ z[2] \in slow /\ z[3] \in late /\ z[3] \in DOMAIN z[2].at
    BY <1>2
  <2>3. Weighs(m, z[1].from, z[2].from, z[3], early, cell)
    BY <2>1, <2>2, <1>3, <1>4, <1>5 DEF Weighs
  <2> QED BY <2>2, <2>3, <1>3, <1>4
<1>7. ASSUME NEW x \in starts, NEW y \in starts, NEW p \in late,
             early \in DOMAIN Walk(x, FALSE, cell), p \in DOMAIN Walk(y, TRUE, cell)
      PROVE  \E m \in Margins(starts, late, early, cell) : Weighs(m, x, y, p, early, cell)
  <2> DEFINE f == [from |-> x, at |-> Walk(x, FALSE, cell)]
             g == [from |-> y, at |-> Walk(y, TRUE, cell)]
             z == <<f, g, p>>
  <2>1. f \in quick /\ g \in slow /\ g.at = Walk(y, TRUE, cell) /\ g.from = y
    BY <1>7
  <2>2. z[1] = f /\ z[2] = g /\ z[3] = p /\ f.at = Walk(x, FALSE, cell) /\ f.from = x
    OBVIOUS
  <2>3. z \in pairs
    <3> HIDE DEF quick, slow, f, g
    <3> QED BY <2>1, <1>7
  <2> HIDE DEF z, f, g, pairs, quick, slow, made
  <2>4. made(z) \in Margins(starts, late, early, cell)
    BY <2>3, <1>1
  <2>5. Weighs(made(z), x, y, p, early, cell)
    BY <2>1, <2>2, <1>5, <1>7 DEF Weighs
  <2> QED BY <2>4, <2>5
<1> QED BY <1>6, <1>7

LEMMA MarginsSane ==
  ASSUME Timed, NEW starts, IsFiniteSet(starts), NEW late, IsFiniteSet(late), NEW early, NEW cell
  PROVE  Sane(Margins(starts, late, early, cell))
<1> DEFINE quick == {s \in {[from |-> s, at |-> Walk(s, FALSE, cell)] : s \in starts} :
                      early \in DOMAIN s.at}
           slow == {[from |-> s, at |-> Walk(s, TRUE, cell)] : s \in starts}
           pairs == {y \in quick \X slow \X late : y[3] \in DOMAIN y[2].at}
           all == (quick \X slow) \X late
           made(x) == [from   |-> x[1].from, to |-> x[2].from, pin |-> x[3],
                       early  |-> x[1].at[early].t, late |-> x[2].at[x[3]].t,
                       margin |-> x[1].at[early].t - x[2].at[x[3]].t - Guard(x[3], x[2].at[x[3]].t)]
           M == Margins(starts, late, early, cell)
<1>1. M = {made(x) : x \in pairs}
  BY DEF Margins
<1>2. IsFiniteSet(quick) /\ IsFiniteSet(slow)
  <2> DEFINE f == [s \in starts |-> [from |-> s, at |-> Walk(s, FALSE, cell)]]
             g == [s \in starts |-> [from |-> s, at |-> Walk(s, TRUE, cell)]]
             F == {f[s] : s \in starts}
  <2>1. f \in [starts -> F] /\ g \in [starts -> slow]
    OBVIOUS
  <2>2. IsFiniteSet({f[s] : s \in starts}) /\ IsFiniteSet({g[s] : s \in starts})
    <3> HIDE DEF f, g, F, slow
    <3> QED BY <2>1, FiniteImage
  <2>3. quick \in SUBSET {f[s] : s \in starts}
    OBVIOUS
  <2>4. slow = {g[s] : s \in starts}
    OBVIOUS
  <2> HIDE DEF f, g, quick, slow, F
  <2> QED BY <2>2, <2>3, <2>4, FS_Subset
<1>3. IsFiniteSet(all)
  <2> HIDE DEF quick, slow
  <2> QED BY <1>2, FS_Product
<1>4. IsFiniteSet(pairs)
  <2> DEFINE h == [x \in all |-> <<x[1][1], x[1][2], x[2]>>]
             H == {h[x] : x \in all}
  <2>1. h \in [all -> H]
    OBVIOUS
  <2>2. IsFiniteSet(H)
    <3> HIDE DEF h, all, H
    <3>1. IsFiniteSet({h[x] : x \in all})
      BY <1>3, <2>1, FiniteImage
    <3> QED BY <3>1 DEF H
  <2>3. \A x \in pairs : \E y \in all : x = h[y]
    <3> SUFFICES ASSUME NEW x \in pairs PROVE \E y \in all : x = h[y]
      OBVIOUS
    <3>1. x[1] \in quick /\ x[2] \in slow /\ x[3] \in late /\ x = <<x[1], x[2], x[3]>>
      <4> HIDE DEF quick, slow
      <4> QED OBVIOUS
    <3> HIDE DEF quick, slow, pairs
    <3>2. <<<<x[1], x[2]>>, x[3]>> \in all
      BY <3>1
    <3>3. h[<<<<x[1], x[2]>>, x[3]>>] = <<x[1], x[2], x[3]>>
      BY <3>2
    <3> QED BY <3>1, <3>2, <3>3
  <2>4. pairs \in SUBSET H
    <3> HIDE DEF pairs, all, h
    <3> QED BY <2>3
  <2> HIDE DEF H, pairs
  <2> QED BY <2>2, <2>4, FS_Subset
<1>5. IsFiniteSet(M)
  <2> DEFINE k == [x \in pairs |-> made(x)]
  <2>1. k \in [pairs -> M]
    <3> HIDE DEF pairs, made, M
    <3> QED BY <1>1
  <2>2. M = {k[x] : x \in pairs}
    <3> HIDE DEF pairs, made, M
    <3> QED BY <1>1
  <2> HIDE DEF k, pairs, M
  <2>3. IsFiniteSet({k[x] : x \in pairs})
    BY <1>4, <2>1, FiniteImage
  <2> QED BY <2>2, <2>3
<1> HIDE DEF M
<1>6. ASSUME NEW m \in M PROVE m.margin \in Int
  <2>1. PICK x \in starts, y \in starts, p \in late : Weighs(m, x, y, p, early, cell)
    BY <1>6, MarginsWeigh DEF M
  <2>2. Walk(x, FALSE, cell)[early].t \in Nat /\ Walk(y, TRUE, cell)[p].t \in Nat
    BY <2>1, WalkArrives DEF Weighs
  <2> DEFINE e == Walk(x, FALSE, cell)[early].t
             l == Walk(y, TRUE, cell)[p].t
  <2>3. m.margin = e - l - Guard(p, l)
    BY <2>1 DEF Weighs
  <2>4. e \in Nat /\ l \in Nat
    BY <2>2
  <2> HIDE DEF e, l
  <2>5. Guard(p, l) \in Nat
    <3>1. l <= l
      BY <2>4
    <3> QED BY <3>1, <2>4, GuardGrows
  <2> QED BY <2>3, <2>4, <2>5
<1> QED BY <1>5, <1>6 DEF Sane, M

LEMMA WorstIsWorst ==
  ASSUME NEW M, Sane(M), M # {}
  PROVE  Worst(M) \in M /\ \A m \in M : Worst(M).margin <= m.margin
<1> DEFINE f == [m \in M |-> m.margin]
<1>1. f \in [M -> Int]
  BY DEF Sane
<1>2. \E m \in M : \A n \in M : f[m] <= f[n]
  <2> HIDE DEF f
  <2> QED BY <1>1, LeastOf DEF Sane
<1>3. \E m \in M : \A n \in M : m.margin <= n.margin
  BY <1>2
<1> QED BY <1>3 DEF Worst

LEMMA SaneUnion ==
  ASSUME NEW T, IsFiniteSet(T), \A M \in T : Sane(M)
  PROVE  Sane(UNION T)
<1>1. IsFiniteSet(UNION T)
  BY FS_UNION DEF Sane
<1> QED BY <1>1 DEF Sane

LEMMA SaneCommon ==
  ASSUME NEW M, Sane(M)
  PROVE  Sane(Common(M))
<1>1. Common(M) \in SUBSET M
  BY DEF Common
<1> QED BY <1>1, FS_Subset DEF Sane

\* A margin that is not negative, between arrivals as the walks bound them,
\* holds between any two that may be.
LEMMA WeighedHolds ==
  ASSUME Timed, NoLoop, NEW m, NEW x, NEW y, NEW p, NEW early, NEW cell,
         Weighs(m, x, y, p, early, cell), m.margin \in Int, m.margin >= 0,
         NEW t, NEW u, Arrives(x, early, t, cell), Arrives(y, p, u, cell)
  PROVE  t - u >= Guard(p, u)
<1> DEFINE e == Walk(x, FALSE, cell)[early].t
           l == Walk(y, TRUE, cell)[p].t
<1>1. e \in Nat /\ l \in Nat
  BY WalkArrives DEF Weighs
<1>2. t \in Nat /\ u \in Nat /\ e <= t /\ u <= l
  BY WalkBounds
<1>3. m.margin = e - l - Guard(p, l)
  BY DEF Weighs
<1> HIDE DEF e, l
<1>4. Guard(p, u) \in Nat /\ Guard(p, l) \in Nat /\ Guard(p, u) <= Guard(p, l)
  BY <1>1, <1>2, GuardGrows
<1> QED BY <1>1, <1>2, <1>3, <1>4

-----------------------------------------------------------------------------
(* The pins the rules go through are finitely many.                        *)

LEMMA PinsFinite ==
  ASSUME Timed
  PROVE  IsFiniteSet(Driver) /\ IsFiniteSet(Driven) /\ IsFiniteSet(Pins)
<1> DEFINE f == [a \in Arcs |-> a[1]]
           g == [a \in Arcs |-> a[2]]
<1>1. f \in [Arcs -> Driver] /\ g \in [Arcs -> Driven]
  BY DEF Driver, Driven
<1>2. Driver = {f[a] : a \in Arcs} /\ Driven = {g[a] : a \in Arcs}
  BY DEF Driver, Driven
<1> HIDE DEF f, g
<1>3. IsFiniteSet({f[a] : a \in Arcs}) /\ IsFiniteSet({g[a] : a \in Arcs})
  <2>1. IsFiniteSet(Arcs)
    BY DEF Timed
  <2>2. IsFiniteSet({f[a] : a \in Arcs})
    BY <2>1, <1>1, FiniteImage
  <2>3. IsFiniteSet({g[a] : a \in Arcs})
    BY <2>1, <1>1, FiniteImage
  <2> QED BY <2>2, <2>3
<1> QED BY <1>2, <1>3, FS_Union DEF Pins

LEMMA BoundaryFinite ==
  ASSUME Timed, NEW cell
  PROVE  IsFiniteSet(Boundary(cell))
<1>1. Boundary(cell) \in SUBSET Pins
  BY DEF Boundary, Pins, Driver, Driven
<1> QED BY <1>1, PinsFinite, FS_Subset

\* grown, as Grown defines it in StartsReaching.
GrownBack(grown, pin, k) ==
  grown = [i \in 0..k |->
             IF i = 0 THEN {<<{pin}, {pin}>>}
             ELSE UNION {{<<{x : x \in p[1] \union T}, {x : x \in T \ p[1]}>> :
                            T \in {{x : x \in Feeding(p[2], pin)}}} : p \in grown[i-1]}]

LEMMA BackExists ==
  ASSUME NEW pin, NEW k \in Nat
  PROVE  \E after : GrownBack(after, pin, k)
<1> DEFINE Then(G) == UNION {{<<{x : x \in p[1] \union T}, {x : x \in T \ p[1]}>> :
                                T \in {{x : x \in Feeding(p[2], pin)}}} : p \in G}
           Is(g, j) == g = [i \in 0..j |-> IF i = 0 THEN {<<{pin}, {pin}>>} ELSE Then(g[i-1])]
           T0 == {j \in Nat : ~ \E g : Is(g, j)}
<1>a. \A g : Is(g, k) => GrownBack(g, pin, k)
  BY DEF GrownBack
<1> HIDE DEF Then
<1>b. ASSUME T0 = {} PROVE \E g : Is(g, k)
  <2>1. k \notin T0
    BY <1>b
  <2> HIDE DEF Is
  <2> QED BY <2>1
<1> SUFFICES ASSUME T0 # {} PROVE FALSE
  <2> HIDE DEF Is, T0
  <2> QED BY <1>a, <1>b
<1>0. T0 \in SUBSET Nat
  OBVIOUS
<1>1. PICK j \in T0 : \A i \in T0 : j <= i
  <2> HIDE DEF T0
  <2> QED BY <1>0, LeastNat
<1>2. CASE j = 0
  <2>1. Is([i \in 0..0 |-> {<<{pin}, {pin}>>}], 0)
    OBVIOUS
  <2> QED BY <1>2, <2>1
<1>3. CASE j # 0
  <2>1. j - 1 \in Nat /\ j - 1 \notin T0
    <3> HIDE DEF T0
    <3>1. j \in Nat /\ ~(j <= j - 1)
      BY <1>0, <1>1
    <3> QED BY <3>1, <1>1, <1>3
  <2>2. PICK f : Is(f, j - 1)
    BY <2>1
  <2> DEFINE g == [i \in 0..j |-> IF i < j THEN f[i] ELSE Then(f[j - 1])]
  <2>3. \A i \in 0..j : g[i] = IF i = 0 THEN {<<{pin}, {pin}>>} ELSE Then(g[i - 1])
    <3> SUFFICES ASSUME NEW i \in 0..j
                 PROVE  g[i] = IF i = 0 THEN {<<{pin}, {pin}>>} ELSE Then(g[i - 1])
      OBVIOUS
    <3>1. \A x \in 0..j-1 : f[x] = IF x = 0 THEN {<<{pin}, {pin}>>} ELSE Then(f[x - 1])
      BY <2>2
    <3>2. CASE i = 0
      BY <3>1, <3>2, <1>3, <2>1
    <3>3. CASE i # 0 /\ i < j
      <4>1. i \in 0..j-1 /\ i - 1 \in 0..j /\ i - 1 < j
        BY <3>3, <2>1
      <4>2. g[i] = f[i] /\ g[i - 1] = f[i - 1]
        BY <4>1, <3>3
      <4> QED BY <4>1, <4>2, <3>1, <3>3
    <3>4. CASE i = j
      <4>1. j - 1 \in 0..j /\ j - 1 < j /\ j \in 0..j /\ ~(j < j)
        BY <2>1
      <4>2. g[j] = Then(f[j - 1]) /\ g[j - 1] = f[j - 1]
        BY <4>1
      <4> QED BY <4>2, <3>4, <1>3
    <3> QED BY <3>2, <3>3, <3>4
  <2>4. Is(g, j)
    <3> HIDE DEF g
    <3>1. g = [i \in 0..j |-> g[i]]
      BY DEF g
    <3> QED BY <3>1, <2>3
  <2> QED BY <2>4, <1>1
<1> QED BY <1>2, <1>3

LEMMA StartsFinite ==
  ASSUME Timed, NEW pin
  PROVE  IsFiniteSet(StartsReaching(pin))
<1> DEFINE k == Cardinality(Pins)
           grown == CHOOSE g : GrownBack(g, pin, k)
           Good(j) == \A p \in grown[j] : p[1] \subseteq Driver \union {pin}
           T0 == {j \in 0..k : ~Good(j)}
<1>k. k \in Nat
  BY PinsFinite, FS_CardinalityType
<1>1. GrownBack(grown, pin, k)
  <2> HIDE DEF k
  <2> QED BY <1>k, BackExists
<1>2. StartsReaching(pin) \subseteq UNION {p[1] : p \in grown[k]}
  BY DEF StartsReaching, Grown, GrownBack
<1> HIDE DEF grown, k
<1>3. Good(0)
  BY <1>1, <1>k DEF GrownBack
<1>4. ASSUME NEW j \in 0..k, j # 0, Good(j - 1) PROVE Good(j)
  <2> DEFINE Made(p) == {<<{x : x \in p[1] \union T}, {x : x \in T \ p[1]}>> :
                           T \in {{x : x \in Feeding(p[2], pin)}}}
  <2>1. grown[j] = UNION {Made(p) : p \in grown[j-1]}
    BY <1>1, <1>4, <1>k DEF GrownBack
  <2>2. \A p : \A q \in Made(p) : q[1] = p[1] \union Feeding(p[2], pin)
    <3> SUFFICES ASSUME NEW p, NEW q \in Made(p) PROVE q[1] = p[1] \union Feeding(p[2], pin)
      OBVIOUS
    <3>1. {x : x \in Feeding(p[2], pin)} = Feeding(p[2], pin)
      OBVIOUS
    <3>2. q = <<{x : x \in p[1] \union Feeding(p[2], pin)}, {x : x \in Feeding(p[2], pin) \ p[1]}>>
      BY <3>1
    <3>3. q[1] = {x : x \in p[1] \union Feeding(p[2], pin)}
      BY <3>2
    <3> QED BY <3>3
  <2>3. \A P : Feeding(P, pin) \subseteq Driver
    BY DEF Feeding, Driver
  <2> HIDE DEF Made
  <2>4. ASSUME NEW q \in grown[j] PROVE q[1] \subseteq Driver \union {pin}
    <3>1. PICK p \in grown[j-1] : q \in Made(p)
      BY <2>1
    <3>2. p[1] \subseteq Driver \union {pin}
      BY <1>4
    <3> QED BY <2>2, <2>3, <3>1, <3>2
  <2> QED BY <2>4
<1> HIDE DEF Good
<1>5. T0 = {}
  <2> SUFFICES ASSUME T0 # {} PROVE FALSE
    OBVIOUS
  <2>1. T0 \in SUBSET Nat
    BY <1>k
  <2>2. PICK j \in T0 : \A i \in T0 : j <= i
    <3> HIDE DEF T0
    <3> QED BY <2>1, LeastNat
  <2>3. j # 0 /\ j - 1 \in 0..k /\ j \in 0..k /\ ~(j <= j - 1)
    BY <1>3, <1>k
  <2>4. Good(j - 1)
    BY <2>2, <2>3
  <2> QED BY <1>4, <2>3, <2>4
<1>6. Good(k)
  BY <1>5, <1>k
<1>7. StartsReaching(pin) \in SUBSET (Driver \union {pin})
  BY <1>2, <1>6 DEF Good
<1>8. IsFiniteSet(Driver \union {pin})
  <2>1. IsFiniteSet({pin})
    BY FS_Singleton
  <2> QED BY <2>1, PinsFinite, FS_Union
<1> QED BY <1>7, <1>8, FS_Subset

LEMMA InstancesFinite ==
  ASSUME Timed
  PROVE  IsFiniteSet(Instances)
<1> DEFINE f == [p \in Pins |-> p.inst]
<1>1. f \in [Pins -> Instances]
  BY DEF Instances
<1>2. Instances = {f[p] : p \in Pins}
  BY DEF Instances
<1> HIDE DEF f
<1>3. IsFiniteSet({f[p] : p \in Pins})
  BY <1>1, PinsFinite, FiniteImage
<1> QED BY <1>2, <1>3

\* A cell's pins, the ends of its line and the links of it.
LEMMA SidesFinite ==
  ASSUME Timed, NEW s \in Sites
  PROVE  /\ IsFiniteSet(s.tail) /\ IsFiniteSet(s.head) /\ IsFiniteSet(s.links)
         /\ IsFiniteSet(Peers(s))
<1>0. PICK or \in Instances : \E base : s = Site(or, base)
  BY DEF Sites
<1>1. PICK base : s = Site(or, base)
  BY <1>0
<1>2. \A i, out : PinsOf(i, out) \subseteq Pins
  BY DEF PinsOf
<1>3. s.tail \in SUBSET Pins
  <2>1. s.tail = IF base = <<>> THEN PinsOf(or, TRUE) ELSE LineTail(base)
    BY <1>1 DEF Site
  <2>2. LineTail(base) \subseteq Pins
    BY <1>2 DEF LineTail
  <2> QED BY <1>2, <2>1, <2>2
<1>4. s.head \in SUBSET Pins
  <2>1. s.head = IF base = <<>> THEN InputOf(or) ELSE LineHead(base)
    BY <1>1 DEF Site
  <2>2. LineHead(base) \subseteq Pins
    BY <1>2 DEF LineHead
  <2>3. InputOf(or) \subseteq Pins
    BY <1>2 DEF InputOf
  <2> QED BY <2>1, <2>2, <2>3
<1>5. s.links \in SUBSET Instances
  <2>1. s.links = IF base = <<>> THEN {} ELSE Links(base)
    BY <1>1 DEF Site
  <2> QED BY <2>1 DEF Links
<1>6. Peers(s) \in SUBSET Driver
  BY DEF Peers
<1> QED BY <1>3, <1>4, <1>5, <1>6, PinsFinite, InstancesFinite, FS_Subset

-----------------------------------------------------------------------------
(* Rule A: what a length that is no more than the line has says.           *)

LEMMA BelowZero ==
  ASSUME NEW z \in Int, z < 0, NEW d \in Nat, d > 0
  PROVE  z \div d < 0
OBVIOUS

\* Some value of f on A has the rank n.
LEMMA RankedIs ==
  ASSUME NEW A, IsFiniteSet(A), NEW f, \A a \in A : f[a] \in Int, NEW n \in Nat, n < Cardinality(A)
  PROVE  Ranked(f, A, n) \in {f[a] : a \in A}
<1> DEFINE D == {f[a] : a \in A}
           upto(d) == {a \in A : f[a] <= d}
           under(d) == {a \in A : f[a] < d}
           V == {d \in D : n < Cardinality(upto(d))}
<1>1. D \in SUBSET Int /\ IsFiniteSet(D) /\ D # {}
  <2> DEFINE g == [a \in A |-> f[a]]
  <2>1. g \in [A -> Int] /\ \A a \in A : g[a] = f[a]
    OBVIOUS
  <2> HIDE DEF g
  <2>2. IsFiniteSet({g[x] : x \in A})
    BY <2>1, FiniteImage, ZenonT(60)
  <2>3. {g[x] : x \in A} = D
    BY <2>1
  <2>4. A # {}
    BY FS_EmptySet
  <2> QED BY <2>2, <2>3, <2>4
<1>2. \A d : IsFiniteSet(upto(d)) /\ Cardinality(upto(d)) \in Nat
  BY FS_Subset, FS_CardinalityType
<1>3. V # {}
  <2> DEFINE d == Sets!Max(D)
  <2>1. d \in D /\ \A x \in D : x <= d
    <3> HIDE DEF D
    <3> QED BY <1>1, LeastInt
  <2> HIDE DEF d
  <2>2. upto(d) = A
    BY <2>1
  <2> QED BY <2>1, <2>2
<1>4. PICK v \in V : \A x \in V : v <= x
  <2>1. V \in SUBSET Int /\ IsFiniteSet(V)
    <3> HIDE DEF D, upto
    <3> QED BY <1>1, FS_Subset
  <2> HIDE DEF V
  <2> QED BY <1>3, <2>1, LeastInt
<1>5. Cardinality(under(v)) <= n
  <2>1. CASE under(v) = {}
    BY <2>1, FS_EmptySet
  <2>2. CASE under(v) # {}
    <3> DEFINE U == {d \in D : d < v}
               u == Sets!Max(U)
    <3>1. U # {}
      BY <2>2
    <3>2. U \in SUBSET Int /\ IsFiniteSet(U)
      <4> HIDE DEF D
      <4> QED BY <1>1, FS_Subset
    <3>3. u \in U /\ \A x \in U : x <= u
      <4> HIDE DEF U
      <4> QED BY <3>1, <3>2, LeastInt
    <3> HIDE DEF u
    <3>4. upto(u) = under(v)
      BY <3>3, <1>1
    <3>5. ~(n < Cardinality(upto(u)))
      <4> HIDE DEF upto
      <4> QED BY <3>3, <1>1, <1>4
    <3> HIDE DEF upto, under
    <3> QED BY <1>2, <3>4, <3>5
  <2> QED BY <2>1, <2>2
<1> QED BY <1>4, <1>5 DEF Ranked

\* median_hop never divides by nothing.
LEMMA HopCosts ==
  ASSUME Timed
  PROVE  MedianHop \in Nat \ {0}
<1> DEFINE hops == {a \in Arcs : edge[a] > 0}
           n == Cardinality(hops) \div 2
<1>1. IsFiniteSet(hops) /\ \A a \in hops : edge[a] \in Nat \ {0}
  BY FS_Subset DEF Timed
<1>2. CASE hops = {}
  BY <1>2 DEF MedianHop
<1>3. CASE hops # {}
  <2>1. Cardinality(hops) \in Nat \ {0}
    BY <1>1, <1>3, FS_CardinalityType, FS_EmptySet
  <2>2. n \in Nat /\ n < Cardinality(hops)
    <3> HIDE DEF hops
    <3> QED BY <2>1
  <2>3. Ranked(edge, hops, n) \in {edge[a] : a \in hops}
    <3> HIDE DEF hops, n
    <3> QED BY <1>1, <2>2, RankedIs
  <2>4. MedianHop = Ranked(edge, hops, n)
    BY <1>3 DEF MedianHop
  <2> HIDE DEF n
  <2> QED BY <1>1, <2>3, <2>4
<1> QED BY <1>2, <1>3

LEMMA LengthCovers ==
  ASSUME NEW n \in Nat, NEW margin \in Int, NEW chain \in Int, MedianHop \in Nat \ {0},
         Length(n, margin, chain) <= n
  PROVE  margin >= 0
<1> SUFFICES ASSUME margin < 0 PROVE FALSE
  OBVIOUS
<1> DEFINE links == IF n > 0 /\ chain > 0 THEN (margin * n) \div chain ELSE margin \div MedianHop
<1>1. Length(n, margin, chain) = n - links
  BY DEF Length
<1>2. links < 0 /\ links \in Int
  <2>1. CASE n > 0 /\ chain > 0
    <3>1. margin * n \in Int /\ margin * n < 0
      BY <2>1
    <3>2. (margin * n) \div chain < 0 /\ (margin * n) \div chain \in Int
      BY <2>1, <3>1, BelowZero
    <3> QED BY <2>1, <3>2
  <2>2. CASE ~(n > 0 /\ chain > 0)
    <3>1. margin \div MedianHop < 0 /\ margin \div MedianHop \in Int
      BY BelowZero
    <3> QED BY <2>2, <3>1
  <2> QED BY <2>1, <2>2
<1> HIDE DEF links
<1> QED BY <1>1, <1>2

\* Some start reaches both the line's end and something it covers.
Shared(s) ==
  \E start \in Boundary(s.cell), tail \in s.tail, peer \in Peers(s) : \E t, u :
    Arrives(start, tail, t, s.cell) /\ Arrives(start, peer, u, s.cell)

\* A request leaves its cell later than the data it goes with, by the guard:
\* from the same start, or, where nothing starts both, from any two.
RequestsCovered ==
  \A s \in Sites : \A x, y \in Boundary(s.cell), tail \in s.tail, peer \in Peers(s) : \A t, u :
    /\ x = y \/ ~Shared(s)
    /\ Arrives(x, tail, t, s.cell) /\ Arrives(y, peer, u, s.cell)
    => t - u >= Guard(peer, u)

RequestAudits ==
  {RequestAudit(x[1], Worst(x[2])) :
     x \in {y \in {<<s, RequestMargins(s)>> : s \in Sites} : y[2] # {}}}

AllMargins(s) == UNION {Margins(Boundary(s.cell), Peers(s), t, s.cell) : t \in s.tail}

LEMMA AllMarginsSane ==
  ASSUME Timed, NEW s \in Sites
  PROVE  Sane(AllMargins(s)) /\ Sane(RequestMargins(s)) /\ RequestMargins(s) \subseteq AllMargins(s)
<1> DEFINE f == [t \in s.tail |-> Margins(Boundary(s.cell), Peers(s), t, s.cell)]
           F == {f[t] : t \in s.tail}
<1>1. f \in [s.tail -> F]
  OBVIOUS
<1>2. AllMargins(s) = UNION F
  BY DEF AllMargins
<1>3. IsFiniteSet(F)
  <2> HIDE DEF f, F
  <2>1. IsFiniteSet({f[t] : t \in s.tail})
    BY <1>1, SidesFinite, FiniteImage
  <2> QED BY <2>1 DEF F
<1>4. \A M \in F : Sane(M)
  <2> SUFFICES ASSUME NEW t \in s.tail PROVE Sane(f[t])
    OBVIOUS
  <2>1. f[t] = Margins(Boundary(s.cell), Peers(s), t, s.cell)
    OBVIOUS
  <2> QED BY <2>1, BoundaryFinite, SidesFinite, MarginsSane
<1> HIDE DEF F
<1>5. Sane(AllMargins(s))
  BY <1>2, <1>3, <1>4, SaneUnion
<1>6. RequestMargins(s) = IF Common(AllMargins(s)) # {} THEN Common(AllMargins(s)) ELSE AllMargins(s)
  BY DEF RequestMargins, AllMargins
<1>7. Common(AllMargins(s)) \subseteq AllMargins(s) /\ Sane(Common(AllMargins(s)))
  BY <1>5, SaneCommon DEF Common
<1> QED BY <1>5, <1>6, <1>7

LEMMA ChainNumber ==
  ASSUME Timed, NEW s \in Sites, NEW m \in AllMargins(s)
  PROVE  ChainPs(s, m.from) \in Int
<1>1. PICK tail \in s.tail : m \in Margins(Boundary(s.cell), Peers(s), tail, s.cell)
  BY DEF AllMargins
<1>2. PICK x, y \in Boundary(s.cell), p \in Peers(s) : Weighs(m, x, y, p, tail, s.cell)
  BY <1>1, MarginsWeigh
<1> DEFINE early == Walk(x, FALSE, s.cell)
           seen(P) == {early[p2].t : p2 \in P \intersect DOMAIN early}
<1>3. m.from = x /\ tail \in DOMAIN early
  BY <1>2 DEF Weighs
<1>4. ChainPs(s, x) = IF seen(s.head) = {} THEN 0 ELSE Sets!Max(seen(s.tail)) - Sets!Min(seen(s.head))
  BY DEF ChainPs
<1>5. \A q \in DOMAIN early : early[q].t \in Nat
  BY WalkArrives
<1>6. ASSUME NEW P, IsFiniteSet(P) PROVE IsFiniteSet(seen(P)) /\ seen(P) \in SUBSET Int
  <2> DEFINE D == P \intersect DOMAIN early
             f == [q \in D |-> early[q].t]
  <2>1. D \in SUBSET P
    OBVIOUS
  <2>2. IsFiniteSet(D)
    <3> HIDE DEF D
    <3> QED BY <1>6, <2>1, FS_Subset
  <2>3. f \in [D -> Nat]
    BY <1>5
  <2>4. seen(P) = {f[q] : q \in D}
    OBVIOUS
  <2> HIDE DEF D, f, seen
  <2>5. IsFiniteSet({f[q] : q \in D})
    BY <2>2, <2>3, FiniteImage
  <2>6. {f[q] : q \in D} \in SUBSET Int
    BY <2>3
  <2> QED BY <2>4, <2>5, <2>6
<1>7. early[tail].t \in seen(s.tail)
  BY <1>3
<1>8. Sets!Max(seen(s.tail)) \in Int
  <2>1. IsFiniteSet(seen(s.tail)) /\ seen(s.tail) \in SUBSET Int /\ seen(s.tail) # {}
    BY <1>6, <1>7, SidesFinite
  <2> HIDE DEF seen
  <2>2. Sets!Max(seen(s.tail)) \in seen(s.tail)
    BY <2>1, LeastInt
  <2> QED BY <2>1, <2>2
<1>9. seen(s.head) # {} => Sets!Min(seen(s.head)) \in Int
  <2>1. IsFiniteSet(seen(s.head)) /\ seen(s.head) \in SUBSET Int
    BY <1>6, SidesFinite
  <2> HIDE DEF seen
  <2>2. seen(s.head) # {} => Sets!Min(seen(s.head)) \in seen(s.head)
    BY <2>1, LeastInt
  <2> QED BY <2>1, <2>2
<1> HIDE DEF seen, early
<1> QED BY <1>3, <1>4, <1>8, <1>9

LEMMA RequestAuditSays ==
  ASSUME Timed, NEW s \in Sites, RequestMargins(s) # {},
         \A a \in RequestAudits : a.ok
  PROVE  \A m \in RequestMargins(s) : m.margin \in Int /\ m.margin >= 0
<1> DEFINE w == Worst(RequestMargins(s))
           n == Cardinality(s.links)
           want == Length(n, w.margin, ChainPs(s, w.from))
<1>1. w \in RequestMargins(s) /\ \A m \in RequestMargins(s) : w.margin <= m.margin
  BY AllMarginsSane, WorstIsWorst
<1>2. \A m \in RequestMargins(s) : m.margin \in Int
  BY AllMarginsSane DEF Sane
<1>3. RequestAudit(s, w) \in RequestAudits
  <2> DEFINE z == <<s, RequestMargins(s)>>
  <2>1. z \in {y \in {<<v, RequestMargins(v)>> : v \in Sites} : y[2] # {}}
    OBVIOUS
  <2>2. z[1] = s /\ z[2] = RequestMargins(s)
    OBVIOUS
  <2> HIDE DEF z
  <2> QED BY <2>1, <2>2 DEF RequestAudits
<1>4. RequestAudit(s, w).ok = (want <= n)
  BY DEF RequestAudit, Audit
<1> HIDE DEF w
<1>5. n \in Nat
  BY SidesFinite, FS_CardinalityType
<1>6. w \in AllMargins(s)
  BY <1>1, AllMarginsSane
<1>7. ChainPs(s, w.from) \in Int
  BY <1>6, ChainNumber
<1>8. w.margin \in Int
  BY <1>1, <1>2
<1>9. want <= n
  BY <1>3, <1>4
<1>10. w.margin >= 0
  <2> HIDE DEF n
  <2> QED BY <1>5, <1>7, <1>8, <1>9, LengthCovers, HopCosts
<1> QED BY <1>1, <1>2, <1>8, <1>10

LEMMA RequestsSound ==
  ASSUME Timed, NoLoop, \A a \in RequestAudits : a.ok
  PROVE  RequestsCovered
<1> SUFFICES ASSUME NEW s \in Sites, NEW x \in Boundary(s.cell), NEW y \in Boundary(s.cell),
                    NEW tail \in s.tail, NEW peer \in Peers(s), NEW t, NEW u,
                    x = y \/ ~Shared(s),
                    Arrives(x, tail, t, s.cell), Arrives(y, peer, u, s.cell)
             PROVE  t - u >= Guard(peer, u)
  BY DEF RequestsCovered
<1>1. tail \in DOMAIN Walk(x, FALSE, s.cell) /\ peer \in DOMAIN Walk(y, TRUE, s.cell)
  BY WalkBounds
<1>2. PICK m \in Margins(Boundary(s.cell), Peers(s), tail, s.cell) : Weighs(m, x, y, peer, tail, s.cell)
  BY <1>1, MarginsWeigh
<1>3. m \in AllMargins(s)
  BY DEF AllMargins
<1>4. m \in RequestMargins(s)
  <2>1. RequestMargins(s) = IF Common(AllMargins(s)) # {} THEN Common(AllMargins(s)) ELSE AllMargins(s)
    BY DEF RequestMargins, AllMargins
  <2>2. CASE x = y
    <3>1. m \in Common(AllMargins(s))
      BY <1>2, <1>3, <2>2 DEF Common, Weighs
    <3> QED BY <2>1, <3>1
  <2>3. CASE ~Shared(s)
    <3>1. ASSUME NEW c \in Common(AllMargins(s)) PROVE FALSE
      <4>1. PICK tl \in s.tail : c \in Margins(Boundary(s.cell), Peers(s), tl, s.cell)
        BY <3>1 DEF Common, AllMargins
      <4>2. PICK v, w \in Boundary(s.cell), p \in Peers(s) : Weighs(c, v, w, p, tl, s.cell)
        BY <4>1, MarginsWeigh
      <4>3. v = w /\ tl \in DOMAIN Walk(v, FALSE, s.cell) /\ p \in DOMAIN Walk(w, TRUE, s.cell)
        BY <4>2, <3>1 DEF Common, Weighs
      <4>4. Arrives(v, tl, Walk(v, FALSE, s.cell)[tl].t, s.cell)
        BY <4>3, WalkArrives
      <4>5. Arrives(v, p, Walk(w, TRUE, s.cell)[p].t, s.cell)
        BY <4>3, WalkArrives
      <4> QED BY <2>3, <4>4, <4>5 DEF Shared
    <3> QED BY <2>1, <3>1, <1>3
  <2> QED BY <2>2, <2>3
<1>5. m.margin \in Int /\ m.margin >= 0
  BY <1>4, RequestAuditSays
<1> QED BY <1>2, <1>5, WeighedHolds

-----------------------------------------------------------------------------
(* Rules B and D: the worst margin of each RAM and of each consumer.       *)

\* A RAM is clocked later than anything it samples arrives, by its setup time.
ClocksCovered ==
  \A ram \in sdf.rams : \A x \in StartsReaching(Pin(ram, "CLK")), p \in Driven : \A t, u :
    /\ p.inst = ram /\ p.port \in DOMAIN SetupTime
    /\ Arrives(x, Pin(ram, "CLK"), t, <<>>) /\ Arrives(x, p, u, <<>>)
    => t - u >= Guard(p, u)

ClockAudits ==
  {ClockAudit(x[1], Worst(x[2])) :
     x \in {y \in {<<r, ClockMargins(r)>> : r \in sdf.rams} : y[2] # {}}}

LEMMA ClocksSound ==
  ASSUME Timed, NoLoop, \A a \in ClockAudits : a.ok
  PROVE  ClocksCovered
<1> SUFFICES ASSUME NEW ram \in sdf.rams, NEW x \in StartsReaching(Pin(ram, "CLK")), NEW p \in Driven,
                    NEW t, NEW u, p.inst = ram, p.port \in DOMAIN SetupTime,
                    Arrives(x, Pin(ram, "CLK"), t, <<>>), Arrives(x, p, u, <<>>)
             PROVE  t - u >= Guard(p, u)
  BY DEF ClocksCovered
<1> DEFINE clk == Pin(ram, "CLK")
           late == {q \in Driven : q.inst = ram /\ q.port \in DOMAIN SetupTime}
           M == Margins(StartsReaching(clk), late, clk, <<>>)
           R == ClockMargins(ram)
<1>1. R = Common(M)
  BY DEF ClockMargins
<1>2. clk \in DOMAIN Walk(x, FALSE, <<>>) /\ p \in DOMAIN Walk(x, TRUE, <<>>) /\ p \in late
  BY WalkBounds
<1>3. PICK m \in M : Weighs(m, x, x, p, clk, <<>>)
  <2> HIDE DEF late, clk
  <2>1. x \in StartsReaching(clk)
    BY DEF clk
  <2> QED BY <1>2, <2>1, MarginsWeigh
<1>4. m \in R
  <2> HIDE DEF M, R
  <2> QED BY <1>1, <1>3 DEF Common, Weighs
<1>5. Sane(R)
  <2>1. late \in SUBSET Driven
    OBVIOUS
  <2> HIDE DEF late, clk, R
  <2>2. IsFiniteSet(late) /\ IsFiniteSet(StartsReaching(clk))
    BY <2>1, PinsFinite, FS_Subset, StartsFinite
  <2>3. Sane(M)
    BY <2>2, MarginsSane
  <2> QED BY <2>3, <1>1, SaneCommon
<1> HIDE DEF M, late, clk, R
<1>6. Worst(R) \in R /\ Worst(R).margin <= m.margin
  BY <1>4, <1>5, WorstIsWorst
<1>7. ClockAudit(ram, Worst(R)) \in ClockAudits
  <2> DEFINE z == <<ram, R>>
  <2>1. z \in {y \in {<<r, ClockMargins(r)>> : r \in sdf.rams} : y[2] # {}}
    BY <1>4 DEF R
  <2>2. z[1] = ram /\ z[2] = R
    OBVIOUS
  <2> HIDE DEF z
  <2> QED BY <2>1, <2>2 DEF ClockAudits
<1>8. Worst(R).margin >= 0
  <2>1. ClockAudit(ram, Worst(R)).ok = (Worst(R).margin >= 0)
    BY DEF ClockAudit, Audit
  <2> QED BY <1>7, <2>1
<1>9. m.margin \in Int /\ Worst(R).margin \in Int
  BY <1>4, <1>5, <1>6 DEF Sane
<1>10. m.margin >= 0
  BY <1>6, <1>8, <1>9
<1> QED BY <1>3, <1>9, <1>10, WeighedHolds DEF clk

\* A gate sees its request after its select has settled, by the guard, whichever
\* storage and inputs of the design the two come from.
SelectsCovered ==
  \A c \in Consumers : \A r \in Requests(c) :
    \A x, y \in SelectStarts(c, r), q \in Selects(c) : \A t, u :
      Arrives(x, r, t, <<>>) /\ Arrives(y, q, u, <<>>) => t - u >= Guard(q, u)

SelectAudits ==
  {SelectAudit(x[1], Worst(x[2])) :
     x \in {y \in {<<c, SelectMargins(c)>> : c \in Consumers} : y[2] # {}}}

LEMMA GatesFinite ==
  ASSUME WellRouted, NEW c \in Consumers
  PROVE  IsFiniteSet(Requests(c)) /\ IsFiniteSet(Selects(c))
<1>1. PICK kind, cell, halves, req, sel :
        halves \in SUBSET DOMAIN sdf.lut /\ c = Consumer(kind, cell, halves, req, sel)
  <2> DEFINE named(cell, names) == {i \in DOMAIN sdf.lut : i.at = cell /\ i.name \in names}
             cells == {i.at : i \in DOMAIN sdf.lut}
  <2>1. \A cell, names : named(cell, names) \in SUBSET DOMAIN sdf.lut
    OBVIOUS
  <2>2. \/ \E d : c = Consumer("bd_steer", d, named(d, {"u"}), 0, 1)
        \/ \E d : c = Consumer("bd_mux", d, named(d, {"uj0", "uj1"}), 1, 2)
    BY DEF Consumers
  <2> HIDE DEF named
  <2> QED BY <2>1, <2>2
<1> DEFINE f == [i \in halves |-> OnPin(i, req)]
           g == [i \in halves |-> OnPin(i, sel)]
           F == {f[i] : i \in halves}
           G == {g[i] : i \in halves}
<1>2. IsFiniteSet(halves)
  BY <1>1, FS_Subset DEF WellRouted
<1>3. c.gates = {[req |-> OnPin(i, req), sel |-> OnPin(i, sel)] : i \in halves}
  BY <1>1 DEF Consumer
<1>4. Requests(c) = UNION F /\ Selects(c) = UNION G
  <2> DEFINE made(i) == [req |-> OnPin(i, req), sel |-> OnPin(i, sel)]
  <2>1. \A i : made(i).req = OnPin(i, req) /\ made(i).sel = OnPin(i, sel)
    OBVIOUS
  <2>2. c.gates = {made(i) : i \in halves}
    BY <1>3
  <2> HIDE DEF made
  <2>3. {h.req : h \in c.gates} = F /\ {h.sel : h \in c.gates} = G
    BY <2>1, <2>2
  <2> QED BY <2>3 DEF Requests, Selects
<1>5. \A i, k : IsFiniteSet(OnPin(i, k))
  <2> SUFFICES ASSUME NEW i, NEW k PROVE IsFiniteSet(OnPin(i, k))
    OBVIOUS
  <2>1. OnPin(i, k) = {} \/ OnPin(i, k) = {Pin(i, sdf.lut[i].pin[k])}
    BY DEF OnPin
  <2> QED BY <2>1, FS_EmptySet, FS_Singleton
<1>6. f \in [halves -> F] /\ g \in [halves -> G]
  OBVIOUS
<1>7. (\A X \in F : IsFiniteSet(X)) /\ (\A X \in G : IsFiniteSet(X))
  BY <1>5
<1> HIDE DEF f, g
<1>8. IsFiniteSet(F) /\ IsFiniteSet(G)
  <2> HIDE DEF F, G
  <2>1. IsFiniteSet({f[i] : i \in halves})
    BY <1>2, <1>6, FiniteImage
  <2>2. IsFiniteSet({g[i] : i \in halves})
    BY <1>2, <1>6, FiniteImage
  <2> QED BY <2>1, <2>2 DEF F, G
<1> HIDE DEF F, G
<1> QED BY <1>4, <1>7, <1>8, FS_UNION

LEMMA SelectStartsFinite ==
  ASSUME WellRouted, Timed, NEW c \in Consumers, NEW r
  PROVE  IsFiniteSet(SelectStarts(c, r))
<1> DEFINE f == [s \in Selects(c) |-> StartsReaching(s)]
           F == {f[s] : s \in Selects(c)}
<1>1. f \in [Selects(c) -> F]
  OBVIOUS
<1>2. SelectStarts(c, r) = StartsReaching(r) \union UNION F
  BY DEF SelectStarts
<1>3. \A X \in F : IsFiniteSet(X)
  BY StartsFinite
<1> HIDE DEF f
<1>4. IsFiniteSet(F)
  <2> HIDE DEF F
  <2>1. IsFiniteSet({f[s] : s \in Selects(c)})
    BY <1>1, GatesFinite, FiniteImage
  <2> QED BY <2>1 DEF F
<1> HIDE DEF F
<1>5. IsFiniteSet(UNION F)
  BY <1>3, <1>4, FS_UNION
<1> QED BY <1>2, <1>5, StartsFinite, FS_Union

LEMMA SelectMarginsSane ==
  ASSUME WellRouted, Timed, NEW c \in Consumers
  PROVE  Sane(SelectMargins(c))
<1> DEFINE f == [r \in Requests(c) |-> Margins(SelectStarts(c, r), Selects(c), r, <<>>)]
           F == {f[r] : r \in Requests(c)}
<1>1. f \in [Requests(c) -> F]
  OBVIOUS
<1>2. SelectMargins(c) = UNION F
  BY DEF SelectMargins, SelectStarts
<1>3. \A M \in F : Sane(M)
  <2> SUFFICES ASSUME NEW r \in Requests(c) PROVE Sane(f[r])
    OBVIOUS
  <2>1. f[r] = Margins(SelectStarts(c, r), Selects(c), r, <<>>)
    OBVIOUS
  <2> HIDE DEF f, F
  <2> QED BY <2>1, SelectStartsFinite, GatesFinite, MarginsSane
<1> HIDE DEF f
<1>4. IsFiniteSet(F)
  <2> HIDE DEF F
  <2>1. IsFiniteSet({f[r] : r \in Requests(c)})
    BY <1>1, GatesFinite, FiniteImage
  <2> QED BY <2>1 DEF F
<1> HIDE DEF F
<1> QED BY <1>2, <1>3, <1>4, SaneUnion

LEMMA SelectsSound ==
  ASSUME WellRouted, Timed, NoLoop, \A a \in SelectAudits : a.ok
  PROVE  SelectsCovered
<1> SUFFICES ASSUME NEW c \in Consumers, NEW r \in Requests(c), NEW x \in SelectStarts(c, r),
                    NEW y \in SelectStarts(c, r), NEW q \in Selects(c), NEW t, NEW u,
                    Arrives(x, r, t, <<>>), Arrives(y, q, u, <<>>)
             PROVE  t - u >= Guard(q, u)
  BY DEF SelectsCovered
<1> DEFINE R == SelectMargins(c)
<1>1. r \in DOMAIN Walk(x, FALSE, <<>>) /\ q \in DOMAIN Walk(y, TRUE, <<>>)
  BY WalkBounds
<1>2. PICK m \in Margins(SelectStarts(c, r), Selects(c), r, <<>>) : Weighs(m, x, y, q, r, <<>>)
  BY <1>1, MarginsWeigh
<1>3. m \in R
  BY DEF SelectMargins, SelectStarts
<1>4. Sane(R)
  BY SelectMarginsSane
<1> HIDE DEF R
<1>5. Worst(R) \in R /\ Worst(R).margin <= m.margin
  BY <1>3, <1>4, WorstIsWorst
<1>6. SelectAudit(c, Worst(R)) \in SelectAudits
  <2> DEFINE z == <<c, R>>
  <2>1. z \in {y2 \in {<<v, SelectMargins(v)>> : v \in Consumers} : y2[2] # {}}
    BY <1>3 DEF R
  <2>2. z[1] = c /\ z[2] = R
    OBVIOUS
  <2> HIDE DEF z
  <2> QED BY <2>1, <2>2 DEF SelectAudits
<1>7. Worst(R).margin >= 0
  <2>1. SelectAudit(c, Worst(R)).ok = (Worst(R).margin >= 0)
    BY DEF SelectAudit, Audit
  <2> QED BY <1>6, <2>1
<1>8. m.margin \in Int /\ Worst(R).margin \in Int
  BY <1>3, <1>4, <1>5 DEF Sane
<1>9. m.margin >= 0
  BY <1>5, <1>7, <1>8
<1> QED BY <1>2, <1>8, <1>9, WeighedHolds

-----------------------------------------------------------------------------
(* Rule C: how far an acknowledge trails its RAM's clock.                  *)

\* Each acknowledge line is of one RAM, and its end follows the clock's first
\* edge by the RAM's clock to output time and half of its longest hold.
AcksTrail ==
  \A base \in ChainsAs("uco") : \E ram \in sdf.rams :
    /\ OwnRams(base) = {ram}
    /\ \A h \in LineHead(base), p \in LineTail(base) : \A x \in StartsReaching(h) : \A t, c :
         /\ Arrives(x, p, t, <<>>)
         /\ Arrives(x, Pin(ram, "CLK"), c, <<>>)
         /\ \A d : Arrives(x, Pin(ram, "CLK"), d, <<>>) => c <= d
         => t - c >= ClockToOut /\ 2 * (t - c) >= HoldNeeded

AckAudits ==
  LET lines  == ChainsAs("uco")
      alone  == {b \in lines : Cardinality(OwnRams(b)) = 1}
      trails == {<<b, Trails(b, CHOOSE r \in OwnRams(b) : TRUE)>> : b \in alone}
  IN  {Audit("C", b, Cardinality(Links(b)), 0, FALSE) : b \in lines \ alone}
        \union {AckAudit(x[1], Sets!Min(x[2])) : x \in {y \in trails : y[2] # {}}}

LEMMA TrailsSane ==
  ASSUME Timed, NEW base, NEW ram
  PROVE  IsFiniteSet(Trails(base, ram)) /\ Trails(base, ram) \in SUBSET Int
<1> DEFINE clk == Pin(ram, "CLK")
           f == [h \in LineHead(base) |-> StartsReaching(h)]
           F == {f[h] : h \in LineHead(base)}
           S == UNION F
           g == [s \in S |-> Walk(s, FALSE, <<>>)]
           at == {g[s] : s \in S}
           all == at \X LineTail(base)
           D == {y \in all : y[2] \in DOMAIN y[1] /\ clk \in DOMAIN y[1]}
           k == [x \in D |-> x[1][x[2]].t - x[1][clk].t]
<1>0. IsFiniteSet(LineHead(base)) /\ IsFiniteSet(LineTail(base))
  <2>1. \A i, out : PinsOf(i, out) \subseteq Pins
    BY DEF PinsOf
  <2>2. LineHead(base) \in SUBSET Pins
    BY <2>1 DEF LineHead
  <2>3. LineTail(base) \in SUBSET Pins
    BY <2>1 DEF LineTail
  <2> QED BY <2>2, <2>3, PinsFinite, FS_Subset
<1>1. Trails(base, ram) = {k[x] : x \in D}
  <2>1. UNION {StartsReaching(h) : h \in LineHead(base)} = S
    OBVIOUS
  <2> HIDE DEF S
  <2>2. {Walk(s, FALSE, <<>>) : s \in S} = at
    OBVIOUS
  <2> HIDE DEF at
  <2>3. Trails(base, ram) = {x[1][x[2]].t - x[1][clk].t : x \in D}
    BY <2>1, <2>2 DEF Trails
  <2> HIDE DEF D, clk
  <2> QED BY <2>3
<1>2. IsFiniteSet(S)
  <2>1. f \in [LineHead(base) -> F]
    OBVIOUS
  <2>2. \A X \in F : IsFiniteSet(X)
    BY StartsFinite
  <2> HIDE DEF f
  <2>3. IsFiniteSet(F)
    <3> HIDE DEF F
    <3>1. IsFiniteSet({f[h] : h \in LineHead(base)})
      BY <1>0, <2>1, FiniteImage
    <3> QED BY <3>1 DEF F
  <2> HIDE DEF F
  <2> QED BY <2>2, <2>3, FS_UNION
<1> HIDE DEF S
<1>3. IsFiniteSet(at)
  <2>1. g \in [S -> at]
    OBVIOUS
  <2> HIDE DEF g, at
  <2>2. IsFiniteSet({g[s] : s \in S})
    BY <1>2, <2>1, FiniteImage
  <2> QED BY <2>2 DEF at
<1>4. \A v \in at : \A q \in DOMAIN v : v[q].t \in Nat
  <2> SUFFICES ASSUME NEW s \in S, NEW q \in DOMAIN g[s] PROVE g[s][q].t \in Nat
    OBVIOUS
  <2>1. g[s] = Walk(s, FALSE, <<>>)
    OBVIOUS
  <2> HIDE DEF g
  <2> QED BY <2>1, WalkArrives
<1> HIDE DEF at
<1>5. IsFiniteSet(all)
  BY <1>0, <1>3, FS_Product
<1>6. \A x \in all : x[1] \in at
  OBVIOUS
<1>7. D \in SUBSET all
  OBVIOUS
<1> HIDE DEF all
<1>8. IsFiniteSet(D)
  <2> HIDE DEF D
  <2> QED BY <1>5, <1>7, FS_Subset
<1>9. k \in [D -> Int]
  <2> SUFFICES ASSUME NEW x \in D PROVE x[1][x[2]].t - x[1][clk].t \in Int
    OBVIOUS
  <2>1. x[1] \in at /\ x[2] \in DOMAIN x[1] /\ clk \in DOMAIN x[1]
    <3> HIDE DEF clk
    <3> QED BY <1>6
  <2>2. x[1][x[2]].t \in Nat /\ x[1][clk].t \in Nat
    <3> HIDE DEF clk, D
    <3> QED BY <2>1, <1>4
  <2> HIDE DEF clk, D
  <2> QED BY <2>2
<1> HIDE DEF k, D
<1>10. IsFiniteSet({k[x] : x \in D})
  BY <1>8, <1>9, FiniteImage
<1>11. {k[x] : x \in D} \in SUBSET Int
  BY <1>9
<1> QED BY <1>1, <1>10, <1>11

LEMMA TrailIn ==
  ASSUME NEW base, NEW ram, NEW h \in LineHead(base), NEW p \in LineTail(base),
         NEW x \in StartsReaching(h),
         p \in DOMAIN Walk(x, FALSE, <<>>), Pin(ram, "CLK") \in DOMAIN Walk(x, FALSE, <<>>)
  PROVE  Walk(x, FALSE, <<>>)[p].t - Walk(x, FALSE, <<>>)[Pin(ram, "CLK")].t \in Trails(base, ram)
<1> DEFINE clk == Pin(ram, "CLK")
           at == {Walk(s, FALSE, <<>>) : s \in UNION {StartsReaching(v) : v \in LineHead(base)}}
           D == {y \in at \X LineTail(base) : y[2] \in DOMAIN y[1] /\ clk \in DOMAIN y[1]}
           W == Walk(x, FALSE, <<>>)
           z == <<W, p>>
<1>1. Trails(base, ram) = {y[1][y[2]].t - y[1][clk].t : y \in D}
  BY DEF Trails
<1>2. W \in at
  OBVIOUS
<1> HIDE DEF at, clk
<1>3. p \in DOMAIN W /\ clk \in DOMAIN W
  BY DEF clk
<1> HIDE DEF W
<1>4. z \in D /\ z[1] = W /\ z[2] = p
  BY <1>2, <1>3
<1> HIDE DEF z, D
<1>5. z[1][z[2]].t - z[1][clk].t \in Trails(base, ram)
  BY <1>1, <1>4
<1>6. W[p].t - W[clk].t \in Trails(base, ram)
  BY <1>4, <1>5
<1> QED BY <1>6 DEF W, clk

LEMMA AcksSound ==
  ASSUME WellRouted, Timed, NoLoop, \A a \in AckAudits : a.ok
  PROVE  AcksTrail
<1> DEFINE lines  == ChainsAs("uco")
           alone  == {b \in lines : Cardinality(OwnRams(b)) = 1}
           own(b) == CHOOSE r \in OwnRams(b) : TRUE
           trails == {<<b, Trails(b, own(b))>> : b \in alone}
<1>0. AckAudits = {Audit("C", b, Cardinality(Links(b)), 0, FALSE) : b \in lines \ alone}
                    \union {AckAudit(x[1], Sets!Min(x[2])) : x \in {y \in trails : y[2] # {}}}
  BY DEF AckAudits
<1> SUFFICES ASSUME NEW base \in lines
             PROVE  \E ram \in sdf.rams :
                      /\ OwnRams(base) = {ram}
                      /\ \A h \in LineHead(base), p \in LineTail(base) : \A x \in StartsReaching(h) : \A t, c :
                           /\ Arrives(x, p, t, <<>>)
                           /\ Arrives(x, Pin(ram, "CLK"), c, <<>>)
                           /\ \A d : Arrives(x, Pin(ram, "CLK"), d, <<>>) => c <= d
                           => t - c >= ClockToOut /\ 2 * (t - c) >= HoldNeeded
  BY DEF AcksTrail
<1>1. base \in alone
  <2> SUFFICES ASSUME base \in lines \ alone PROVE FALSE
    OBVIOUS
  <2>1. Audit("C", base, Cardinality(Links(base)), 0, FALSE) \in AckAudits
    <3> HIDE DEF lines, alone, trails
    <3> QED BY <1>0
  <2>2. Audit("C", base, Cardinality(Links(base)), 0, FALSE).ok = FALSE
    BY DEF Audit
  <2> QED BY <2>1, <2>2
<1>2. PICK ram : OwnRams(base) = {ram}
  <2>1. OwnRams(base) \in SUBSET sdf.rams
    BY DEF OwnRams
  <2>2. IsFiniteSet(OwnRams(base))
    BY <2>1, FS_Subset DEF WellRouted
  <2>3. Cardinality(OwnRams(base)) = 1
    BY <1>1
  <2> QED BY <2>2, <2>3, FS_Singleton
<1>3. ram \in sdf.rams /\ own(base) = ram
  <2>1. ram \in OwnRams(base)
    BY <1>2
  <2>2. ram \in sdf.rams
    BY <2>1 DEF OwnRams
  <2> QED BY <1>2, <2>2
<1> HIDE DEF own
<1>4. ASSUME NEW h \in LineHead(base), NEW p \in LineTail(base), NEW x \in StartsReaching(h), NEW t, NEW c,
             Arrives(x, p, t, <<>>), Arrives(x, Pin(ram, "CLK"), c, <<>>),
             \A d : Arrives(x, Pin(ram, "CLK"), d, <<>>) => c <= d
      PROVE  t - c >= ClockToOut /\ 2 * (t - c) >= HoldNeeded
  <2> DEFINE W == Walk(x, FALSE, <<>>)
             clk == Pin(ram, "CLK")
             T == Trails(base, ram)
             least == Sets!Min(T)
  <2>1. /\ p \in DOMAIN W /\ W[p].t <= t /\ t \in Nat
        /\ clk \in DOMAIN W /\ W[clk].t <= c /\ c \in Nat
    BY <1>4, WalkBounds
  <2>2. W[p].t \in Nat /\ W[clk].t \in Nat /\ Arrives(x, clk, W[clk].t, <<>>)
    BY <2>1, WalkArrives
  <2>3. W[clk].t = c
    <3>1. c <= W[clk].t
      BY <1>4, <2>2
    <3> HIDE DEF W, clk
    <3> QED BY <3>1, <2>1, <2>2
  <2>4. W[p].t - W[clk].t \in T
    BY <2>1, TrailIn
  <2>5. least \in T /\ least <= W[p].t - W[clk].t /\ least \in Int
    <3>1. IsFiniteSet(T) /\ T \in SUBSET Int
      BY TrailsSane
    <3> HIDE DEF T, W, clk
    <3> QED BY <3>1, <2>4, LeastInt
  <2>6. AckAudit(base, least) \in AckAudits
    <3> DEFINE z == <<base, T>>
    <3>1. z \in {y \in trails : y[2] # {}} /\ z[1] = base /\ z[2] = T
      <4> HIDE DEF T, alone
      <4>1. z \in trails
        BY <1>1, <1>3 DEF T
      <4> HIDE DEF trails
      <4> QED BY <4>1, <2>5
    <3> HIDE DEF z, trails, T, alone, lines
    <3> QED BY <1>0, <3>1
  <2>7. least - ClockToOut >= 0 /\ 2 * least >= HoldNeeded
    <3>1. AckAudit(base, least).ok = (least - ClockToOut >= 0 /\ 2 * least >= HoldNeeded)
      <4> HIDE DEF least
      <4> QED BY DEF AckAudit, Audit
    <3> HIDE DEF least
    <3> QED BY <3>1, <2>6
  <2>8. ClockToOut \in Nat /\ HoldNeeded \in Nat
    BY CornerAssumption
  <2> HIDE DEF least, W, clk, T
  <2> QED BY <2>1, <2>2, <2>3, <2>5, <2>7, <2>8
<1> QED BY <1>2, <1>3, <1>4

-----------------------------------------------------------------------------
(* A run of tighten.py.                                                    *)

Begin == /\ WellRouted
         /\ edge = Over(sdf.io, sdf.net) /\ stops = {}
         /\ pc = "prune" /\ audits = {}

Run == Begin /\ [][Rules]_netvars

\* What each rule found, from the delays that the steps before them left.
Reported ==
  /\ pc \in {"B", "C", "D", "pass", "fail"} => RequestAudits \subseteq audits
  /\ pc \in {"C", "D", "pass", "fail"} => ClockAudits \subseteq audits
  /\ pc \in {"D", "pass", "fail"} => AckAudits \subseteq audits
  /\ pc \in {"pass", "fail"} => SelectAudits \subseteq audits

RunInv ==
  /\ WellRouted /\ Timed /\ OfFiles
  /\ pc \in {"A", "B", "C", "D", "pass", "fail"} => NoLoop
  /\ Reported
  /\ pc = "pass" => \A a \in audits : a.ok

LEMMA NetStable ==
  UNCHANGED <<sdf, edge, stops>> =>
    /\ WellRouted' = WellRouted /\ Timed' = Timed /\ OfFiles' = OfFiles /\ NoLoop' = NoLoop
<1>1. UNCHANGED <<sdf, edge, stops>> => WellRouted' = WellRouted
  BY DEF WellRouted
<1>2. UNCHANGED <<sdf, edge, stops>> => Timed' = Timed /\ OfFiles' = OfFiles
  BY DEF Timed, OfFiles, Arcs
<1>3. UNCHANGED <<sdf, edge, stops>> => NoLoop' = NoLoop
  BY DEF NoLoop, Round, Arcs
<1> QED BY <1>1, <1>2, <1>3

LEMMA RequestsStable ==
  UNCHANGED <<sdf, edge, stops>> => RequestAudits' = RequestAudits
<1> SUFFICES ASSUME UNCHANGED <<sdf, edge, stops>> PROVE RequestAudits' = RequestAudits
  OBVIOUS
<1>1. Sites' = Sites
  BY DEF Sites, Site, InputOf, LineHead, LineTail, Links, PinsOf, Chains, Instances, Output,
         Pins, Driver, Driven, Arcs
<1>2. \A s : RequestMargins(s)' = RequestMargins(s)
  BY SMTT(20) DEF RequestMargins, Common, Boundary, Peers, Output, Pins, Driver, Driven, Reaches, Grown,
         Margins, Guard, Walk, Relax, Onto, Arcs, Over, Arrival, One, Iterated
<1>3. \A s, w : RequestAudit(s, w)' = RequestAudit(s, w)
  <2>1. \A n, m, chain : Length(n, m, chain)' = Length(n, m, chain)
    BY DEF Length, MedianHop, Ranked, Arcs
  <2>2. \A s, from : ChainPs(s, from)' = ChainPs(s, from)
    BY DEF ChainPs, Walk, Relax, Onto, Arcs, Over, Arrival, One, Iterated
  <2> QED BY <2>1, <2>2 DEF RequestAudit, Audit
<1> QED BY <1>1, <1>2, <1>3 DEF RequestAudits, Worst

LEMMA ClocksStable ==
  UNCHANGED <<sdf, edge, stops>> => ClockAudits' = ClockAudits
<1> SUFFICES ASSUME UNCHANGED <<sdf, edge, stops>> PROVE ClockAudits' = ClockAudits
  OBVIOUS
<1>2. \A ram : ClockMargins(ram)' = ClockMargins(ram)
  BY SMTT(20) DEF ClockMargins, Common, StartsReaching, Feeding, Pins, Driver, Driven, Grown, Margins, Guard,
         Walk, Relax, Onto, Arcs, Over, Arrival, One, Iterated
<1>3. \A ram, w : ClockAudit(ram, w)' = ClockAudit(ram, w)
  BY SMTT(20) DEF ClockAudit, Audit, Length, MedianHop, Ranked, ChainsAs, LineHead, LineTail, Links, PinsOf, Chains,
         Instances, Output, Pins, Driver, Driven,
         Walk, Relax, Onto, Arcs, Over, Arrival, One, Iterated
<1> QED BY <1>2, <1>3 DEF ClockAudits, Worst

LEMMA AcksStable ==
  UNCHANGED <<sdf, edge, stops>> => AckAudits' = AckAudits
BY DEF AckAudits, AckAudit, Trails, OwnRams, Audit, Length, MedianHop, Ranked,
       ChainsAs, LineHead, LineTail, Links, PinsOf, Chains, Instances, StartsReaching, Feeding, Output,
       Pins, Driver, Driven, Grown, Walk, Relax, Onto, Arcs, Over, Arrival, One, Iterated

LEMMA SelectsStable ==
  UNCHANGED <<sdf, edge, stops>> => SelectAudits' = SelectAudits
BY DEF SelectAudits, SelectAudit, SelectMargins, SelectStarts, Audit, LinkCost, Ranked, Worst, LinkOf,
       Consumers, Consumer, OnPin, Recorded, Requests, Selects, StartsReaching, Feeding,
       Pins, Driver, Driven, Grown, Margins, Guard, Walk, Relax, Onto, Arcs, Over, Arrival, One,
       Iterated

LEMMA FirstHolds ==
  ASSUME Begin
  PROVE  RunInv
<1>1. WellRouted /\ pc = "prune"
  BY DEF Begin
<1>2. Timed /\ OfFiles
  BY <1>1, MergedTimed DEF Begin
<1> QED BY <1>1, <1>2 DEF RunInv, Reported

LEMMA StepKeeps ==
  ASSUME RunInv, [Rules]_netvars
  PROVE  RunInv'
<1> USE DEF RunInv
<1>1. CASE Prune
  <2>1. UNCHANGED <<sdf, audits>> /\ pc = "prune" /\ pc' \in {"abort", "storage"}
    <3>1. Prune => /\ pc = "prune" /\ UNCHANGED <<sdf, audits>>
                   /\ \E kept \in {{a : a \in Arcs \ FalseArcs}} :
                        IF Cardinality(Storage(kept)) # Cardinality(Storage(Arcs))
                        THEN pc' = "abort" /\ UNCHANGED <<edge, stops>>
                        ELSE edge' = [a \in kept |-> edge[a]] /\ pc' = "storage"
      BY DEF Prune
    <3> QED BY <1>1, <3>1
  <2>2. WellRouted'
    BY <2>1 DEF WellRouted
  <2>3. Timed' /\ OfFiles'
    <3>1. PICK kept : /\ kept = {a : a \in Arcs \ FalseArcs}
                      /\ \/ UNCHANGED edge
                         \/ edge' = [a \in kept |-> edge[a]]
      BY <1>1 DEF Prune
    <3>2. CASE UNCHANGED edge
      BY <2>1, <3>2 DEF Timed, OfFiles, Arcs
    <3>3. CASE edge' = [a \in kept |-> edge[a]]
      <4>1. kept \in SUBSET Arcs
        BY <3>1
      <4> QED BY <2>1, <3>3, <4>1, FewerTimed
    <3> QED BY <3>1, <3>2, <3>3
  <2> QED BY <2>1, <2>2, <2>3 DEF Reported
<1>2. CASE CheckStorage
  <2>1. UNCHANGED <<sdf, stops, audits>> /\ pc = "storage" /\ pc' \in {"abort", "A"}
    BY <1>2 DEF CheckStorage
  <2>2. WellRouted'
    BY <2>1 DEF WellRouted
  <2>3. Timed' /\ OfFiles'
    <3>1. \/ UNCHANGED edge
          \/ \E kept \in SUBSET Arcs : edge' = [a \in kept |-> edge[a]]
      <4> DEFINE ring(i) == \E o \in sdf.osc : In(i, o) /\ \E p \in Loose : In(p.inst, o)
                 kept == {b \in Arcs : ~ring(b[1].inst)}
      <4>1. CheckStorage => UNCHANGED edge \/ edge' = [a \in kept |-> edge[a]]
        BY DEF CheckStorage
      <4>2. kept \in SUBSET Arcs
        OBVIOUS
      <4> HIDE DEF kept
      <4> QED BY <1>2, <4>1, <4>2
    <3> QED BY <2>1, <3>1, FewerTimed DEF Timed, OfFiles, Arcs
  <2>4. pc' = "A" => NoLoop'
    BY <1>2, StorageCuts
  <2> QED BY <2>1, <2>2, <2>3, <2>4 DEF Reported
<1>3. ASSUME UNCHANGED <<sdf, edge, stops>>
      PROVE  /\ WellRouted' /\ Timed' /\ OfFiles' /\ NoLoop' = NoLoop
             /\ RequestAudits' = RequestAudits /\ ClockAudits' = ClockAudits
             /\ AckAudits' = AckAudits /\ SelectAudits' = SelectAudits
  BY <1>3, NetStable, RequestsStable, ClocksStable, AcksStable, SelectsStable
<1>4. CASE RuleA
  <2>1. pc = "A" /\ pc' = "B" /\ UNCHANGED <<sdf, edge, stops>> /\ audits' = RequestAudits
    BY <1>4 DEF RuleA, RequestAudits
  <2> QED BY <2>1, <1>3 DEF Reported
<1>5. CASE RuleB
  <2>1. pc = "B" /\ pc' = "C" /\ UNCHANGED <<sdf, edge, stops>> /\ audits' = audits \union ClockAudits
    BY <1>5 DEF RuleB, ClockAudits
  <2> QED BY <2>1, <1>3 DEF Reported
<1>6. CASE RuleC
  <2>1. pc = "C" /\ pc' = "D" /\ UNCHANGED <<sdf, edge, stops>> /\ audits \union AckAudits \subseteq audits'
    BY <1>6 DEF RuleC, AckAudits
  <2> QED BY <2>1, <1>3 DEF Reported
<1>7. CASE RuleD
  <2>1. /\ pc = "D" /\ pc' \in {"pass", "fail"} /\ UNCHANGED <<sdf, edge, stops>>
        /\ audits' = audits \union SelectAudits
        /\ pc' = "pass" => \A a \in audits' : a.ok
    BY <1>7 DEF RuleD, SelectAudits
  <2> QED BY <2>1, <1>3 DEF Reported
<1>8. CASE UNCHANGED netvars
  <2>1. UNCHANGED <<sdf, edge, stops>> /\ UNCHANGED <<pc, audits>>
    BY <1>8 DEF netvars
  <2> QED BY <2>1, <1>3 DEF Reported
<1> QED BY <1>1, <1>2, <1>4, <1>5, <1>6, <1>7, <1>8 DEF Rules

LEMMA RunKeeps == Run => []RunInv
<1>1. Begin => RunInv
  BY FirstHolds
<1>2. RunInv /\ [Rules]_netvars => RunInv'
  BY StepKeeps
<1> QED BY <1>1, <1>2, PTL DEF Run

\* "not a combinational loop is left" once the storage check has passed.
THEOREM AuditedIsCut == Run => [](pc \in {"A", "B", "C", "D", "pass", "fail"} => NoLoop)
<1>1. RunInv => (pc \in {"A", "B", "C", "D", "pass", "fail"} => NoLoop)
  BY DEF RunInv
<1> QED BY <1>1, RunKeeps, PTL

\* A walk of the timing rules reaches the pins a signal can get to and no other,
\* and says when the last of the signals, or the first, is there.
WalksExact ==
  \A from, cell : \A longest \in BOOLEAN :
    LET w == Walk(from, longest, cell)
    IN  /\ \A to : to \in DOMAIN w <=> \E t : Arrives(from, to, t, cell)
        /\ \A to \in DOMAIN w :
             /\ Arrives(from, to, w[to].t, cell)
             /\ \A t : Arrives(from, to, t, cell) =>
                      IF longest THEN t <= w[to].t ELSE w[to].t <= t

LEMMA CutExact == Timed /\ NoLoop => WalksExact
<1> SUFFICES ASSUME Timed, NoLoop, NEW from, NEW cell, NEW longest \in BOOLEAN
             PROVE  LET w == Walk(from, longest, cell)
                    IN  /\ \A to : to \in DOMAIN w <=> \E t : Arrives(from, to, t, cell)
                        /\ \A to \in DOMAIN w :
                             /\ Arrives(from, to, w[to].t, cell)
                             /\ \A t : Arrives(from, to, t, cell) =>
                                      IF longest THEN t <= w[to].t ELSE w[to].t <= t
  BY DEF WalksExact
<1>1. ASSUME NEW to, NEW t, Arrives(from, to, t, cell)
      PROVE  /\ to \in DOMAIN Walk(from, longest, cell)
             /\ IF longest THEN t <= Walk(from, longest, cell)[to].t
                           ELSE Walk(from, longest, cell)[to].t <= t
  BY <1>1, WalkBounds
<1>2. ASSUME NEW to \in DOMAIN Walk(from, longest, cell)
      PROVE  Arrives(from, to, Walk(from, longest, cell)[to].t, cell)
  BY <1>2, WalkArrives
<1> QED BY <1>1, <1>2

\* So the walks behind every audit are exact: no pass of walk was one too few.
THEOREM RulesWalkExactly == Run => [](pc \in {"A", "B", "C", "D", "pass", "fail"} => WalksExact)
<1>1. RunInv => (pc \in {"A", "B", "C", "D", "pass", "fail"} => WalksExact)
  BY CutExact DEF RunInv
<1> QED BY <1>1, RunKeeps, PTL

\* The docstring's promise, for what the last page of the report accepts: every
\* matched delay, RAM clock, acknowledge and select is late enough by its guard,
\* whichever of its starts' arrivals at the boundary the signals come by.
THEOREM PassIsCovered ==
  Run => [](pc = "pass" =>
              RequestsCovered /\ ClocksCovered /\ AcksTrail /\ SelectsCovered)
<1>1. RunInv => (pc = "pass" =>
                   RequestsCovered /\ ClocksCovered /\ AcksTrail /\ SelectsCovered)
  <2> SUFFICES ASSUME RunInv, pc = "pass"
               PROVE  RequestsCovered /\ ClocksCovered /\ AcksTrail /\ SelectsCovered
    OBVIOUS
  <2>1. WellRouted /\ Timed /\ NoLoop /\ Reported /\ \A a \in audits : a.ok
    BY DEF RunInv
  <2>2. /\ \A a \in RequestAudits : a.ok
        /\ \A a \in ClockAudits : a.ok
        /\ \A a \in AckAudits : a.ok
        /\ \A a \in SelectAudits : a.ok
    BY <2>1 DEF Reported
  <2> QED BY <2>1, <2>2, RequestsSound, ClocksSound, AcksSound, SelectsSound
<1> QED BY <1>1, RunKeeps, PTL

-----------------------------------------------------------------------------
(* The designs of MCTiming are routed netlists.                            *)

Ins  == {"A1", "A2", "A3", "A4", "A", "CLK", "ADDR"}
Outs == {"O", "P", "DO"}

\* An arc of a part, from a port of these to one of those; off: of no oscillator.
Leads(t, these, those, off) ==
  /\ t = <<t[1], t[2], t[3]>> /\ t[3] \in Nat
  /\ t[1].port \in these /\ t[2].port \in those
  /\ off => t[1].inst.at # <<"osc">> /\ t[2].inst.at # <<"osc">>

Wired(p, off) ==
  /\ IsFiniteSet(p.io) /\ IsFiniteSet(p.net) /\ IsFiniteSet(p.luts)
  /\ \A t \in p.io : Leads(t, Ins, Outs, off)
  /\ \A t \in p.net : Leads(t, Outs, Ins, off)
  /\ off => \A x \in p.luts : x[1].at # <<"osc">>

\* What drives a cell's inputs.
Drives(x, off) == /\ x[1].port \in Outs /\ x[2] \in Nat
                  /\ off => x[1].inst.at # <<"osc">>

LEMMA CellWired ==
  ASSUME NEW i, NEW in, NEW order, NEW out \in Outs, NEW d \in Nat, NEW off \in BOOLEAN,
         IsFiniteSet(DOMAIN in), off => i.at # <<"osc">>,
         \A k \in DOMAIN in : order[k] \in Ins /\ Drives(in[k], off)
  PROVE  Wired(Cell(i, in, order, out, d), off)
<1> DEFINE c == Cell(i, in, order, out, d)
           f == [k \in DOMAIN in |-> <<Pin(i, order[k]), Pin(i, out), d>>]
           g == [k \in DOMAIN in |-> <<in[k][1], Pin(i, order[k]), in[k][2]>>]
<1>1. /\ c.io = {f[k] : k \in DOMAIN in}
      /\ c.net = {g[k] : k \in DOMAIN in}
      /\ c.luts = {}
  BY DEF Cell
<1>2. IsFiniteSet(c.io)
  <2> DEFINE T == {f[k] : k \in DOMAIN in}
  <2>1. f \in [DOMAIN in -> T]
    OBVIOUS
  <2> HIDE DEF f
  <2>2. IsFiniteSet(T)
    <3>1. IsFiniteSet({f[k] : k \in DOMAIN in})
      <4> HIDE DEF T
      <4> QED BY <2>1, FiniteImage
    <3> QED BY <3>1
  <2> HIDE DEF T, c
  <2> QED BY <1>1, <2>2 DEF T
<1>3. IsFiniteSet(c.net)
  <2> DEFINE T == {g[k] : k \in DOMAIN in}
  <2>1. g \in [DOMAIN in -> T]
    OBVIOUS
  <2> HIDE DEF g
  <2>2. IsFiniteSet(T)
    <3>1. IsFiniteSet({g[k] : k \in DOMAIN in})
      <4> HIDE DEF T
      <4> QED BY <2>1, FiniteImage
    <3> QED BY <3>1
  <2> HIDE DEF T, c
  <2> QED BY <1>1, <2>2 DEF T
<1>4. \A k \in DOMAIN in : Leads(f[k], Ins, Outs, off)
  BY DEF Leads, Pin
<1>5. \A k \in DOMAIN in : Leads(g[k], Outs, Ins, off)
  BY DEF Leads, Pin, Drives
<1>6. IsFiniteSet({})
  BY FS_EmptySet
<1> HIDE DEF c, f, g
<1> QED BY <1>1, <1>2, <1>3, <1>4, <1>5, <1>6 DEF Wired, c

LEMMA LutCellWired ==
  ASSUME NEW i, NEW in, NEW order, NEW uses, NEW off \in BOOLEAN,
         IsFiniteSet(DOMAIN in), off => i.at # <<"osc">>,
         \A k \in DOMAIN in : order[k] \in Ins /\ Drives(in[k], off)
  PROVE  Wired(LutCell(i, in, order, uses), off)
<1> DEFINE c == Cell(i, in, order, "O", Lut)
           l == LutCell(i, in, order, uses)
<1>1. Wired(c, off)
  <2>1. "O" \in Outs /\ Lut \in Nat
    BY DEF Outs, Lut
  <2> QED BY <2>1, CellWired
<1>2. /\ l.io = c.io /\ l.net = c.net
      /\ \E u : l.luts = {<<i, u>>}
  BY DEF LutCell, Cell
<1>3. \A y : IsFiniteSet({y})
  BY FS_Singleton
<1> HIDE DEF c, l
<1>4. IsFiniteSet(l.luts) /\ \A x \in l.luts : x[1] = i
  <2>1. PICK u : l.luts = {<<i, u>>}
    BY <1>2
  <2>2. IsFiniteSet({<<i, u>>})
    BY <1>3
  <2> QED BY <2>1, <2>2
<1> QED BY <1>1, <1>2, <1>4 DEF Wired, l

LEMMA GateWired ==
  ASSUME NEW i, NEW in, NEW off \in BOOLEAN,
         DOMAIN in \in SUBSET (1..4), off => i.at # <<"osc">>,
         \A k \in DOMAIN in : Drives(in[k], off)
  PROVE  Wired(Gate(i, in), off)
<1> DEFINE order == [k \in DOMAIN in |-> Port(k)]
<1>1. \A k \in DOMAIN in : order[k] \in Ins
  BY DEF Port, Ins
<1>2. IsFiniteSet(DOMAIN in)
  <2>1. \A b \in Int : IsFiniteSet(1..b)
    BY FS_Interval
  <2> DEFINE four == 4
  <2>2. four \in Int /\ DOMAIN in \in SUBSET (1..four)
    OBVIOUS
  <2> HIDE DEF four
  <2> QED BY <2>1, <2>2, FS_Subset
<1> HIDE DEF order
<1>3. Wired(LutCell(i, in, order, 0..Len(in)-1), off)
  BY <1>1, <1>2, LutCellWired
<1> QED BY <1>3 DEF Gate, order

\* Of cells with one, two, three and four inputs.
LEMMA GatesWired ==
  ASSUME NEW i, NEW off \in BOOLEAN, off => i.at # <<"osc">>, NEW a, Drives(a, off)
  PROVE  /\ Wired(Gate(i, <<a>>), off)
         /\ \A b : Drives(b, off) => Wired(Gate(i, <<a, b>>), off)
         /\ \A b, c : Drives(b, off) /\ Drives(c, off) => Wired(Gate(i, <<a, b, c>>), off)
         /\ \A b, c, d : Drives(b, off) /\ Drives(c, off) /\ Drives(d, off) =>
              Wired(Gate(i, <<a, b, c, d>>), off)
<1>1. Wired(Gate(i, <<a>>), off)
  <2> DEFINE in == <<a>>
  <2>1. DOMAIN in \in SUBSET (1..4) /\ \A k \in DOMAIN in : Drives(in[k], off)
    OBVIOUS
  <2> HIDE DEF in
  <2>2. Wired(Gate(i, in), off)
    BY <2>1, GateWired
  <2> QED BY <2>2 DEF in
<1>2. ASSUME NEW b, Drives(b, off) PROVE Wired(Gate(i, <<a, b>>), off)
  <2> DEFINE in == <<a, b>>
  <2>1. DOMAIN in \in SUBSET (1..4) /\ \A k \in DOMAIN in : Drives(in[k], off)
    BY <1>2
  <2> HIDE DEF in
  <2>2. Wired(Gate(i, in), off)
    BY <2>1, GateWired
  <2> QED BY <2>2 DEF in
<1>3. ASSUME NEW b, NEW c, Drives(b, off), Drives(c, off) PROVE Wired(Gate(i, <<a, b, c>>), off)
  <2> DEFINE in == <<a, b, c>>
  <2>1. DOMAIN in \in SUBSET (1..4) /\ \A k \in DOMAIN in : Drives(in[k], off)
    BY <1>3
  <2> HIDE DEF in
  <2>2. Wired(Gate(i, in), off)
    BY <2>1, GateWired
  <2> QED BY <2>2 DEF in
<1>4. ASSUME NEW b, NEW c, NEW d, Drives(b, off), Drives(c, off), Drives(d, off)
      PROVE  Wired(Gate(i, <<a, b, c, d>>), off)
  <2> DEFINE in == <<a, b, c, d>>
  <2>1. DOMAIN in \in SUBSET (1..4) /\ \A k \in DOMAIN in : Drives(in[k], off)
    BY <1>4
  <2> HIDE DEF in
  <2>2. Wired(Gate(i, in), off)
    BY <2>1, GateWired
  <2> QED BY <2>2 DEF in
<1> QED BY <1>1, <1>2, <1>3, <1>4

LEMMA MergeWired ==
  ASSUME NEW parts, IsFiniteSet(parts), NEW off \in BOOLEAN, \A p \in parts : Wired(p, off)
  PROVE  Wired(Merge(parts), off)
<1>1. /\ Merge(parts).io = UNION {p.io : p \in parts}
      /\ Merge(parts).net = UNION {p.net : p \in parts}
      /\ Merge(parts).luts = UNION {p.luts : p \in parts}
  BY DEF Merge
<1>2. \A f \in [parts -> {p.io : p \in parts}] : IsFiniteSet({f[p] : p \in parts})
  BY FiniteImage
<1>3. \A f \in [parts -> {p.net : p \in parts}] : IsFiniteSet({f[p] : p \in parts})
  BY FiniteImage
<1>4. \A f \in [parts -> {p.luts : p \in parts}] : IsFiniteSet({f[p] : p \in parts})
  BY FiniteImage
<1>5. IsFiniteSet({p.io : p \in parts}) /\ IsFiniteSet({p.net : p \in parts}) /\ IsFiniteSet({p.luts : p \in parts})
  <2>1. {[p \in parts |-> p.io][q] : q \in parts} = {p.io : p \in parts}
    OBVIOUS
  <2>2. {[p \in parts |-> p.net][q] : q \in parts} = {p.net : p \in parts}
    OBVIOUS
  <2>3. {[p \in parts |-> p.luts][q] : q \in parts} = {p.luts : p \in parts}
    OBVIOUS
  <2>4. [p \in parts |-> p.io] \in [parts -> {p.io : p \in parts}]
    OBVIOUS
  <2>5. [p \in parts |-> p.net] \in [parts -> {p.net : p \in parts}]
    OBVIOUS
  <2>6. [p \in parts |-> p.luts] \in [parts -> {p.luts : p \in parts}]
    OBVIOUS
  <2> QED BY <1>2, <1>3, <1>4, <2>1, <2>2, <2>3, <2>4, <2>5, <2>6
<1>6. /\ IsFiniteSet(UNION {p.io : p \in parts})
      /\ IsFiniteSet(UNION {p.net : p \in parts})
      /\ IsFiniteSet(UNION {p.luts : p \in parts})
  <2>1. \A T \in {p.io : p \in parts} : IsFiniteSet(T)
    BY DEF Wired
  <2>2. \A T \in {p.net : p \in parts} : IsFiniteSet(T)
    BY DEF Wired
  <2>3. \A T \in {p.luts : p \in parts} : IsFiniteSet(T)
    BY DEF Wired
  <2> QED BY <1>5, <2>1, <2>2, <2>3, FS_UNION
<1>7. /\ \A t \in UNION {p.io : p \in parts} : Leads(t, Ins, Outs, off)
      /\ \A t \in UNION {p.net : p \in parts} : Leads(t, Outs, Ins, off)
      /\ off => \A x \in UNION {p.luts : p \in parts} : x[1].at # <<"osc">>
  BY DEF Wired
<1> QED BY <1>1, <1>6, <1>7 DEF Wired

\* A pin that may drive others.
Source(pin, off) == pin.port \in Outs /\ (off => pin.inst.at # <<"osc">>)

LEMMA OfInstance ==
  ASSUME NEW at, NEW name, NEW n, NEW off \in BOOLEAN, off => at # <<"osc">>
  PROVE  Source(O(Inst(at, name, n)), off) /\ (off => Inst(at, name, n).at # <<"osc">>)
BY DEF Source, O, Pin, Inst, Outs

LEMMA SourceDrives ==
  ASSUME NEW pin, NEW d \in Nat, NEW off \in BOOLEAN, Source(pin, off)
  PROVE  Drives(<<pin, d>>, off)
BY DEF Source, Drives

LEMMA LineWired ==
  ASSUME NEW base, NEW n \in Nat, NEW from, NEW d \in Nat, NEW off \in BOOLEAN,
         off => base # <<"osc">>, Source(from, off)
  PROVE  Wired(Line(base, n, from, d), off) /\ Source(End(base, n, from), off)
<1> DEFINE in(k) == IF k = 1 THEN <<from, d>> ELSE <<O(Inst(base, "link", k-1)), Hop>>
           g == [k \in 1..n |-> Gate(Inst(base, "link", k), <<in(k)>>)]
           parts == {g[k] : k \in 1..n}
<1>1. Hop \in Nat
  BY DEF Hop
<1>2. \A k \in 1..n : Drives(in(k), off)
  BY <1>1, OfInstance, SourceDrives
<1>3. \A k \in 1..n : Wired(g[k], off)
  <2> HIDE DEF in
  <2> QED BY <1>2, OfInstance, GatesWired
<1>4. IsFiniteSet(parts)
  <2>1. IsFiniteSet(1..n)
    BY FS_Interval
  <2> DEFINE T == {g[k] : k \in 1..n}
  <2>2. g \in [1..n -> T]
    OBVIOUS
  <2> HIDE DEF g, T
  <2> QED BY <2>1, <2>2, FiniteImage
<1>5. Line(base, n, from, d) = Merge(parts)
  BY DEF Line
<1>6. Source(End(base, n, from), off)
  BY OfInstance DEF End
<1>7. \A p \in parts : Wired(p, off)
  BY <1>3
<1> HIDE DEF parts
<1>8. Wired(Merge(parts), off)
  BY <1>4, <1>7, MergeWired
<1> QED BY <1>5, <1>6, <1>8

LEMMA SinkWired ==
  ASSUME NEW name, NEW pin, NEW off \in BOOLEAN, Source(pin, off)
  PROVE  Wired(Sink(name, pin), off)
<1> DEFINE i == Inst(<<>>, name, 0)
           in == <<<<pin, Hop>>>>
           order == <<"A1">>
<1>1. IsFiniteSet(DOMAIN in)
  <2>1. \A b \in Int : IsFiniteSet(1..b)
    BY FS_Interval
  <2> DEFINE one == 1
  <2>2. one \in Int /\ DOMAIN in = 1..one
    OBVIOUS
  <2> HIDE DEF one, in
  <2> QED BY <2>1, <2>2
<1>2. \A k \in DOMAIN in : order[k] \in Ins /\ Drives(in[k], off)
  BY SourceDrives DEF Ins, Hop
<1>3. i.at # <<"osc">>
  BY DEF Inst
<1>4. "O" \in Outs /\ Lut \in Nat
  BY DEF Outs, Lut
<1> HIDE DEF i, in, order
<1>5. Wired(Cell(i, in, order, "O", Lut), off)
  BY <1>1, <1>2, <1>3, <1>4, CellWired
<1> QED BY <1>5 DEF Sink, i, in, order

LEMMA OutsideDrives ==
  ASSUME NEW n, NEW off \in BOOLEAN
  PROVE  Source(Outside(n), off)
BY OfInstance DEF Outside

\* Of a few parts.
LEMMA FewWired ==
  ASSUME NEW off \in BOOLEAN, NEW a, NEW b, NEW c, NEW d, NEW e,
         Wired(a, off), Wired(b, off), Wired(c, off), Wired(d, off), Wired(e, off)
  PROVE  Wired(Merge({a, b, c, d, e}), off)
<1> DEFINE ab == {a} \union {b}
           cd == {c} \union {d}
           parts == (ab \union cd) \union {e}
<1>1. IsFiniteSet({a}) /\ IsFiniteSet({b}) /\ IsFiniteSet({c}) /\ IsFiniteSet({d}) /\ IsFiniteSet({e})
  BY FS_Singleton
<1>2. IsFiniteSet(ab) /\ IsFiniteSet(cd)
  BY <1>1, FS_Union
<1>3. IsFiniteSet(ab \union cd)
  <2> HIDE DEF ab, cd
  <2> QED BY <1>2, FS_Union
<1>4. IsFiniteSet(parts)
  <2> HIDE DEF ab, cd
  <2> QED BY <1>1, <1>3, FS_Union
<1>5. \A p \in parts : Wired(p, off)
  OBVIOUS
<1>6. parts = {a, b, c, d, e}
  OBVIOUS
<1> HIDE DEF parts
<1>7. Wired(Merge(parts), off)
  BY <1>4, <1>5, MergeWired
<1> QED BY <1>6, <1>7

LEMMA UnitWired ==
  ASSUME NEW n \in Nat, NEW d \in Nat, NEW apart \in BOOLEAN, NEW dsp \in BOOLEAN
  PROVE  Wired(Unit(n, d, apart, dsp).part, TRUE) /\ Unit(n, d, apart, dsp).rams = {}
<1> DEFINE or   == Inst(<<"u">>, "uor", 0)
           f    == Inst(<<"u">>, "f", 0)
           out  == Pin(f, IF dsp THEN "P" ELSE "O")
           data == Outside(IF apart THEN 2 ELSE 1)
           line == <<"u", "udly">>
           tail == End(line, n, O(or))
           unit == IF dsp THEN Cell(f, <<<<data, Hop>>>>, <<"A">>, "P", d) ELSE Gate(f, <<<<data, d>>>>)
           a == Gate(or, <<<<Outside(1), Hop>>>>)
           b == Line(line, n, O(or), Hop)
           c == Sink("req", tail)
           e == Sink("data", out)
<1>0. Unit(n, d, apart, dsp).part = Merge({a, b, c, e, unit}) /\ Unit(n, d, apart, dsp).rams = {}
  BY DEF Unit
<1>1. Hop \in Nat /\ line # <<"osc">> /\ or.at # <<"osc">> /\ f.at # <<"osc">>
  BY DEF Hop, Inst
<1>2. Source(O(or), TRUE) /\ Source(out, TRUE) /\ Source(data, TRUE) /\ Source(Outside(1), TRUE)
  <2>1. Source(O(or), TRUE)
    BY OfInstance
  <2>2. Source(out, TRUE)
    BY DEF Source, Pin, Inst, Outs
  <2> QED BY <2>1, <2>2, OutsideDrives
<1> HIDE DEF or, f, out, data, line
<1>3. Wired(b, TRUE) /\ Source(tail, TRUE)
  BY <1>1, <1>2, LineWired
<1>4. Wired(a, TRUE) /\ Wired(c, TRUE) /\ Wired(e, TRUE)
  <2>1. Drives(<<Outside(1), Hop>>, TRUE)
    BY <1>1, <1>2, SourceDrives
  <2> HIDE DEF tail
  <2> QED BY <1>1, <1>2, <1>3, <2>1, GatesWired, SinkWired
<1>5. Wired(unit, TRUE)
  <2>1. Drives(<<data, d>>, TRUE) /\ Drives(<<data, Hop>>, TRUE)
    BY <1>1, <1>2, SourceDrives
  <2>2. Wired(Gate(f, <<<<data, d>>>>), TRUE)
    BY <1>1, <2>1, GatesWired
  <2>3. Wired(Cell(f, <<<<data, Hop>>>>, <<"A">>, "P", d), TRUE)
    <3> DEFINE in == <<<<data, Hop>>>>
               order == <<"A">>
               one == 1
    <3>1. \A m \in Int : IsFiniteSet(1..m)
      BY FS_Interval
    <3>2. one \in Int /\ DOMAIN in = 1..one
      OBVIOUS
    <3>3. \A k \in DOMAIN in : order[k] \in Ins /\ Drives(in[k], TRUE)
      <4>1. \A k \in DOMAIN in : order[k] = "A" /\ in[k] = <<data, Hop>>
        OBVIOUS
      <4>2. "A" \in Ins
        BY DEF Ins
      <4> HIDE DEF in, order
      <4> QED BY <2>1, <4>1, <4>2
    <3>4. "P" \in Outs
      BY DEF Outs
    <3> HIDE DEF in, order, one
    <3>5. Wired(Cell(f, in, order, "P", d), TRUE)
      BY <1>1, <3>1, <3>2, <3>3, <3>4, CellWired
    <3> QED BY <3>5 DEF in, order
  <2> QED BY <2>2, <2>3
<1> HIDE DEF a, b, c, e, unit, tail
<1>6. Wired(Merge({a, b, c, e, unit}), TRUE)
  BY <1>3, <1>4, <1>5, FewWired
<1> QED BY <1>0, <1>6

LEMMA FewFinite ==
  ASSUME NEW a, NEW b, NEW c, NEW d, NEW e
  PROVE  IsFiniteSet({a, b, c, d, e}) /\ IsFiniteSet({a, b, c}) /\ IsFiniteSet({a, b})
<1>1. \A x, y : IsFiniteSet({x} \union {y})
  BY FS_Singleton, FS_Union
<1>2. \A x, y, z : IsFiniteSet(({x} \union {y}) \union {z})
  <2> SUFFICES ASSUME NEW x, NEW y, NEW z PROVE IsFiniteSet(({x} \union {y}) \union {z})
    OBVIOUS
  <2> DEFINE xy == {x} \union {y}
  <2>1. IsFiniteSet(xy) /\ IsFiniteSet({z})
    BY <1>1, FS_Singleton
  <2> HIDE DEF xy
  <2>2. IsFiniteSet(xy \union {z})
    BY <2>1, FS_Union
  <2> QED BY <2>2 DEF xy
<1>3. IsFiniteSet({a, b}) /\ IsFiniteSet({a, b, c})
  <2> DEFINE ab == {a, b}
             abc == {a, b, c}
             AB == {a} \union {b}
             ABC == AB \union {c}
  <2>1. ab = AB /\ abc = ABC
    OBVIOUS
  <2>2. IsFiniteSet(AB) /\ IsFiniteSet(ABC)
    BY <1>1, <1>2
  <2> HIDE DEF ab, abc, AB, ABC
  <2>3. IsFiniteSet(ab) /\ IsFiniteSet(abc)
    BY <2>1, <2>2
  <2> QED BY <2>3 DEF ab, abc
<1>4. IsFiniteSet({a, b, c, d, e})
  <2> DEFINE abc == {a, b, c}
             de == {d} \union {e}
  <2>1. IsFiniteSet(abc) /\ IsFiniteSet(de)
    BY <1>1, <1>3
  <2>2. {a, b, c, d, e} = abc \union de
    OBVIOUS
  <2> HIDE DEF abc, de
  <2> QED BY <2>1, <2>2, FS_Union
<1> QED BY <1>3, <1>4

LEMMA BothWired ==
  ASSUME NEW off \in BOOLEAN, NEW P, NEW Q, IsFiniteSet(P), IsFiniteSet(Q),
         \A p \in P : Wired(p, off), \A q \in Q : Wired(q, off)
  PROVE  Wired(Merge(P \union Q), off)
<1>1. IsFiniteSet(P \union Q)
  BY FS_Union
<1> QED BY <1>1, MergeWired

LEMMA MuxWired ==
  ASSUME NEW n \in Nat, NEW d \in Nat, NEW data \in BOOLEAN
  PROVE  Wired(Mux(n, d, data).part, TRUE) /\ Mux(n, d, data).rams = {}
<1> DEFINE j(k) == Inst(<<"mux">>, <<"uj0", "uj1">>[k], 0)
           a(k) == Inst(<<"mux">>, <<"uxa", "uya">>[k], 0)
           or   == Inst(<<"mux">>, "uor", 0)
           dat  == Inst(<<"mux">>, "udat", 0)
           line == <<"mux", "udly">>
           tail == End(line, n, O(or))
           s    == Outside(6)
           join(k) == Gate(j(k), <<<<Outside(k), Hop>>, <<Outside(5), 4 * Hop>>, <<s, Hop>>, <<O(j(k)), Hop>>>>)
           held(k) == Gate(a(k), <<<<O(j(k)), Hop>>, <<Outside(7), Hop>>, <<O(a(k)), Hop>>>>)
           ack(k) == Sink("ack", O(a(k)))
           each(k) == {join(k), held(k), ack(k)}
           either == Gate(or, <<<<O(j(1)), Hop>>, <<O(j(2)), Hop>>>>)
           delay == Line(line, n, O(or), Hop)
           chosen == Gate(dat, <<<<Outside(3), d>>, <<Outside(4), d>>, <<s, Hop>>>>)
           req == Sink("req", tail)
           out == Sink("data", O(dat))
<1>0. /\ Mux(n, d, data).part = Merge((UNION {each(k) : k \in 1..2}) \union {either, delay, chosen, req, out})
      /\ Mux(n, d, data).rams = {}
  BY DEF Mux
<1>1. Hop \in Nat /\ 4 * Hop \in Nat
  BY DEF Hop
<1>2. /\ \A k : Source(O(j(k)), TRUE) /\ Source(O(a(k)), TRUE)
      /\ Source(O(or), TRUE) /\ Source(O(dat), TRUE)
      /\ \A k : j(k).at # <<"osc">> /\ a(k).at # <<"osc">>
      /\ or.at # <<"osc">> /\ dat.at # <<"osc">> /\ line # <<"osc">>
  <2>1. <<"mux">> # <<"osc">>
    OBVIOUS
  <2> QED BY <2>1, OfInstance
<1>3. \A k : Source(Outside(k), TRUE)
  BY OutsideDrives
<1> HIDE DEF j, a, or, dat, line
<1>4. \A k : Wired(join(k), TRUE) /\ Wired(held(k), TRUE) /\ Wired(ack(k), TRUE)
  <2> SUFFICES ASSUME NEW k PROVE Wired(join(k), TRUE) /\ Wired(held(k), TRUE) /\ Wired(ack(k), TRUE)
    OBVIOUS
  <2>1. /\ Drives(<<Outside(k), Hop>>, TRUE) /\ Drives(<<Outside(5), 4 * Hop>>, TRUE)
        /\ Drives(<<s, Hop>>, TRUE) /\ Drives(<<Outside(7), Hop>>, TRUE)
        /\ Drives(<<O(j(k)), Hop>>, TRUE) /\ Drives(<<O(a(k)), Hop>>, TRUE)
    BY <1>1, <1>2, <1>3, SourceDrives
  <2>2. Wired(join(k), TRUE)
    BY <1>2, <2>1, GatesWired
  <2>3. Wired(held(k), TRUE)
    BY <1>2, <2>1, GatesWired
  <2>4. Wired(ack(k), TRUE)
    BY <1>2, SinkWired
  <2> QED BY <2>2, <2>3, <2>4
<1>5. Wired(delay, TRUE) /\ Source(tail, TRUE)
  BY <1>1, <1>2, LineWired
<1>6. Wired(either, TRUE) /\ Wired(chosen, TRUE)
  <2>1. /\ Drives(<<O(j(1)), Hop>>, TRUE) /\ Drives(<<O(j(2)), Hop>>, TRUE)
        /\ Drives(<<Outside(3), d>>, TRUE) /\ Drives(<<Outside(4), d>>, TRUE) /\ Drives(<<s, Hop>>, TRUE)
    BY <1>1, <1>2, <1>3, SourceDrives
  <2>2. Wired(either, TRUE)
    BY <1>2, <2>1, GatesWired
  <2>3. Wired(chosen, TRUE)
    BY <1>2, <2>1, GatesWired
  <2> QED BY <2>2, <2>3
<1>7. Wired(req, TRUE) /\ Wired(out, TRUE)
  <2> HIDE DEF tail
  <2> QED BY <1>2, <1>5, SinkWired
<1> HIDE DEF join, held, ack, either, delay, chosen, req, out
<1> DEFINE P == UNION {each(k) : k \in 1..2}
           Q == {either, delay, chosen, req, out}
<1>8. IsFiniteSet(P) /\ \A p \in P : Wired(p, TRUE)
  <2>1. \A k : IsFiniteSet(each(k)) /\ \A p \in each(k) : Wired(p, TRUE)
    BY <1>4, FewFinite
  <2>2. P = each(1) \union each(2)
    <3> HIDE DEF each
    <3> QED OBVIOUS
  <2> HIDE DEF each, P
  <2> QED BY <2>1, <2>2, FS_Union
<1>9. IsFiniteSet(Q)
  BY FewFinite
<1>11. \A p \in {either, delay, chosen, req, out} : Wired(p, TRUE)
  BY <1>5, <1>6, <1>7
<1> HIDE DEF P, Q
<1>12. Wired(Merge(P \union Q), TRUE)
  BY <1>8, <1>9, <1>11, BothWired DEF P, Q
<1> QED BY <1>0, <1>12 DEF P, Q

\* LUTs of two and three inputs, whatever ports the packer put them on.
LEMMA LutsWired ==
  ASSUME NEW i, NEW uses, NEW off \in BOOLEAN, off => i.at # <<"osc">>,
         NEW a, Drives(a, off), NEW b, Drives(b, off), NEW x \in Ins, NEW y \in Ins
  PROVE  /\ Wired(LutCell(i, <<a, b>>, <<x, y>>, uses), off)
         /\ \A c : \A z \in Ins :
              Drives(c, off) => Wired(LutCell(i, <<a, b, c>>, <<x, y, z>>, uses), off)
         /\ \A d \in Nat : \A out \in Outs : Wired(Cell(i, <<a, b>>, <<x, y>>, out, d), off)
<1>1. \A m \in Int : IsFiniteSet(1..m)
  BY FS_Interval
<1>2. /\ Wired(LutCell(i, <<a, b>>, <<x, y>>, uses), off)
      /\ \A d \in Nat : \A out \in Outs : Wired(Cell(i, <<a, b>>, <<x, y>>, out, d), off)
  <2> DEFINE in == <<a, b>>
             order == <<x, y>>
             two == 2
  <2>1. \A k \in DOMAIN in : order[k] \in Ins /\ Drives(in[k], off)
    OBVIOUS
  <2>2. two \in Int /\ DOMAIN in = 1..two
    OBVIOUS
  <2> HIDE DEF in, order, two
  <2>3. Wired(LutCell(i, in, order, uses), off)
    BY <1>1, <2>1, <2>2, LutCellWired
  <2>4. \A d \in Nat : \A out \in Outs : Wired(Cell(i, in, order, out, d), off)
    BY <1>1, <2>1, <2>2, CellWired
  <2> QED BY <2>3, <2>4 DEF in, order
<1>3. ASSUME NEW c, NEW z \in Ins, Drives(c, off)
      PROVE  Wired(LutCell(i, <<a, b, c>>, <<x, y, z>>, uses), off)
  <2> DEFINE in == <<a, b, c>>
             order == <<x, y, z>>
             three == 3
  <2>1. \A k \in DOMAIN in : order[k] \in Ins /\ Drives(in[k], off)
    BY <1>3
  <2>2. three \in Int /\ DOMAIN in = 1..three
    OBVIOUS
  <2> HIDE DEF in, order, three
  <2>3. Wired(LutCell(i, in, order, uses), off)
    BY <1>1, <2>1, <2>2, LutCellWired
  <2> QED BY <2>3 DEF in, order
<1> QED BY <1>2, <1>3

LEMMA SteerWired ==
  ASSUME NEW n \in Nat, NEW d \in Nat, NEW cross \in BOOLEAN
  PROVE  Wired(Steer(n, d, cross).part, TRUE) /\ Steer(n, d, cross).rams = {}
<1> DEFINE c    == Inst(<<"lnk", "ctl">>, "u", 0)
           l    == Inst(<<"lnk", "lat">>, "pair", 0)
           cond == Inst(<<>>, "cond", 0)
           both == Inst(<<"st">>, "uack", 0)
           line == <<"lnk", "rdly">>
           req  == End(line, n, O(c))
           u(k) == Inst(<<"st">>, "u", k)
           pins == IF cross THEN <<"A2", "A1">> ELSE <<"A1", "A2">>
           link == Gate(c, <<<<Outside(1), Hop>>, <<Outside(2), Hop>>, <<O(c), Hop>>>>)
           latch == LutCell(l, <<<<Outside(3), Hop>>, <<O(c), d>>, <<O(l), Hop>>>>, <<"A3", "A1", "A2">>, 0..2)
           delay == Line(line, n, O(c), Hop)
           logic == Gate(cond, <<<<O(l), Hop>>>>)
           ack == Gate(both, <<<<Outside(4), Hop>>, <<Outside(5), Hop>>>>)
           way(k) == LutCell(u(k), <<<<req, Hop>>, <<O(cond), Hop>>>>, pins, {0, 1})
           br(k) == Sink("br", O(u(k)))
           P == {link, latch, delay, logic, ack}
           Q == {way(k) : k \in 5..6}
           R == {br(k) : k \in 5..6}
<1>0. /\ Steer(n, d, cross).part = Merge(P \union Q \union R)
      /\ Steer(n, d, cross).rams = {}
  BY DEF Steer
<1>1. Hop \in Nat
  BY DEF Hop
<1>2. /\ Source(O(c), TRUE) /\ Source(O(l), TRUE) /\ Source(O(cond), TRUE)
      /\ \A k : Source(O(u(k)), TRUE) /\ u(k).at # <<"osc">>
      /\ c.at # <<"osc">> /\ l.at # <<"osc">> /\ cond.at # <<"osc">> /\ both.at # <<"osc">>
      /\ line # <<"osc">>
  <2>1. <<"lnk", "ctl">> # <<"osc">> /\ <<"lnk", "lat">> # <<"osc">> /\ <<"st">> # <<"osc">>
        /\ <<>> # <<"osc">> /\ line # <<"osc">>
    OBVIOUS
  <2> QED BY <2>1, OfInstance
<1>3. \A k : Source(Outside(k), TRUE)
  BY OutsideDrives
<1> HIDE DEF c, l, cond, both, u, line
<1>4. Wired(delay, TRUE) /\ Source(req, TRUE)
  BY <1>1, <1>2, LineWired
<1>5. /\ \A k : Drives(<<Outside(k), Hop>>, TRUE)
      /\ Drives(<<O(c), Hop>>, TRUE) /\ Drives(<<O(c), d>>, TRUE)
      /\ Drives(<<O(l), Hop>>, TRUE) /\ Drives(<<O(cond), Hop>>, TRUE) /\ Drives(<<req, Hop>>, TRUE)
  <2> HIDE DEF req
  <2> QED BY <1>1, <1>2, <1>3, <1>4, SourceDrives
<1>6. Wired(link, TRUE) /\ Wired(logic, TRUE) /\ Wired(ack, TRUE)
  BY <1>2, <1>5, GatesWired
<1>7. Wired(latch, TRUE)
  <2>1. "A1" \in Ins /\ "A2" \in Ins /\ "A3" \in Ins
    BY DEF Ins
  <2> QED BY <1>2, <1>5, <2>1, LutsWired
<1>8. \A k : Wired(way(k), TRUE)
  <2>1. "A1" \in Ins /\ "A2" \in Ins
    BY DEF Ins
  <2> HIDE DEF req
  <2>2. \A k : /\ Wired(LutCell(u(k), <<<<req, Hop>>, <<O(cond), Hop>>>>, <<"A2", "A1">>, {0, 1}), TRUE)
               /\ Wired(LutCell(u(k), <<<<req, Hop>>, <<O(cond), Hop>>>>, <<"A1", "A2">>, {0, 1}), TRUE)
    BY <1>2, <1>5, <2>1, LutsWired
  <2> QED BY <2>2
<1>9. \A k : Wired(br(k), TRUE)
  BY <1>2, SinkWired
<1> HIDE DEF link, latch, delay, logic, ack, way, br
<1>10. IsFiniteSet(P) /\ \A p \in P : Wired(p, TRUE)
  <2>1. \A p \in P : Wired(p, TRUE)
    BY <1>4, <1>6, <1>7
  <2> QED BY <2>1, FewFinite
<1>11. IsFiniteSet(Q) /\ \A p \in Q : Wired(p, TRUE)
  <2>1. Q = {way(5), way(6)}
    <3>1. \A k \in 5..6 : k = 5 \/ k = 6
      OBVIOUS
    <3> QED BY <3>1
  <2>3. \A p \in Q : Wired(p, TRUE)
    BY <1>8
  <2>2. IsFiniteSet({way(5), way(6)})
    BY FewFinite
  <2> HIDE DEF Q
  <2> QED BY <2>1, <2>2, <2>3
<1>12. IsFiniteSet(R) /\ \A p \in R : Wired(p, TRUE)
  <2>1. R = {br(5), br(6)}
    <3>1. \A k \in 5..6 : k = 5 \/ k = 6
      OBVIOUS
    <3> QED BY <3>1
  <2>3. \A p \in R : Wired(p, TRUE)
    BY <1>9
  <2>2. IsFiniteSet({br(5), br(6)})
    BY FewFinite
  <2> HIDE DEF R
  <2> QED BY <2>1, <2>2, <2>3
<1> HIDE DEF P, Q, R
<1>13. IsFiniteSet(P \union Q) /\ \A p \in P \union Q : Wired(p, TRUE)
  BY <1>10, <1>11, FS_Union
<1> DEFINE PQ == P \union Q
<1> HIDE DEF PQ
<1>14. Wired(Merge(PQ \union R), TRUE)
  BY <1>12, <1>13, BothWired DEF PQ
<1> QED BY <1>0, <1>14 DEF PQ

LEMMA GangWired ==
  ASSUME NEW n \in Nat, NEW m \in Nat, NEW d \in Nat
  PROVE  Wired(Gang(n, m, d).part, TRUE) /\ IsFiniteSet(Gang(n, m, d).rams)
<1> DEFINE st == Inst(<<"port">>, "st", 0)
           dec == Inst(<<"port">>, "u", 6)
           pay == Inst(<<"port">>, "addr", 0)
           at(k) == <<"umem0", "umem1">>[k]
           buf(k) == Inst(<<at(k)>>, "ubuf", 0)
           ram(k) == Inst(<<at(k)>>, "uram", 0)
           set(k) == <<at(k), "usetup">>
           co(k)  == <<at(k), "uco">>
           far(k) == IF k = 1 THEN Hop ELSE d
           state == Gate(st, <<<<Outside(1), Hop>>, <<O(st), Hop>>>>)
           addr == Gate(pay, <<<<O(st), Hop>>>>)
           shared == LutCell(dec, <<<<O(st), Hop>>, <<O(pay), Hop>>>>, <<"A2", "A1">>, {0})
           setup(k) == Line(set(k), n, O(dec), far(k))
           clock(k) == Gate(buf(k), <<<<End(set(k), n, O(dec)), Hop>>>>)
           block(k) == Cell(ram(k), <<<<O(buf(k)), Hop>>, <<O(pay), d>>>>, <<"CLK", "ADDR">>, "DO", ClockToOut)
           cout(k) == Line(co(k), m, O(buf(k)), Hop)
           heard(k) == Sink(at(k), End(co(k), m, O(buf(k))))
           each(k) == {setup(k), clock(k), block(k), cout(k), heard(k)}
           P == {state, addr, shared}
           Q == UNION {each(k) : k \in 1..2}
<1>0. /\ Gang(n, m, d).part = Merge(P \union Q)
      /\ Gang(n, m, d).rams = {ram(1), ram(2)}
  BY DEF Gang
<1>1. Hop \in Nat /\ ClockToOut \in Nat /\ \A k : far(k) \in Nat
  BY CornerAssumption DEF Hop
<1>2. /\ Source(O(st), TRUE) /\ Source(O(dec), TRUE) /\ Source(O(pay), TRUE)
      /\ st.at # <<"osc">> /\ dec.at # <<"osc">> /\ pay.at # <<"osc">>
  <2>1. <<"port">> # <<"osc">>
    OBVIOUS
  <2> QED BY <2>1, OfInstance
<1>3. \A k \in 1..2 : /\ Source(O(buf(k)), TRUE) /\ buf(k).at # <<"osc">> /\ ram(k).at # <<"osc">>
                      /\ set(k) # <<"osc">> /\ co(k) # <<"osc">>
  <2>1. \A k \in 1..2 : <<at(k)>> # <<"osc">> /\ set(k) # <<"osc">> /\ co(k) # <<"osc">>
    OBVIOUS
  <2> QED BY <2>1, OfInstance
<1>4. \A k : Source(Outside(k), TRUE)
  BY OutsideDrives
<1>5. IsFiniteSet({ram(1), ram(2)})
  BY FewFinite
<1> HIDE DEF st, dec, pay, at, buf, ram, set, co, far
<1>6. /\ \A k : Drives(<<Outside(k), Hop>>, TRUE)
      /\ Drives(<<O(st), Hop>>, TRUE) /\ Drives(<<O(pay), Hop>>, TRUE) /\ Drives(<<O(pay), d>>, TRUE)
      /\ \A k \in 1..2 : Drives(<<O(buf(k)), Hop>>, TRUE)
  BY <1>1, <1>2, <1>3, <1>4, SourceDrives
<1>7. "A1" \in Ins /\ "A2" \in Ins /\ "CLK" \in Ins /\ "ADDR" \in Ins /\ "DO" \in Outs
  BY DEF Ins, Outs
<1>8. Wired(state, TRUE) /\ Wired(addr, TRUE) /\ Wired(shared, TRUE)
  <2>1. Wired(state, TRUE) /\ Wired(addr, TRUE)
    BY <1>2, <1>6, GatesWired
  <2>2. Wired(shared, TRUE)
    BY <1>2, <1>6, <1>7, LutsWired
  <2> QED BY <2>1, <2>2
<1>9. \A k \in 1..2 : \A p \in each(k) : Wired(p, TRUE)
  <2> SUFFICES ASSUME NEW k \in 1..2 PROVE \A p \in each(k) : Wired(p, TRUE)
    OBVIOUS
  <2> DEFINE sEnd == End(set(k), n, O(dec))
             cEnd == End(co(k), m, O(buf(k)))
  <2>1. Wired(setup(k), TRUE) /\ Source(sEnd, TRUE)
    BY <1>1, <1>2, <1>3, LineWired
  <2>2. Wired(cout(k), TRUE) /\ Source(cEnd, TRUE)
    BY <1>1, <1>3, LineWired
  <2>3. Wired(block(k), TRUE)
    BY <1>1, <1>3, <1>6, <1>7, LutsWired
  <2> HIDE DEF sEnd, cEnd
  <2>4. Drives(<<sEnd, Hop>>, TRUE)
    BY <1>1, <2>1, SourceDrives
  <2>5. Wired(clock(k), TRUE)
    <3>1. Wired(Gate(buf(k), <<<<sEnd, Hop>>>>), TRUE)
      BY <1>3, <2>4, GatesWired
    <3> QED BY <3>1 DEF sEnd
  <2>6. Wired(heard(k), TRUE)
    <3>1. Wired(Sink(at(k), cEnd), TRUE)
      BY <2>2, SinkWired
    <3> QED BY <3>1 DEF cEnd
  <2> HIDE DEF setup, clock, block, cout, heard
  <2> QED BY <2>1, <2>2, <2>3, <2>5, <2>6
<1> HIDE DEF state, addr, shared, setup, clock, block, cout, heard
<1>10. IsFiniteSet(P) /\ \A p \in P : Wired(p, TRUE)
  BY <1>8, FewFinite
<1>11. IsFiniteSet(Q) /\ \A p \in Q : Wired(p, TRUE)
  <2>1. \A k \in 1..2 : IsFiniteSet(each(k)) /\ \A p \in each(k) : Wired(p, TRUE)
    BY <1>9, FewFinite
  <2>2. Q = each(1) \union each(2)
    <3> HIDE DEF each
    <3> QED OBVIOUS
  <2> HIDE DEF each, Q
  <2>3. 1 \in 1..2 /\ 2 \in 1..2
    OBVIOUS
  <2> QED BY <2>1, <2>2, <2>3, FS_Union
<1> HIDE DEF P, Q
<1>12. Wired(Merge(P \union Q), TRUE)
  BY <1>10, <1>11, BothWired
<1> QED BY <1>0, <1>5, <1>12

LEMMA RingWired ==
  ASSUME NEW enable, Source(enable, FALSE)
  PROVE  Wired(Ring(enable), FALSE)
<1> DEFINE i(k) == Inst(<<"osc">>, "inv", k)
           a == Gate(i(1), <<<<O(i(2)), Hop>>, <<enable, Hop>>>>)
           b == Gate(i(2), <<<<O(i(1)), Hop>>>>)
<1>1. Ring(enable) = Merge({a, b})
  BY DEF Ring
<1>2. Hop \in Nat
  BY DEF Hop
<1>3. \A k : Source(O(i(k)), FALSE)
  BY OfInstance
<1> HIDE DEF i
<1>4. Drives(<<O(i(1)), Hop>>, FALSE) /\ Drives(<<O(i(2)), Hop>>, FALSE) /\ Drives(<<enable, Hop>>, FALSE)
  BY <1>2, <1>3, SourceDrives
<1>5. Wired(a, FALSE) /\ Wired(b, FALSE)
  BY <1>4, GatesWired
<1> HIDE DEF a, b
<1>6. IsFiniteSet({a, b})
  BY FewFinite
<1> DEFINE P == {a, b}
<1>7. \A p \in P : Wired(p, FALSE)
  BY <1>5
<1> HIDE DEF P
<1>8. Wired(Merge(P), FALSE)
  BY <1>6, <1>7, MergeWired DEF P
<1> QED BY <1>1, <1>8 DEF P

LEMMA DesignWired ==
  ASSUME NEW b \in Job
  PROVE  Wired(Design(b).part, TRUE) /\ IsFiniteSet(Design(b).rams)
<1> DEFINE none == {}
<1>0. IsFiniteSet(none)
  BY FS_EmptySet
<1>1. CASE b.kind = "unit"
  <2>1. b.n \in Nat /\ b.d \in Nat /\ b.apart \in BOOLEAN /\ b.dsp \in BOOLEAN
    BY <1>1 DEF Job
  <2>2. Design(b) = Unit(b.n, b.d, b.apart, b.dsp)
    BY <1>1 DEF Design
  <2>4. Wired(Unit(b.n, b.d, b.apart, b.dsp).part, TRUE) /\ Unit(b.n, b.d, b.apart, b.dsp).rams = {}
    BY <2>1, UnitWired
  <2>3. Wired(Design(b).part, TRUE) /\ Design(b).rams = none
    BY <2>2, <2>4
  <2> HIDE DEF none
  <2> QED BY <1>0, <2>3
<1>2. CASE b.kind = "gang"
  <2>1. b.n \in Nat /\ b.m \in Nat /\ b.d \in Nat
    BY <1>2 DEF Job
  <2>2. Design(b) = Gang(b.n, b.m, b.d)
    BY <1>2 DEF Design
  <2> QED BY <2>1, <2>2, GangWired
<1>3. CASE b.kind = "steer"
  <2>1. b.n \in Nat /\ b.d \in Nat /\ b.cross \in BOOLEAN
    BY <1>3 DEF Job
  <2>2. Design(b) = Steer(b.n, b.d, b.cross)
    BY <1>3 DEF Design
  <2>4. Wired(Steer(b.n, b.d, b.cross).part, TRUE) /\ Steer(b.n, b.d, b.cross).rams = {}
    BY <2>1, SteerWired
  <2>3. Wired(Design(b).part, TRUE) /\ Design(b).rams = none
    BY <2>2, <2>4
  <2> HIDE DEF none
  <2> QED BY <1>0, <2>3
<1>4. CASE b.kind = "mux"
  <2>1. b.n \in Nat /\ b.d \in Nat /\ b.data \in BOOLEAN
    BY <1>4 DEF Job
  <2>2. Design(b) = Mux(b.n, b.d, b.data)
    BY <1>4 DEF Design
  <2>4. Wired(Mux(b.n, b.d, b.data).part, TRUE) /\ Mux(b.n, b.d, b.data).rams = {}
    BY <2>1, MuxWired
  <2>3. Wired(Design(b).part, TRUE) /\ Design(b).rams = none
    BY <2>2, <2>4
  <2> HIDE DEF none
  <2> QED BY <1>0, <2>3
<1>5. b.kind \in {"unit", "gang", "steer", "mux"}
  BY DEF Job
<1> QED BY <1>1, <1>2, <1>3, <1>4, <1>5

\* What Route lays out: a design, alone or with an oscillator beside it.
LaidOut(b) == IF b.ring = "none" THEN Design(b).part ELSE Merge({Design(b).part, Ring(Enable(b))})

LEMMA LaidOutWired ==
  ASSUME NEW b \in Job
  PROVE  Wired(LaidOut(b), FALSE)
<1> DEFINE p == Design(b).part
           r == Ring(Enable(b))
           P == {p, r}
<1>1. Wired(p, FALSE)
  BY DesignWired DEF Wired, Leads
<1>2. Wired(r, FALSE)
  <2>1. Source(Enable(b), FALSE)
    BY OfInstance, OutsideDrives DEF Enable
  <2> QED BY <2>1, RingWired
<1>3. LaidOut(b) = p \/ LaidOut(b) = Merge(P)
  BY DEF LaidOut
<1> HIDE DEF p, r
<1>4. IsFiniteSet(P) /\ \A x \in P : Wired(x, FALSE)
  BY <1>1, <1>2, FewFinite
<1> HIDE DEF P
<1>5. Wired(Merge(P), FALSE)
  BY <1>4, MergeWired
<1> QED BY <1>1, <1>3, <1>5

\* The arcs of a part as a function of their ends.
LEMMA AsFunctionIs ==
  ASSUME NEW T, IsFiniteSet(T), NEW these, NEW those, \A t \in T : Leads(t, these, those, FALSE)
  PROVE  /\ IsFiniteSet(DOMAIN AsFunction(T))
         /\ \A a \in DOMAIN AsFunction(T) :
              /\ AsFunction(T)[a] \in Nat /\ a = <<a[1], a[2]>>
              /\ a[1].port \in these /\ a[2].port \in those
              /\ <<a[1], a[2], AsFunction(T)[a]>> \in T
         /\ \A t \in T : <<t[1], t[2]>> \in DOMAIN AsFunction(T)
<1> DEFINE ends == [t \in T |-> <<t[1], t[2]>>]
           D == {<<t[1], t[2]>> : t \in T}
           of(a) == CHOOSE t \in T : t[1] = a[1] /\ t[2] = a[2]
<1>1. DOMAIN AsFunction(T) = D /\ \A a \in D : AsFunction(T)[a] = of(a)[3]
  BY DEF AsFunction
<1>2. IsFiniteSet(D)
  <2>1. D = {ends[t] : t \in T} /\ ends \in [T -> D]
    OBVIOUS
  <2> HIDE DEF D, ends
  <2>2. IsFiniteSet({ends[t] : t \in T})
    BY <2>1, FiniteImage
  <2> QED BY <2>1, <2>2
<1>3. ASSUME NEW a \in D
      PROVE  of(a)[3] \in Nat /\ a = <<a[1], a[2]>> /\ a[1].port \in these /\ a[2].port \in those
             /\ <<a[1], a[2], of(a)[3]>> \in T
  <2>1. PICK t \in T : a = <<t[1], t[2]>>
    OBVIOUS
  <2>2. of(a) \in T /\ of(a)[1] = a[1] /\ of(a)[2] = a[2]
    BY <2>1
  <2> HIDE DEF of, D
  <2>3. Leads(of(a), these, those, FALSE)
    BY <2>2
  <2> QED BY <2>1, <2>2, <2>3 DEF Leads
<1>4. \A t \in T : <<t[1], t[2]>> \in D
  OBVIOUS
<1> HIDE DEF D, of
<1> QED BY <1>1, <1>2, <1>3, <1>4

LEMMA FilesWellRouted ==
  ASSUME NEW b, NEW design, NEW part, Wired(part, FALSE), IsFiniteSet(design.rams),
         sdf = FilesOf(b, design, part)
  PROVE  WellRouted
<1> DEFINE io == AsFunction(part.io)
           net == AsFunction(part.net)
           L == {x[1] : x \in part.luts}
<1>1. sdf.io = io /\ sdf.net = net /\ DOMAIN sdf.lut = L /\ sdf.rams = design.rams
  BY DEF FilesOf
<1>2. /\ IsFiniteSet(DOMAIN io)
      /\ \A a \in DOMAIN io : io[a] \in Nat /\ a = <<a[1], a[2]>> /\ a[1].port \in Ins /\ a[2].port \in Outs
  BY AsFunctionIs DEF Wired
<1>3. /\ IsFiniteSet(DOMAIN net)
      /\ \A a \in DOMAIN net : net[a] \in Nat /\ a = <<a[1], a[2]>> /\ a[1].port \in Outs /\ a[2].port \in Ins
  BY AsFunctionIs DEF Wired
<1>4. IsFiniteSet(L)
  <2> DEFINE luts == part.luts
             f == [x \in luts |-> x[1]]
  <2>1. L = {f[x] : x \in luts}
    OBVIOUS
  <2>2. f \in [luts -> L] /\ IsFiniteSet(luts)
    BY DEF Wired
  <2> HIDE DEF L, f, luts
  <2>3. IsFiniteSet({f[x] : x \in luts})
    BY <2>2, FiniteImage
  <2> QED BY <2>1, <2>3
<1>5. Ins \intersect Outs = {}
  BY DEF Ins, Outs
<1> HIDE DEF io, net, L
<1> QED BY <1>1, <1>2, <1>3, <1>4, <1>5 DEF WellRouted

\* What a run keeps: the job one that can be asked for, and the run of
\* tighten.py on its files as it should be.
MCInv ==
  /\ job \in Job
  /\ pc = "route" => audits = {}
  /\ pc # "route" => RunInv

LEMMA MCFirst == MCInit => MCInv
BY JobsAssumption DEF MCInit, MCInv

LEMMA LongerIs ==
  ASSUME job \in Job, Longer.n \in Nat, Longer.kind = "gang" => Longer.m \in Nat
  PROVE  Longer \in Job
<1>0. job.kind \in {"unit", "gang", "steer", "mux"}
  BY DEF Job
<1>1. CASE job.kind = "unit"
  <2>1. PICK x : Longer = [job EXCEPT !.n = x]
    BY <1>1 DEF Longer
  <2>2. job \in [kind : {"unit"}, n : Nat, d : Nat, apart : BOOLEAN, dsp : BOOLEAN, ring : Rings]
    BY <1>1 DEF Job
  <2>3. x \in Nat
    BY <2>1, <2>2
  <2> QED BY <2>1, <2>2, <2>3 DEF Job
<1>2. CASE job.kind = "gang"
  <2>1. PICK x, y : Longer = [job EXCEPT !.n = x, !.m = y]
    BY <1>2 DEF Longer
  <2>2. job \in [kind : {"gang"}, n : Nat, m : Nat, d : Nat, ring : Rings]
    BY <1>2 DEF Job
  <2>3. x \in Nat /\ y \in Nat
    BY <2>1, <2>2
  <2> QED BY <2>1, <2>2, <2>3 DEF Job
<1>3. CASE job.kind = "steer"
  <2>1. PICK x : Longer = [job EXCEPT !.n = x]
    BY <1>3 DEF Longer
  <2>2. job \in [kind : {"steer"}, n : Nat, d : Nat, cross : BOOLEAN, ring : Rings]
    BY <1>3 DEF Job
  <2>3. x \in Nat
    BY <2>1, <2>2
  <2> QED BY <2>1, <2>2, <2>3 DEF Job
<1>4. CASE job.kind = "mux"
  <2>1. PICK x : Longer = [job EXCEPT !.n = x]
    BY <1>4 DEF Longer
  <2>2. job \in [kind : {"mux"}, n : Nat, d : Nat, data : BOOLEAN, ring : Rings]
    BY <1>4 DEF Job
  <2>3. x \in Nat
    BY <2>1, <2>2
  <2> QED BY <2>1, <2>2, <2>3 DEF Job
<1> QED BY <1>0, <1>1, <1>2, <1>3, <1>4

\* Placed and routed.
Laid == /\ job \in Job /\ audits = {} /\ pc = "prune" /\ stops = {}
        /\ edge = Over(sdf.io, sdf.net) /\ sdf = FilesOf(job, Design(job), LaidOut(job))

LEMMA FilesBegin == Laid => RunInv
<1> SUFFICES ASSUME job \in Job, audits = {}, pc = "prune", stops = {}, edge = Over(sdf.io, sdf.net),
                    sdf = FilesOf(job, Design(job), LaidOut(job))
             PROVE  RunInv
  BY DEF Laid
<1>1. WellRouted
  BY DesignWired, LaidOutWired, FilesWellRouted
<1> QED BY <1>1, FirstHolds DEF Begin

LEMMA RuleELeaves == RuleE => pc = "E" /\ pc' \in {"abort", "clear", "skewed"} /\ UNCHANGED <<sdf, edge, stops, audits>>
BY DEF RuleE

LEMMA DropLeaves ==
  DropOscillators => /\ pc = "storage" /\ pc' = "E" /\ UNCHANGED <<sdf, audits, pads>>
                     /\ \E kept \in SUBSET Arcs : edge' = [a \in kept |-> edge[a]]
<1> DEFINE kept == {b \in Arcs : \A o \in sdf.osc : ~In(b[1].inst, o) /\ ~In(b[2].inst, o)}
<1>1. DropOscillators => /\ pc = "storage" /\ pc' = "E" /\ UNCHANGED <<sdf, audits, pads>>
                         /\ edge' = [a \in kept |-> edge[a]]
  BY DEF DropOscillators
<1>2. kept \in SUBSET Arcs
  OBVIOUS
<1> HIDE DEF kept
<1> QED BY <1>1, <1>2

LEMMA PlacedIsLaid ==
  ASSUME MCInv, PlaceAndRoute
  PROVE  Laid'
<1>1. /\ UNCHANGED <<audits, job>> /\ audits = {} /\ pc' = "prune" /\ stops' = {}
      /\ edge' = Over(sdf'.io, sdf'.net)
  BY DEF PlaceAndRoute, MCInv
<1>2. sdf' = FilesOf(job', Design(job'), LaidOut(job'))
  <2>1. Route(job)
    BY DEF PlaceAndRoute
  <2>2. sdf' = FilesOf(job, Design(job), LaidOut(job))
    BY <2>1 DEF Route, LaidOut
  <2> QED BY <1>1, <2>2
<1>3. job' \in Job
  BY <1>1 DEF MCInv
<1> QED BY <1>1, <1>2, <1>3 DEF Laid

LEMMA MCKeeps ==
  ASSUME MCInv, [MCNext]_mcvars
  PROVE  MCInv'
<1> USE DEF MCInv
<1>1. CASE Rules /\ UNCHANGED <<pads, job, truth, wave, heeded>>
  <2>1. pc # "route" /\ pc' # "route"
    BY <1>1 DEF Rules, Prune, CheckStorage, RuleA, RuleB, RuleC, RuleD
  <2> QED BY <1>1, <2>1, StepKeeps
<1>2. CASE UNCHANGED <<netvars, job>>
  <2>1. CASE pc # "route"
    <3>1. RunInv'
      BY <1>2, <2>1, StepKeeps
    <3> QED BY <1>2, <2>1, <3>1 DEF netvars
  <2>2. CASE pc = "route"
    BY <1>2, <2>2 DEF netvars
  <2> QED BY <2>1, <2>2
<1>3. CASE DropOscillators /\ UNCHANGED <<job, truth, wave, heeded>>
  <2>1. PICK kept \in SUBSET Arcs : edge' = [a \in kept |-> edge[a]]
    BY <1>3, DropLeaves
  <2>2. pc = "storage" /\ pc' = "E" /\ UNCHANGED <<sdf, audits>> /\ RunInv
    BY <1>3, DropLeaves
  <2>3. Timed' /\ OfFiles'
    BY <2>1, <2>2, FewerTimed DEF RunInv
  <2>4. WellRouted'
    BY <2>2 DEF RunInv, WellRouted
  <2>5. RunInv'
    BY <2>2, <2>3, <2>4 DEF RunInv, Reported
  <2> QED BY <1>3, <2>2, <2>5
<1>4. CASE RuleE /\ UNCHANGED <<job, truth, wave, heeded>>
  <2>1. pc = "E" /\ pc' \in {"abort", "clear", "skewed"} /\ UNCHANGED <<sdf, edge, stops, audits>> /\ RunInv
    BY <1>4, RuleELeaves
  <2>2. WellRouted' /\ Timed' /\ OfFiles'
    BY <2>1, NetStable DEF RunInv
  <2>3. RunInv'
    BY <2>1, <2>2 DEF RunInv, Reported
  <2> QED BY <1>4, <2>1, <2>3
<1>5. CASE PlaceAndRoute
  <2>1. Laid'
    BY <1>5, PlacedIsLaid
  <2>2. RunInv'
    BY <2>1, FilesBegin, PTL
  <2> QED BY <2>1, <2>2 DEF Laid
<1>6. CASE Rebuild
  <2>1. pc' = "route" /\ audits' = {} /\ job' = Longer
        /\ Longer.n \in 0..MaxLinks /\ (Longer.kind = "gang" => Longer.m \in 0..MaxLinks)
    BY <1>6 DEF Rebuild
  <2>2. Longer \in Job
    BY <2>1, LongerIs, JobsAssumption
  <2> QED BY <2>1, <2>2
<1>7. CASE Launch \/ Travel(Request) \/ Travel(Data)
  BY <1>2, <1>7 DEF Launch, Travel
<1>8. CASE UNCHANGED mcvars
  BY <1>2, <1>8 DEF mcvars
<1> QED BY <1>1, <1>3, <1>4, <1>5, <1>6, <1>7, <1>8 DEF MCNext

\* Every design that is ever under audit is a well-formed routed netlist, and
\* the run of tighten.py over it keeps what Run keeps.
LEMMA MCKept == MCSpec => []MCInv
<1>1. MCInv /\ [MCNext]_mcvars => MCInv'
  BY MCKeeps
<1> QED BY <1>1, MCFirst, PTL DEF MCSpec

-----------------------------------------------------------------------------
(* Signals, and what the rules pass.                                       *)

\* A signal's way along the arcs of live, each with what it takes.
Flown(live, r, n) ==
  /\ \A k \in 0..n : r[k].t \in Nat
  /\ \A k \in 1..n : \E a \in live : /\ a[1] = r[k-1].pin /\ a[2] = r[k].pin
                                     /\ r[k].t = r[k-1].t + a[3]
Flies(live, from, to, t) ==
  \E n \in Nat : \E r : /\ Flown(live, r, n)
                        /\ r[0] = [pin |-> from, t |-> 0]
                        /\ r[n] = [pin |-> to, t |-> t]

LEMMA FliesNowhere ==
  ASSUME NEW live, NEW from
  PROVE  Flies(live, from, from, 0)
<1> DEFINE r == [k \in {0} |-> [pin |-> from, t |-> 0]]
<1>1. r[0] = [pin |-> from, t |-> 0] /\ Flown(live, r, 0)
  BY DEF Flown
<1> HIDE DEF r
<1>2. 0 \in Nat
  OBVIOUS
<1> QED BY <1>1, <1>2 DEF Flies

LEMMA FliesOn ==
  ASSUME NEW live, NEW from, NEW t \in Nat, NEW a \in live, a[3] \in Nat, Flies(live, from, a[1], t)
  PROVE  Flies(live, from, a[2], t + a[3])
<1>1. PICK n \in Nat : \E r : /\ Flown(live, r, n)
                              /\ r[0] = [pin |-> from, t |-> 0]
                              /\ r[n] = [pin |-> a[1], t |-> t]
  BY DEF Flies
<1>2. PICK r : /\ Flown(live, r, n)
               /\ r[0] = [pin |-> from, t |-> 0] /\ r[n] = [pin |-> a[1], t |-> t]
  BY <1>1
<1> DEFINE q == [k \in 0..n+1 |-> IF k <= n THEN r[k] ELSE [pin |-> a[2], t |-> t + a[3]]]
<1>3. n + 1 \in Nat /\ \A k \in 0..n : q[k] = r[k]
  OBVIOUS
<1>4. q[n+1] = [pin |-> a[2], t |-> t + a[3]]
  OBVIOUS
<1>5. q[0] = [pin |-> from, t |-> 0] /\ q[n] = [pin |-> a[1], t |-> t]
  BY <1>2, <1>3
<1> HIDE DEF q
<1>6. ASSUME NEW k \in 0..n+1 PROVE q[k].t \in Nat
  <2>1. CASE k \in 0..n
    BY <1>2, <1>3, <2>1 DEF Flown
  <2>2. CASE k = n + 1
    BY <1>4, <2>2
  <2> QED BY <2>1, <2>2
<1>7. ASSUME NEW k \in 1..n+1
      PROVE  \E b \in live : b[1] = q[k-1].pin /\ b[2] = q[k].pin /\ q[k].t = q[k-1].t + b[3]
  <2>1. CASE k \in 1..n
    <3>1. k - 1 \in 0..n /\ k \in 0..n
      BY <2>1
    <3> QED BY <1>2, <1>3, <2>1, <3>1 DEF Flown
  <2>2. CASE k = n + 1
    <3>1. k - 1 = n
      BY <2>2
    <3> QED BY <1>4, <1>5, <2>2, <3>1
  <2> QED BY <2>1, <2>2
<1>8. Flown(live, q, n + 1)
  BY <1>6, <1>7 DEF Flown
<1> QED BY <1>3, <1>4, <1>5, <1>8 DEF Flies

\* The arcs of the races' signals, as MCTiming lays them out.
Lively == /\ IsFiniteSet(truth.live)
          /\ \A a \in truth.live : a[3] \in Nat
          /\ \A r \in truth.races : r.rule \in {"A", "B", "C", "D", "E"}

\* What is reached from S along F, and grows no more.
LEMMA GrownFrom ==
  ASSUME NEW F, IsFiniteSet(F), NEW from
  PROVE  LET Onward(P) == Along(F, P)
             R == {from} \union Grown(Onward, Onward({from}), Cardinality(F))
         IN  from \in R /\ \A e \in F : e[1] \in R => e[2] \in R
<1> DEFINE Onward(P) == Along(F, P)
           S == Along(F, {from})
           k == Cardinality(F)
<1>0. k \in Nat
  BY FS_CardinalityType
<1>1. S \in SUBSET {e[2] : e \in F}
  BY AlongIn
<1> DEFINE grown == CHOOSE g : GrownAlong(g, F, S, k)
           G == UNION {p[1] : p \in grown[k]}
<1>2. GrownAlong(grown, F, S, k)
  <2> HIDE DEF k, S
  <2> QED BY <1>0, GrownExists
<1>3. Grown(Onward, S, k) = G
  BY DEF Grown, GrownAlong
<1> HIDE DEF grown
<1>4. S \subseteq G /\ \A e \in F : e[1] \in G => e[2] \in G
  BY <1>1, <1>2, GrownCloses DEF k
<1>5. \A e \in F : e[1] = from => e[2] \in S
  BY AlongIn
<1> HIDE DEF G, S
<1>6. from \in {from} \union G /\ \A e \in F : e[1] \in {from} \union G => e[2] \in {from} \union G
  BY <1>4, <1>5
<1> HIDE DEF k
<1> QED BY <1>3, <1>6 DEF S, k

LEMMA OnWayHas ==
  ASSUME Lively, NEW from, NEW to, NEW n \in Nat, NEW r, Flown(truth.live, r, n),
         r[0].pin = from, r[n].pin = to, NEW k \in 0..n
  PROVE  r[k].pin \in OnWay(from, to)
<1> DEFINE ahead  == {<<a[1], a[2]>> : a \in truth.live}
           behind == {<<a[2], a[1]>> : a \in truth.live}
           Onward(P) == Along(ahead, P)
           Back(P)   == Along(behind, P)
           F == {from} \union Grown(Onward, Onward({from}), Cardinality(ahead))
           B == {to} \union Grown(Back, Back({to}), Cardinality(ahead))
           D == {to} \union Grown(Back, Back({to}), Cardinality(behind))
           f == [a \in truth.live |-> <<a[1], a[2]>>]
           g == [a \in truth.live |-> <<a[2], a[1]>>]
<1>1. IsFiniteSet(ahead) /\ IsFiniteSet(behind)
  <2>1. f \in [truth.live -> ahead] /\ g \in [truth.live -> behind]
    OBVIOUS
  <2>2. ahead = {f[a] : a \in truth.live} /\ behind = {g[a] : a \in truth.live}
    OBVIOUS
  <2> DEFINE live == truth.live
  <2>3. IsFiniteSet(live)
    BY DEF Lively
  <2> HIDE DEF f, g, ahead, behind, live
  <2>4. IsFiniteSet({f[a] : a \in live}) /\ IsFiniteSet({g[a] : a \in live})
    BY <2>1, <2>3, FiniteImage, ZenonT(60) DEF live
  <2> QED BY <2>2, <2>4 DEF live
<1>2. OnWay(from, to) = F \intersect D
  BY DEF OnWay
<1>3. from \in F /\ \A a \in truth.live : a[1] \in F => a[2] \in F
  <2>1. from \in F /\ \A e \in ahead : e[1] \in F => e[2] \in F
    <3> HIDE DEF ahead
    <3> QED BY <1>1, GrownFrom
  <2>2. \A a \in truth.live : <<a[1], a[2]>> \in ahead
    OBVIOUS
  <2> HIDE DEF F, ahead
  <2> SUFFICES ASSUME NEW a \in truth.live PROVE a[1] \in F => a[2] \in F
    BY <2>1
  <2> DEFINE e == <<a[1], a[2]>>
  <2>3. e \in ahead /\ e[1] = a[1] /\ e[2] = a[2]
    BY <2>2
  <2> HIDE DEF e
  <2> QED BY <2>1, <2>3
<1>4. to \in D /\ \A a \in truth.live : a[2] \in D => a[1] \in D
  <2>1. to \in D /\ \A e \in behind : e[1] \in D => e[2] \in D
    <3> HIDE DEF behind
    <3> QED BY <1>1, GrownFrom
  <2>2. \A a \in truth.live : <<a[2], a[1]>> \in behind
    OBVIOUS
  <2> HIDE DEF D, behind
  <2> SUFFICES ASSUME NEW a \in truth.live PROVE a[2] \in D => a[1] \in D
    BY <2>1
  <2> DEFINE e == <<a[2], a[1]>>
  <2>3. e \in behind /\ e[1] = a[2] /\ e[2] = a[1]
    BY <2>2
  <2> HIDE DEF e
  <2> QED BY <2>1, <2>3
<1> HIDE DEF F, D
<1> DEFINE T == {j \in 0..n : r[j].pin \notin F}
           U == {j \in 0..n : r[n-j].pin \notin D}
<1>5. T = {}
  <2> SUFFICES ASSUME T # {} PROVE FALSE
    OBVIOUS
  <2>1. T \in SUBSET Nat
    OBVIOUS
  <2>2. PICK j \in T : \A i \in T : j <= i
    <3> HIDE DEF T
    <3> QED BY <2>1, LeastNat
  <2>3. j # 0 /\ j \in 1..n /\ j - 1 \in 0..n /\ j - 1 \notin T
    BY <1>3, <2>2
  <2>4. r[j-1].pin \in F
    BY <2>3
  <2>5. PICK a \in truth.live : a[1] = r[j-1].pin /\ a[2] = r[j].pin
    BY <2>3 DEF Flown
  <2> QED BY <1>3, <2>2, <2>4, <2>5
<1>6. U = {}
  <2> SUFFICES ASSUME U # {} PROVE FALSE
    OBVIOUS
  <2>1. U \in SUBSET Nat
    OBVIOUS
  <2>2. PICK j \in U : \A i \in U : j <= i
    <3> HIDE DEF U
    <3> QED BY <2>1, LeastNat
  <2>3. j # 0 /\ j \in 1..n /\ j - 1 \in 0..n /\ j - 1 \notin U
    <3>1. n - 0 = n
      OBVIOUS
    <3> QED BY <1>4, <2>2, <3>1
  <2>4. n - j \in 0..n /\ n - (j - 1) \in 1..n /\ (n - (j - 1)) - 1 = n - j
    BY <2>3
  <2>5. r[n - (j - 1)].pin \in D
    BY <2>3
  <2>6. PICK a \in truth.live : a[1] = r[n - j].pin /\ a[2] = r[n - (j - 1)].pin
    BY <2>4 DEF Flown
  <2> QED BY <1>4, <2>2, <2>5, <2>6
<1>7. r[k].pin \in F
  BY <1>5
<1>8. r[k].pin \in D
  <2>1. n - k \in 0..n /\ n - (n - k) = k
    OBVIOUS
  <2>2. r[n - (n - k)].pin \in D
    BY <1>6, <2>1
  <2> QED BY <2>1, <2>2
<1> QED BY <1>2, <1>7, <1>8

\* A walk that follows a race's signals sees every way they can come.
LEMMA FollowedArrives ==
  ASSUME Lively, NEW from, NEW to, NEW t, NEW cell, Followed(from, to, cell),
         Flies(truth.live, from, to, t)
  PROVE  Arrives(from, to, t, cell)
<1> DEFINE arcs == {a \in Arcs : In(a[2].inst, cell)}
<1>1. PICK n \in Nat : \E r : /\ Flown(truth.live, r, n)
                              /\ r[0] = [pin |-> from, t |-> 0]
                              /\ r[n] = [pin |-> to, t |-> t]
  BY DEF Flies
<1>2. PICK r : /\ Flown(truth.live, r, n)
               /\ r[0] = [pin |-> from, t |-> 0] /\ r[n] = [pin |-> to, t |-> t]
  BY <1>1
<1>3. \A k \in 0..n : r[k].pin \in OnWay(from, to)
  <2>1. r[0].pin = from /\ r[n].pin = to
    BY <1>2
  <2> QED BY <1>2, <2>1, OnWayHas
<1>4. \A a \in truth.live :
        a[1] \in OnWay(from, to) /\ a[2] \in OnWay(from, to) =>
          /\ <<a[1], a[2]>> \in Arcs /\ edge[<<a[1], a[2]>>] = a[3]
          /\ In(a[2].inst, cell) /\ a[2] # from
          /\ a[1] = from \/ a[1] \notin stops
  BY DEF Followed
<1>5. ASSUME NEW k \in 1..n
      PROVE  /\ <<r[k-1].pin, r[k].pin>> \in Arcs /\ In(r[k].pin.inst, cell) /\ r[k].pin # from
             /\ r[k].t = r[k-1].t + edge[<<r[k-1].pin, r[k].pin>>]
             /\ r[k-1].pin = from \/ r[k-1].pin \notin stops
  <2>1. PICK a \in truth.live : a[1] = r[k-1].pin /\ a[2] = r[k].pin /\ r[k].t = r[k-1].t + a[3]
    BY <1>2 DEF Flown
  <2>2. k - 1 \in 0..n /\ k \in 0..n
    OBVIOUS
  <2>3. a[1] \in OnWay(from, to) /\ a[2] \in OnWay(from, to)
    BY <1>3, <2>1, <2>2
  <2> QED BY <1>4, <2>1, <2>3
<1>6. ASSUME NEW k \in 1..n, k > 1 PROVE r[k-1].pin \notin stops
  <2>1. k - 1 \in 1..n
    BY <1>6
  <2>2. r[k-1].pin # from
    BY <1>5, <2>1
  <2> QED BY <1>5, <2>2
<1>7. Flight(r, n, arcs)
  <2>1. \A k \in 0..n : r[k].t \in Nat
    BY <1>2 DEF Flown
  <2>2. \A k \in 1..n : <<r[k-1].pin, r[k].pin>> \in arcs
    <3> SUFFICES ASSUME NEW k \in 1..n PROVE <<r[k-1].pin, r[k].pin>> \in arcs
      OBVIOUS
    <3> DEFINE a == <<r[k-1].pin, r[k].pin>>
    <3>1. a \in Arcs /\ In(a[2].inst, cell)
      BY <1>5
    <3> QED BY <3>1
  <2> HIDE DEF arcs
  <2> QED BY <1>5, <1>6, <2>1, <2>2 DEF Flight
<1> QED BY <1>2, <1>7 DEF Arrives

\* Two signals of a race in the order its rule is there for.
Ordered(r, t, u) ==
  CASE r.rule \in {"A", "B", "D"} -> t - u >= Guard(r.late, u)
    [] r.rule = "C" -> t - u >= ClockToOut
    [] r.rule = "E" -> TRUE

Promise(live, r) ==
  \A t, u : /\ Flies(live, r.from[1], r.early, t)
            /\ Flies(live, r.from[2], r.late, u)
            => Ordered(r, t, u)

\* What is known of a design that passed.
Trusted == /\ WellRouted /\ Timed /\ NoLoop
            /\ \A a \in RequestAudits \union ClockAudits \union AckAudits \union SelectAudits : a.ok

LEMMA PassKnows == RunInv /\ pc = "pass" => Trusted
<1> SUFFICES ASSUME RunInv, pc = "pass" PROVE Trusted
  OBVIOUS
<1>1. WellRouted /\ Timed /\ NoLoop /\ Reported /\ \A a \in audits : a.ok
  BY DEF RunInv
<1>2. /\ \A a \in RequestAudits : a.ok
      /\ \A a \in ClockAudits : a.ok
      /\ \A a \in AckAudits : a.ok
      /\ \A a \in SelectAudits : a.ok
  BY <1>1 DEF Reported
<1> QED BY <1>1, <1>2 DEF Trusted

LEMMA RequestRaces ==
  ASSUME Trusted, Lively, NEW r, r.rule = "A", LookedAt(r)
  PROVE  Promise(truth.live, r)
<1> DEFINE OfStarts(M)  == \E m \in M : m.from = r.from[1] /\ m.to = r.from[2] /\ m.pin = r.late
           All(s) == Margins(Boundary(s.cell), Peers(s), r.early, s.cell)
<1>1. PICK s \in Sites :
        /\ r.early \in s.tail
        /\ Followed(r.from[1], r.early, s.cell) /\ Followed(r.from[2], r.late, s.cell)
        /\ OfStarts(RequestMargins(s) \intersect All(s))
  BY DEF LookedAt
<1>2. PICK m \in RequestMargins(s) :
        /\ m \in All(s)
        /\ m.from = r.from[1] /\ m.to = r.from[2] /\ m.pin = r.late
  <2> HIDE DEF All
  <2> QED BY <1>1
<1>3. Weighs(m, r.from[1], r.from[2], r.late, r.early, s.cell)
  <2>1. PICK x, y \in Boundary(s.cell), p \in Peers(s) : Weighs(m, x, y, p, r.early, s.cell)
    BY <1>2, MarginsWeigh
  <2>2. x = r.from[1] /\ y = r.from[2] /\ p = r.late
    BY <1>2, <2>1 DEF Weighs
  <2> QED BY <2>1, <2>2
<1>4. m.margin \in Int /\ m.margin >= 0
  BY <1>2, RequestAuditSays DEF Trusted
<1> SUFFICES ASSUME NEW t, NEW u,
                    Flies(truth.live, r.from[1], r.early, t), Flies(truth.live, r.from[2], r.late, u)
             PROVE  t - u >= Guard(r.late, u)
  BY DEF Promise, Ordered
<1>5. Arrives(r.from[1], r.early, t, s.cell) /\ Arrives(r.from[2], r.late, u, s.cell)
  BY <1>1, FollowedArrives
<1> QED BY <1>3, <1>4, <1>5, WeighedHolds DEF Trusted

LEMMA ClockRaces ==
  ASSUME Trusted, Lively, NEW r, r.rule = "B", LookedAt(r)
  PROVE  Promise(truth.live, r)
<1> DEFINE OfStarts(M)  == \E m \in M : m.from = r.from[1] /\ m.to = r.from[2] /\ m.pin = r.late
<1>1. PICK ram \in sdf.rams :
        /\ r.early = Pin(ram, "CLK")
        /\ Followed(r.from[1], r.early, <<>>) /\ Followed(r.from[2], r.late, <<>>)
        /\ OfStarts(ClockMargins(ram))
  BY DEF LookedAt
<1> DEFINE clk == Pin(ram, "CLK")
           late == {q \in Driven : q.inst = ram /\ q.port \in DOMAIN SetupTime}
           M == Margins(StartsReaching(clk), late, clk, <<>>)
<1>2. PICK m \in Common(M) : m.from = r.from[1] /\ m.to = r.from[2] /\ m.pin = r.late
  <2>1. ClockMargins(ram) = Common(M)
    BY DEF ClockMargins
  <2> HIDE DEF M
  <2> QED BY <1>1, <2>1
<1>3. m \in M /\ m.from = m.to
  BY <1>2 DEF Common
<1>4. r.from[1] \in StartsReaching(clk) /\ r.from[2] = r.from[1] /\ r.late \in late
  <2>1. PICK x, y \in StartsReaching(clk), p \in late : Weighs(m, x, y, p, clk, <<>>)
    <3> HIDE DEF clk, late
    <3> QED BY <1>3, MarginsWeigh DEF M
  <2>2. x = r.from[1] /\ y = r.from[2] /\ p = r.late
    BY <1>2, <2>1 DEF Weighs
  <2> HIDE DEF clk, late, M
  <2> QED BY <1>2, <1>3, <2>1, <2>2
<1>5. ClocksCovered
  BY ClocksSound DEF Trusted
<1> SUFFICES ASSUME NEW t, NEW u,
                    Flies(truth.live, r.from[1], r.early, t), Flies(truth.live, r.from[2], r.late, u)
             PROVE  t - u >= Guard(r.late, u)
  BY DEF Promise, Ordered
<1>6. Arrives(r.from[1], clk, t, <<>>) /\ Arrives(r.from[1], r.late, u, <<>>)
  BY <1>1, <1>4, FollowedArrives
<1>7. r.late \in Driven /\ r.late.inst = ram /\ r.late.port \in DOMAIN SetupTime
  BY <1>4
<1> HIDE DEF late, M
<1> QED BY <1>4, <1>5, <1>6, <1>7 DEF ClocksCovered

LEMMA SelectRaces ==
  ASSUME Trusted, Lively, NEW r, r.rule = "D", LookedAt(r)
  PROVE  Promise(truth.live, r)
<1> DEFINE OfStarts(M)  == \E m \in M : m.from = r.from[1] /\ m.to = r.from[2] /\ m.pin = r.late
           All(c) == Margins(SelectStarts(c, r.early), Selects(c), r.early, <<>>)
<1>1. PICK c \in Consumers :
        /\ r.early \in Requests(c)
        /\ Followed(r.from[1], r.early, <<>>) /\ Followed(r.from[2], r.late, <<>>)
        /\ OfStarts(All(c))
  BY DEF LookedAt
<1>2. PICK m \in All(c) : m.from = r.from[1] /\ m.to = r.from[2] /\ m.pin = r.late
  <2> HIDE DEF All
  <2> QED BY <1>1
<1>3. r.from[1] \in SelectStarts(c, r.early) /\ r.from[2] \in SelectStarts(c, r.early) /\ r.late \in Selects(c)
  <2>1. PICK x, y \in SelectStarts(c, r.early), p \in Selects(c) : Weighs(m, x, y, p, r.early, <<>>)
    BY <1>2, MarginsWeigh
  <2>2. x = r.from[1] /\ y = r.from[2] /\ p = r.late
    BY <1>2, <2>1 DEF Weighs
  <2> QED BY <2>1, <2>2
<1>4. SelectsCovered
  BY SelectsSound DEF Trusted
<1> SUFFICES ASSUME NEW t, NEW u,
                    Flies(truth.live, r.from[1], r.early, t), Flies(truth.live, r.from[2], r.late, u)
             PROVE  t - u >= Guard(r.late, u)
  BY DEF Promise, Ordered
<1>5. Arrives(r.from[1], r.early, t, <<>>) /\ Arrives(r.from[2], r.late, u, <<>>)
  BY <1>1, FollowedArrives
<1> QED BY <1>1, <1>3, <1>4, <1>5 DEF SelectsCovered

LEMMA AckRaces ==
  ASSUME Trusted, Lively, NEW r, r.rule = "C", LookedAt(r)
  PROVE  Promise(truth.live, r)
<1>1. PICK base \in ChainsAs("uco"), ram \in sdf.rams :
        /\ OwnRams(base) = {ram}
        /\ r.early \in LineTail(base) /\ r.late = Pin(ram, "CLK")
        /\ Followed(r.from[1], r.early, <<>>) /\ Followed(r.from[2], r.late, <<>>)
        /\ r.from[1] = r.from[2] /\ \E h \in LineHead(base) : r.from[1] \in StartsReaching(h)
        /\ {r.early, r.late} \subseteq DOMAIN Walk(r.from[1], FALSE, <<>>)
        /\ Walk(r.from[1], TRUE, <<>>)[r.late].t = Walk(r.from[1], FALSE, <<>>)[r.late].t
  BY DEF LookedAt
<1> SUFFICES ASSUME NEW t, NEW u,
                    Flies(truth.live, r.from[1], r.early, t), Flies(truth.live, r.from[2], r.late, u)
             PROVE  t - u >= ClockToOut
  BY DEF Promise, Ordered
<1> DEFINE x == r.from[1]
           clk == Pin(ram, "CLK")
<1>2. Arrives(x, r.early, t, <<>>) /\ Arrives(x, clk, u, <<>>)
  BY <1>1, FollowedArrives
<1>3. ASSUME NEW d, Arrives(x, clk, d, <<>>) PROVE u <= d
  <2> DEFINE slow == Walk(x, TRUE, <<>>)[clk].t
             fast == Walk(x, FALSE, <<>>)[clk].t
  <2>1. u \in Nat /\ u <= slow /\ d \in Nat /\ fast <= d /\ clk \in DOMAIN Walk(x, FALSE, <<>>)
    BY <1>2, <1>3, WalkBounds DEF Trusted
  <2>2. fast \in Nat
    BY <2>1, WalkArrives DEF Trusted
  <2>3. slow = fast
    BY <1>1
  <2> HIDE DEF fast, slow, x, clk
  <2> QED BY <2>1, <2>2, <2>3
<1>4. PICK h \in LineHead(base) : x \in StartsReaching(h)
  BY <1>1
<1>5. AcksTrail
  BY AcksSound DEF Trusted
<1>6. PICK own \in sdf.rams :
        /\ OwnRams(base) = {own}
        /\ \A v \in LineHead(base), p \in LineTail(base) : \A y \in StartsReaching(v) : \A f, c :
             /\ Arrives(y, p, f, <<>>)
             /\ Arrives(y, Pin(own, "CLK"), c, <<>>)
             /\ \A d : Arrives(y, Pin(own, "CLK"), d, <<>>) => c <= d
             => f - c >= ClockToOut /\ 2 * (f - c) >= HoldNeeded
  BY <1>1, <1>5 DEF AcksTrail
<1>7. own = ram
  BY <1>1, <1>6
<1> QED BY <1>1, <1>2, <1>3, <1>4, <1>6, <1>7

LEMMA RacesHold ==
  RunInv /\ pc = "pass" /\ Lively =>
    \A r \in truth.races : r.rule # "E" /\ LookedAt(r) => Promise(truth.live, r)
BY PassKnows, RequestRaces, ClockRaces, AckRaces, SelectRaces DEF Lively

-----------------------------------------------------------------------------
(* A wave on its way.                                                      *)

Arriving ==
  wave # <<>> =>
    /\ pc \in {"pass", "clear"}
    /\ wave = <<wave[1], wave[2], wave[3]>>
    /\ wave[1].rule \in {"A", "B", "C", "D", "E"}
    /\ wave[2][2] \in Nat /\ wave[3][2] \in Nat
    /\ Flies(truth.live, wave[1].from[1], wave[2][1], wave[2][2])
    /\ Flies(truth.live, wave[1].from[2], wave[3][1], wave[3][2])
    /\ wave[1] \in truth.races
    /\ wave[1].rule # "E" => pc = "pass"

FlightInv == Lively /\ Arriving

LEMMA DesignLively ==
  ASSUME NEW b \in Job
  PROVE  LET live == Truth(Design(b)).live
         IN  /\ IsFiniteSet(live) /\ \A a \in live : a[3] \in Nat
             /\ \A r \in Truth(Design(b)).races : r.rule \in {"A", "B", "C", "D", "E"}
<1> DEFINE d == Design(b)
           p == d.part
           live == Truth(d).live
           io == {t \in p.io : <<t[1], t[2]>> \notin p.dead}
           net == {t \in p.net : t[1].inst # t[2].inst}
<1>1. live = io \union net /\ Truth(d).races = d.races
  BY DEF Truth
<1>2. Wired(p, TRUE)
  BY DesignWired
<1> HIDE DEF d
<1>3. IsFiniteSet(io) /\ IsFiniteSet(net)
  <2>1. io \in SUBSET p.io /\ net \in SUBSET p.net
    OBVIOUS
  <2> QED BY <1>2, <2>1, FS_Subset DEF Wired
<1>4. \A a \in io \union net : a[3] \in Nat
  BY <1>2 DEF Wired, Leads
<1>5. IsFiniteSet(io \union net)
  <2> HIDE DEF io, net
  <2> QED BY <1>3, FS_Union
<1>6. \A r \in d.races : r.rule \in {"A", "B", "C", "D", "E"}
  <2>1. b.kind \in {"unit", "gang", "steer", "mux"}
    BY DEF Job
  <2>2. CASE b.kind = "unit"
    BY <2>2 DEF d, Design, Unit, Race
  <2>3. CASE b.kind = "gang"
    BY <2>3 DEF d, Design, Gang, Race
  <2>4. CASE b.kind = "steer"
    BY <2>4 DEF d, Design, Steer, Race
  <2>5. CASE b.kind = "mux"
    BY <2>5 DEF d, Design, Mux, Race
  <2> QED BY <2>1, <2>2, <2>3, <2>4, <2>5
<1> HIDE DEF io, net, live
<1> QED BY <1>1, <1>4, <1>5, <1>6 DEF d, live

LEMMA FlightFirst == MCInit => FlightInv
<1> DEFINE none == {}
<1>1. MCInit => truth.races = none /\ truth.live = none /\ wave = <<>>
  BY DEF MCInit
<1>2. IsFiniteSet(none)
  BY FS_EmptySet
<1>3. \A x : x \notin none
  OBVIOUS
<1> HIDE DEF none
<1> QED BY <1>1, <1>2, <1>3 DEF FlightInv, Lively, Arriving

LEMMA FlightKeeps ==
  ASSUME MCInv, FlightInv, [MCNext]_mcvars
  PROVE  FlightInv'
<1>1. ASSUME UNCHANGED <<truth, wave>>, pc \in {"pass", "clear"} => UNCHANGED pc PROVE FlightInv'
  BY <1>1 DEF FlightInv, Lively, Arriving
<1>2. CASE Rules /\ UNCHANGED <<pads, job, truth, wave, heeded>>
  <2>1. pc \notin {"pass", "clear"}
    BY <1>2 DEF Rules, Prune, CheckStorage, RuleA, RuleB, RuleC, RuleD
  <2> QED BY <1>1, <1>2, <2>1
<1>3. CASE DropOscillators /\ UNCHANGED <<job, truth, wave, heeded>>
  <2>1. pc = "storage"
    BY <1>3, DropLeaves
  <2> QED BY <1>1, <1>3, <2>1
<1>4. CASE RuleE /\ UNCHANGED <<job, truth, wave, heeded>>
  <2>1. pc = "E"
    BY <1>4, RuleELeaves
  <2> QED BY <1>1, <1>4, <2>1
<1>5. CASE Rebuild
  <2>1. pc \in {"fail", "skewed"} /\ UNCHANGED <<truth, wave>>
    BY <1>5 DEF Rebuild
  <2> QED BY <1>1, <2>1
<1>6. CASE UNCHANGED mcvars
  BY <1>1, <1>6 DEF mcvars, netvars
<1>7. CASE PlaceAndRoute
  <2>1. pc = "route" /\ UNCHANGED wave /\ truth' = Truth(Design(job))
    <3>1. PlaceAndRoute => pc = "route" /\ UNCHANGED wave /\ Route(job)
      BY DEF PlaceAndRoute
    <3> QED BY <1>7, <3>1 DEF Route
  <2>2. wave' = <<>>
    BY <2>1 DEF FlightInv, Arriving
  <2>3. Lively'
    <3>1. job \in Job
      BY DEF MCInv
    <3> QED BY <2>1, <3>1, DesignLively DEF Lively
  <2> QED BY <2>2, <2>3 DEF FlightInv, Arriving
<1>8. CASE Launch
  <2>1. PICK r \in truth.races :
          /\ (r.rule = "E") <=> (pc = "clear")
          /\ wave' = <<r, <<r.from[1], 0>>, <<r.from[2], 0>>>>
    BY <1>8 DEF Launch
  <2>2. pc \in {"pass", "clear"} /\ wave = <<>> /\ UNCHANGED <<netvars, truth>>
    BY <1>8 DEF Launch, Audited
  <2>3. r.rule \in {"A", "B", "C", "D", "E"} /\ Lively
    BY DEF FlightInv, Lively
  <2>4. r \in truth.races /\ (r.rule # "E" => pc = "pass")
    BY <2>1, <2>2
  <2> DEFINE from1 == r.from[1]
             from2 == r.from[2]
  <2>6. /\ Flies(truth.live, from1, from1, 0) /\ Flies(truth.live, from2, from2, 0)
    BY FliesNowhere
  <2>7. /\ wave' # <<>> /\ wave'[1] = r /\ wave'[2][1] = from1 /\ wave'[3][1] = from2
        /\ wave'[2][2] = 0 /\ wave'[3][2] = 0
        /\ wave' = <<wave'[1], wave'[2], wave'[3]>>
    BY <2>1
  <2>8. pc' = pc /\ truth' = truth
    BY <2>2 DEF netvars
  <2>9. Lively'
    BY <2>3, <2>8 DEF Lively
  <2>10. Arriving'
    <3> HIDE DEF from1, from2
    <3>1. wave'[1].from[1] = from1 /\ wave'[1].from[2] = from2
      BY <2>7 DEF from1, from2
    <3>2. 0 \in Nat
      OBVIOUS
    <3> QED BY <2>2, <2>3, <2>4, <2>6, <2>7, <2>8, <3>1, <3>2 DEF Arriving
  <2> QED BY <2>9, <2>10 DEF FlightInv
<1>9. ASSUME NEW k \in {2, 3}, Travel(k) PROVE FlightInv'
  <2>1. PICK a \in truth.live : /\ a[1] = wave[k][1]
                                /\ wave' = [wave EXCEPT ![k] = <<a[2], @[2] + a[3]>>]
    BY <1>9 DEF Travel
  <2>2. wave # <<>> /\ UNCHANGED <<netvars, truth>>
    BY <1>9 DEF Travel
  <2>3. pc' = pc /\ truth' = truth
    BY <2>2 DEF netvars
  <2>4. Arriving /\ Lively
    BY DEF FlightInv
  <2>5. Lively'
    BY <2>3, <2>4 DEF Lively
  <2>6. wave = <<wave[1], wave[2], wave[3]>> /\ a[3] \in Nat /\ wave[2][2] \in Nat /\ wave[3][2] \in Nat
    BY <2>2, <2>4 DEF Arriving, Lively
  <2> DEFINE was == wave[k][2]
             start == wave[1].from[k - 1]
  <2>7. Flies(truth.live, start, a[2], was + a[3])
    <3>1. was \in Nat /\ Flies(truth.live, start, a[1], was)
      <4>1. CASE k = 2
        BY <2>1, <2>2, <2>4, <4>1 DEF Arriving
      <4>2. CASE k = 3
        BY <2>1, <2>2, <2>4, <4>2 DEF Arriving
      <4> QED BY <4>1, <4>2
    <3> HIDE DEF was, start
    <3> QED BY <2>6, <3>1, FliesOn
  <2>8. was + a[3] \in Nat
    BY <2>6
  <2>9. CASE k = 2
    <3>1. /\ wave' = <<wave[1], <<a[2], was + a[3]>>, wave[3]>>
      BY <2>1, <2>6, <2>9
    <3>2. /\ wave' # <<>> /\ wave'[1] = wave[1] /\ wave'[2][1] = a[2] /\ wave'[2][2] = was + a[3]
          /\ wave'[3] = wave[3] /\ wave' = <<wave'[1], wave'[2], wave'[3]>>
      <4> HIDE DEF was
      <4> QED BY <3>1
    <3>3. start = wave[1].from[1]
      BY <2>9
    <3>5. Arriving'
      <4> HIDE DEF was, start
      <4> QED BY <2>2, <2>3, <2>4, <2>7, <2>8, <3>2, <3>3 DEF Arriving
    <3> QED BY <2>5, <3>5 DEF FlightInv
  <2>10. CASE k = 3
    <3>1. /\ wave' = <<wave[1], wave[2], <<a[2], was + a[3]>>>>
      BY <2>1, <2>6, <2>10
    <3>2. /\ wave' # <<>> /\ wave'[1] = wave[1] /\ wave'[3][1] = a[2] /\ wave'[3][2] = was + a[3]
          /\ wave'[2] = wave[2] /\ wave' = <<wave'[1], wave'[2], wave'[3]>>
      <4> HIDE DEF was
      <4> QED BY <3>1
    <3>3. start = wave[1].from[2]
      BY <2>10
    <3>5. Arriving'
      <4> HIDE DEF was, start
      <4> QED BY <2>2, <2>3, <2>4, <2>7, <2>8, <3>2, <3>3 DEF Arriving
    <3> QED BY <2>5, <3>5 DEF FlightInv
  <2> QED BY <2>9, <2>10
<1>10. CASE Travel(Request) \/ Travel(Data)
  BY <1>9, <1>10 DEF Request, Data
<1> QED BY <1>2, <1>3, <1>4, <1>5, <1>6, <1>7, <1>8, <1>10 DEF MCNext

LEMMA FlightOrdered == MCInv /\ FlightInv => InOrder
<1> SUFFICES ASSUME MCInv, Lively, Arriving, wave # <<>>, There(Request), There(Data), LookedAt(wave[1])
             PROVE  LET t == wave[Request][2]
                        u == wave[Data][2]
                    IN  CASE wave[1].rule \in {"A", "B", "D"} -> t - u >= Guard(wave[1].late, u)
                          [] wave[1].rule = "C" -> t - u >= ClockToOut
  BY DEF FlightInv, InOrder
<1> DEFINE t == wave[2][2]
           u == wave[3][2]
<1>1. wave[2][1] = wave[1].early /\ wave[3][1] = wave[1].late
  BY DEF There, Target, Request, Data
<1>0. wave[1] \in truth.races /\ wave[1].rule # "E" /\ pc = "pass"
  <2>1. wave[1].rule # "E"
    BY DEF LookedAt
  <2> QED BY <2>1 DEF Arriving
<1>2. Ordered(wave[1], t, u)
  <2>1. RunInv
    BY <1>0 DEF MCInv
  <2>2. Promise(truth.live, wave[1])
    BY <1>0, <2>1, RacesHold
  <2>3. Flies(truth.live, wave[1].from[1], wave[1].early, t) /\ Flies(truth.live, wave[1].from[2], wave[1].late, u)
    BY <1>1 DEF Arriving
  <2> HIDE DEF t, u
  <2> QED BY <2>2, <2>3 DEF Promise
<1>3. wave[Request][2] = t /\ wave[Data][2] = u
  BY DEF Request, Data
<1>4. wave[1].rule \in {"A", "B", "D"} \/ wave[1].rule = "C"
  BY <1>0 DEF Lively
<1> HIDE DEF t, u
<1>5. CASE wave[1].rule \in {"A", "B", "D"}
  BY <1>2, <1>3, <1>5 DEF Ordered
<1>6. CASE wave[1].rule = "C"
  BY <1>2, <1>3, <1>6 DEF Ordered
<1> QED BY <1>4, <1>5, <1>6

\* Whatever tighten.py accepts, every race that it looks at is run in order,
\* whichever way each of the two signals takes through the logic.
THEOREM RacesInOrder == MCSpec => []InOrder
<1>1. MCInv /\ FlightInv /\ [MCNext]_mcvars => FlightInv'
  BY FlightKeeps
<1>2. MCInv /\ FlightInv => InOrder
  BY FlightOrdered
<1> QED BY <1>1, <1>2, FlightFirst, MCKept, PTL DEF MCSpec

-----------------------------------------------------------------------------
(* A ring that nobody declared.                                            *)

Inv(k) == Inst(<<"osc">>, "inv", k)
RingArcs == {<<Pin(Inv(1), "A1"), O(Inv(1))>>, <<O(Inv(1)), Pin(Inv(2), "A1")>>,
             <<Pin(Inv(2), "A1"), O(Inv(2))>>, <<O(Inv(2)), Pin(Inv(1), "A1")>>}
RingPins == {Pin(Inv(1), "A1"), O(Inv(1)), Pin(Inv(2), "A1"), O(Inv(2))}

\* What its files say of it: every arc is there and is used, and no gate of it
\* feeds itself.
RingFiles ==
  /\ sdf.osc = {}
  /\ <<Pin(Inv(1), "A1"), O(Inv(1))>> \in DOMAIN sdf.io /\ <<Pin(Inv(2), "A1"), O(Inv(2))>> \in DOMAIN sdf.io
  /\ <<O(Inv(1)), Pin(Inv(2), "A1")>> \in DOMAIN sdf.net /\ <<O(Inv(2)), Pin(Inv(1), "A1")>> \in DOMAIN sdf.net
  /\ \A a \in RingArcs : a \notin FalseArcs
  /\ \A a \in DOMAIN sdf.io \union DOMAIN sdf.net :
       a[1] \in {O(Inv(1)), O(Inv(2))} => a[1].inst # a[2].inst

LEMMA RingGates ==
  ASSUME NEW enable, Source(enable, TRUE)
  PROVE  LET ring == Ring(enable)
         IN  /\ <<Pin(Inv(1), "A1"), O(Inv(1)), Lut>> \in ring.io
             /\ <<Pin(Inv(2), "A1"), O(Inv(2)), Lut>> \in ring.io
             /\ <<O(Inv(1)), Pin(Inv(2), "A1"), Hop>> \in ring.net
             /\ <<O(Inv(2)), Pin(Inv(1), "A1"), Hop>> \in ring.net
             /\ \A x \in ring.luts : DOMAIN x[2].pin = x[2].uses
             /\ \A t \in ring.net : t[1] \in {O(Inv(1)), O(Inv(2))} => t[1].inst # t[2].inst
<1> DEFINE in1 == <<<<O(Inv(2)), Hop>>, <<enable, Hop>>>>
           in2 == <<<<O(Inv(1)), Hop>>>>
           a == Gate(Inv(1), in1)
           b == Gate(Inv(2), in2)
           ring == Ring(enable)
<1>1. /\ ring.io = a.io \union b.io /\ ring.net = a.net \union b.net /\ ring.luts = a.luts \union b.luts
  <2>1. ring = Merge({a, b})
    BY DEF Ring, Inv
  <2> HIDE DEF a, b, ring
  <2>2. /\ ring.io = UNION {p.io : p \in {a, b}} /\ ring.net = UNION {p.net : p \in {a, b}}
        /\ ring.luts = UNION {p.luts : p \in {a, b}}
    BY <2>1 DEF Merge
  <2> QED BY <2>2
<1>2. ASSUME NEW i, NEW in
      PROVE  /\ Gate(i, in).io = {<<Pin(i, Port(k)), Pin(i, "O"), Lut>> : k \in DOMAIN in}
             /\ Gate(i, in).net = {<<in[k][1], Pin(i, Port(k)), in[k][2]>> : k \in DOMAIN in}
             /\ \A x \in Gate(i, in).luts : DOMAIN x[2].pin = x[2].uses
  <2> DEFINE order == [k \in DOMAIN in |-> Port(k)]
             uses == 0..Len(in)-1
  <2>1. Gate(i, in) = LutCell(i, in, order, uses)
    BY DEF Gate
  <2>2. LutCell(i, in, order, uses).io = Cell(i, in, order, "O", Lut).io
        /\ LutCell(i, in, order, uses).net = Cell(i, in, order, "O", Lut).net
    BY DEF LutCell, Cell
  <2>3. /\ Cell(i, in, order, "O", Lut).io = {<<Pin(i, order[k]), Pin(i, "O"), Lut>> : k \in DOMAIN in}
        /\ Cell(i, in, order, "O", Lut).net = {<<in[k][1], Pin(i, order[k]), in[k][2]>> : k \in DOMAIN in}
    BY DEF Cell
  <2>4. /\ {<<Pin(i, order[k]), Pin(i, "O"), Lut>> : k \in DOMAIN in} = {<<Pin(i, Port(k)), Pin(i, "O"), Lut>> : k \in DOMAIN in}
        /\ {<<in[k][1], Pin(i, order[k]), in[k][2]>> : k \in DOMAIN in} = {<<in[k][1], Pin(i, Port(k)), in[k][2]>> : k \in DOMAIN in}
    <3>1. \A k \in DOMAIN in : order[k] = Port(k)
      OBVIOUS
    <3> HIDE DEF order
    <3> QED BY <3>1
  <2>5. LutCell(i, in, order, uses).luts = {<<i, [uses |-> uses, pin |-> [k \in uses |-> order[k+1]]]>>}
    BY DEF LutCell, Cell
  <2>6. \A x \in LutCell(i, in, order, uses).luts : DOMAIN x[2].pin = x[2].uses
    <3> HIDE DEF order, uses
    <3> QED BY <2>5
  <2> HIDE DEF order, uses
  <2> QED BY <2>1, <2>2, <2>3, <2>4, <2>6
<1>3. DOMAIN in1 = {1, 2} /\ DOMAIN in2 = {1} /\ Port(1) = "A1" /\ Port(2) = "A2"
  BY DEF Port
<1>4. in1[1] = <<O(Inv(2)), Hop>> /\ in1[2] = <<enable, Hop>> /\ in2[1] = <<O(Inv(1)), Hop>>
  OBVIOUS
<1> HIDE DEF in1, in2
<1>5. /\ <<Pin(Inv(1), "A1"), O(Inv(1)), Lut>> \in a.io /\ <<Pin(Inv(2), "A1"), O(Inv(2)), Lut>> \in b.io
  BY <1>2, <1>3 DEF O
<1>6. /\ <<O(Inv(1)), Pin(Inv(2), "A1"), Hop>> \in b.net
      /\ b.net = {<<O(Inv(1)), Pin(Inv(2), "A1"), Hop>>}
      /\ <<O(Inv(2)), Pin(Inv(1), "A1"), Hop>> \in a.net
      /\ a.net = {<<O(Inv(2)), Pin(Inv(1), "A1"), Hop>>, <<enable, Pin(Inv(1), "A2"), Hop>>}
  BY <1>2, <1>3, <1>4
<1>7. Inv(1) # Inv(2) /\ enable \notin {O(Inv(1)), O(Inv(2))}
  BY DEF Inv, Inst, Source, O, Pin
<1>8. \A t \in a.net \union b.net : t[1] \in {O(Inv(1)), O(Inv(2))} => t[1].inst # t[2].inst
  BY <1>6, <1>7 DEF O, Pin
<1>9. \A x \in a.luts \union b.luts : DOMAIN x[2].pin = x[2].uses
  BY <1>2
<1> HIDE DEF a, b, ring
<1> QED BY <1>1, <1>5, <1>6, <1>8, <1>9 DEF ring

LEMMA RingIsLaid == Laid /\ job.ring = "undeclared" => RingFiles
<1> SUFFICES ASSUME Laid, job.ring = "undeclared" PROVE RingFiles
  OBVIOUS
<1> DEFINE p == Design(job).part
           ring == Ring(Enable(job))
           part == LaidOut(job)
<1>1. job \in Job /\ sdf = FilesOf(job, Design(job), part)
  BY DEF Laid
<1>2. part.io = p.io \union ring.io /\ part.net = p.net \union ring.net /\ part.luts = p.luts \union ring.luts
  <2>1. part = Merge({p, ring})
    BY DEF LaidOut
  <2> HIDE DEF p, ring, part
  <2>2. /\ part.io = UNION {q.io : q \in {p, ring}} /\ part.net = UNION {q.net : q \in {p, ring}}
        /\ part.luts = UNION {q.luts : q \in {p, ring}}
    BY <2>1 DEF Merge
  <2> QED BY <2>2
<1>3. Source(Enable(job), TRUE)
  <2>1. <<"lnk", "ctl">> # <<"osc">>
    OBVIOUS
  <2> QED BY <2>1, OfInstance, OutsideDrives DEF Enable
<1>4. /\ <<Pin(Inv(1), "A1"), O(Inv(1)), Lut>> \in ring.io
      /\ <<Pin(Inv(2), "A1"), O(Inv(2)), Lut>> \in ring.io
      /\ <<O(Inv(1)), Pin(Inv(2), "A1"), Hop>> \in ring.net
      /\ <<O(Inv(2)), Pin(Inv(1), "A1"), Hop>> \in ring.net
      /\ \A x \in ring.luts : DOMAIN x[2].pin = x[2].uses
      /\ \A t \in ring.net : t[1] \in {O(Inv(1)), O(Inv(2))} => t[1].inst # t[2].inst
  BY <1>3, RingGates
<1>5. Wired(p, TRUE) /\ Wired(part, FALSE)
  BY <1>1, DesignWired, LaidOutWired
<1> HIDE DEF p, ring, part
<1>6. /\ sdf.io = AsFunction(part.io) /\ sdf.net = AsFunction(part.net) /\ sdf.osc = {}
      /\ sdf.lut = [i \in {x[1] : x \in part.luts} |-> (CHOOSE x \in part.luts : x[1] = i)[2]]
  BY <1>1 DEF FilesOf
<1>7. /\ \A t \in part.io : <<t[1], t[2]>> \in DOMAIN sdf.io
      /\ \A a \in DOMAIN sdf.io : a[1].port \in Ins
      /\ \A t \in part.net : <<t[1], t[2]>> \in DOMAIN sdf.net
      /\ \A a \in DOMAIN sdf.net : a = <<a[1], a[2]>> /\ \E t \in part.net : t[1] = a[1] /\ t[2] = a[2]
  <2>1. /\ \A t \in part.io : <<t[1], t[2]>> \in DOMAIN AsFunction(part.io)
        /\ \A a \in DOMAIN AsFunction(part.io) : a[1].port \in Ins
    BY <1>5, AsFunctionIs DEF Wired
  <2> DEFINE net == part.net
             f == AsFunction(net)
  <2>2. IsFiniteSet(net) /\ \A t \in net : Leads(t, Outs, Ins, FALSE)
    BY <1>5 DEF Wired
  <2> HIDE DEF net
  <2>3. /\ \A t \in net : <<t[1], t[2]>> \in DOMAIN f
        /\ \A a \in DOMAIN f : a = <<a[1], a[2]>> /\ <<a[1], a[2], f[a]>> \in net
    BY <2>2, AsFunctionIs
  <2> HIDE DEF f
  <2>4. ASSUME NEW a \in DOMAIN f PROVE \E t \in net : t[1] = a[1] /\ t[2] = a[2]
    <3> DEFINE t == <<a[1], a[2], f[a]>>
    <3>1. t \in net /\ t[1] = a[1] /\ t[2] = a[2]
      BY <2>3
    <3> QED BY <3>1
  <2> QED BY <1>6, <2>1, <2>3, <2>4 DEF net, f
<1>8. /\ <<Pin(Inv(1), "A1"), O(Inv(1))>> \in DOMAIN sdf.io
      /\ <<Pin(Inv(2), "A1"), O(Inv(2))>> \in DOMAIN sdf.io
      /\ <<O(Inv(1)), Pin(Inv(2), "A1")>> \in DOMAIN sdf.net
      /\ <<O(Inv(2)), Pin(Inv(1), "A1")>> \in DOMAIN sdf.net
  <2>1. \A a, b, c : <<a, b, c>> \in part.io => <<a, b>> \in DOMAIN sdf.io
    BY <1>7
  <2>2. \A a, b, c : <<a, b, c>> \in part.net => <<a, b>> \in DOMAIN sdf.net
    BY <1>7
  <2> QED BY <1>2, <1>4, <2>1, <2>2
<1>9. \A k \in {1, 2} : O(Inv(k)).port = "O" /\ O(Inv(k)).inst = Inv(k) /\ Inv(k).at = <<"osc">>
                        /\ Pin(Inv(k), "A1").inst = Inv(k)
  BY DEF O, Pin, Inv, Inst
<1>10. \A a \in DOMAIN sdf.io \union DOMAIN sdf.net :
         a[1] \in {O(Inv(1)), O(Inv(2))} => a[1].inst # a[2].inst
  <2> SUFFICES ASSUME NEW a \in DOMAIN sdf.io \union DOMAIN sdf.net, NEW k \in {1, 2}, a[1] = O(Inv(k))
               PROVE  a[1].inst # a[2].inst
    OBVIOUS
  <2>1. "O" \notin Ins
    BY DEF Ins
  <2>2. a \in DOMAIN sdf.net
    BY <1>7, <1>9, <2>1
  <2>3. PICK t \in part.net : t[1] = a[1] /\ t[2] = a[2]
    BY <1>7, <2>2
  <2>4. t \notin p.net
    BY <1>5, <1>9, <2>3 DEF Wired, Leads
  <2>5. t \in ring.net
    BY <1>2, <2>3, <2>4
  <2> QED BY <1>4, <2>3, <2>5
<1>11. ASSUME NEW k \in {1, 2}, Inv(k) \in DOMAIN sdf.lut
       PROVE  DOMAIN sdf.lut[Inv(k)].pin = sdf.lut[Inv(k)].uses
  <2> DEFINE y == CHOOSE x \in part.luts : x[1] = Inv(k)
  <2>1. sdf.lut[Inv(k)] = y[2] /\ \E x \in part.luts : x[1] = Inv(k)
    BY <1>6, <1>11
  <2>2. y \in part.luts /\ y[1] = Inv(k)
    BY <2>1
  <2>3. y \notin p.luts
    BY <1>5, <1>9, <2>2 DEF Wired
  <2> HIDE DEF y
  <2> QED BY <1>2, <1>4, <2>1, <2>2, <2>3
<1>12. \A a \in FalseArcs : a[1].inst \in DOMAIN sdf.lut /\ ~(DOMAIN sdf.lut[a[1].inst].pin = sdf.lut[a[1].inst].uses)
  BY DEF FalseArcs, Recorded
<1>13. \A a \in FalseArcs : a \in DOMAIN sdf.io
  BY DEF FalseArcs
<1>14. ASSUME NEW a \in RingArcs PROVE a \notin FalseArcs
  <2> SUFFICES ASSUME a \in FalseArcs PROVE FALSE
    OBVIOUS
  <2>1. a[1].port \in Ins
    BY <1>7, <1>13
  <2>2. \E k \in {1, 2} : a[1].inst = Inv(k)
    BY <1>9 DEF RingArcs
  <2> QED BY <1>11, <1>12, <2>2
<1> QED BY <1>6, <1>8, <1>10, <1>14 DEF RingFiles

\* It is there, and no storage is on it.
RingStays == RingFiles /\ RingArcs \subseteq Arcs /\ \A p \in RingPins : p \notin stops

LEMMA RingUncut ==
  ASSUME RingFiles, NEW E, E \subseteq DOMAIN sdf.io \union DOMAIN sdf.net, NEW p \in RingPins
  PROVE  p \notin Storage(E)
<1> SUFFICES ASSUME p \in Storage(E) PROVE FALSE
  OBVIOUS
<1>1. PICK b \in E : b[1] = p /\ b[1].inst = b[2].inst /\ Output(p)
  BY DEF Storage
<1>2. p \in {O(Inv(1)), O(Inv(2))}
  <2>1. ASSUME NEW k \in {1, 2} PROVE ~Output(Pin(Inv(k), "A1"))
    <3> DEFINE a == <<Pin(Inv(k), "A1"), O(Inv(k))>>
    <3>1. a \in DOMAIN sdf.io /\ a[1] = Pin(Inv(k), "A1")
      BY DEF RingFiles
    <3> HIDE DEF a
    <3> QED BY <3>1 DEF Output
  <2> QED BY <1>1, <2>1 DEF RingPins
<1> QED BY <1>1, <1>2 DEF RingFiles

LEMMA RingTurns ==
  ASSUME RingStays
  PROVE  ~NoLoop
<1> DEFINE E == {a \in Arcs : a[1] \notin stops}
           r == [m \in 0..4 |-> <<Pin(Inv(1), "A1"), O(Inv(1)), Pin(Inv(2), "A1"), O(Inv(2)), Pin(Inv(1), "A1")>>[m+1]]
<1>1. \A a \in RingArcs : a \in E
  <2>1. \A a \in RingArcs : a[1] \in RingPins
    BY DEF RingArcs, RingPins
  <2> QED BY <2>1 DEF RingStays
<1>2. /\ r[0] = Pin(Inv(1), "A1") /\ r[1] = O(Inv(1)) /\ r[2] = Pin(Inv(2), "A1")
      /\ r[3] = O(Inv(2)) /\ r[4] = Pin(Inv(1), "A1")
  OBVIOUS
<1> HIDE DEF r, E
<1>3. <<r[0], r[1]>> \in E /\ <<r[1], r[2]>> \in E /\ <<r[2], r[3]>> \in E /\ <<r[3], r[4]>> \in E
  BY <1>1, <1>2 DEF RingArcs
<1>4. \A m \in 0+1..4 : <<r[m-1], r[m]>> \in E
  <2>1. \A m \in 0+1..4 : m = 1 \/ m = 2 \/ m = 3 \/ m = 4
    OBVIOUS
  <2>2. 1-1 = 0 /\ 2-1 = 1 /\ 3-1 = 2 /\ 4-1 = 3
    OBVIOUS
  <2> QED BY <1>3, <2>1, <2>2
<1>5. Round(r, 0, 4, E)
  BY <1>2, <1>4 DEF Round
<1> QED BY <1>5 DEF NoLoop, E

RingInv == job.ring = "undeclared" /\ pc # "route" => RingStays

LEMMA RingStable ==
  UNCHANGED <<sdf, edge, stops>> => RingStays' = RingStays
BY DEF RingStays, RingFiles, FalseArcs, Recorded, Arcs

LEMMA RingKeeps ==
  ASSUME MCInv, RingInv, [MCNext]_mcvars
  PROVE  RingInv'
<1>1. ASSUME UNCHANGED <<sdf, edge, stops, job>>, pc = "route" => pc' = "route" PROVE RingInv'
  BY <1>1, RingStable DEF RingInv
<1>2. ASSUME RingStays, UNCHANGED sdf, NEW kept \in SUBSET Arcs, RingArcs \subseteq kept,
             edge' = [a \in kept |-> edge[a]], stops' = stops \/ stops' = Storage(kept), OfFiles
      PROVE  RingStays'
  <2>1. RingFiles'
    BY <1>2 DEF RingStays, RingFiles, FalseArcs, Recorded
  <2>2. Arcs' = kept
    BY <1>2 DEF Arcs
  <2>3. \A p \in RingPins : p \notin stops'
    <3>1. kept \subseteq DOMAIN sdf.io \union DOMAIN sdf.net
      BY <1>2 DEF OfFiles
    <3> QED BY <1>2, <3>1, RingUncut DEF RingStays
  <2> QED BY <1>2, <2>1, <2>2, <2>3 DEF RingStays
<1>3. CASE Prune /\ UNCHANGED job
  <2>1. PICK kept : /\ kept = {a : a \in Arcs \ FalseArcs}
                    /\ \/ UNCHANGED <<edge, stops>>
                       \/ edge' = [a \in kept |-> edge[a]] /\ stops' = Storage(kept)
    BY <1>3 DEF Prune
  <2>2. pc = "prune" /\ UNCHANGED <<sdf, job>> /\ OfFiles
    BY <1>3 DEF Prune, MCInv, RunInv
  <2>3. CASE UNCHANGED <<edge, stops>>
    BY <1>1, <2>2, <2>3
  <2>4. CASE edge' = [a \in kept |-> edge[a]] /\ stops' = Storage(kept)
    <3> SUFFICES ASSUME job.ring = "undeclared" PROVE RingStays'
      BY <2>2 DEF RingInv
    <3>1. RingStays
      BY <2>2 DEF RingInv
    <3>2. kept \in SUBSET Arcs /\ RingArcs \subseteq kept
      BY <2>1, <3>1 DEF RingStays, RingFiles
    <3> QED BY <1>2, <2>2, <2>4, <3>1, <3>2
  <2> QED BY <2>1, <2>3, <2>4
<1>4. CASE CheckStorage /\ UNCHANGED job
  <2> DEFINE ring(i) == \E o \in sdf.osc : In(i, o) /\ \E p \in Loose : In(p.inst, o)
             kept == {b \in Arcs : ~ring(b[1].inst)}
  <2>1. UNCHANGED edge \/ edge' = [a \in kept |-> edge[a]]
    <3>1. CheckStorage => UNCHANGED edge \/ edge' = [a \in kept |-> edge[a]]
      BY DEF CheckStorage
    <3> HIDE DEF kept
    <3> QED BY <1>4, <3>1
  <2>2. pc = "storage" /\ UNCHANGED <<sdf, job, stops>> /\ OfFiles
    BY <1>4 DEF CheckStorage, MCInv, RunInv
  <2>3. CASE UNCHANGED edge
    BY <1>1, <2>2, <2>3
  <2>4. CASE edge' = [a \in kept |-> edge[a]]
    <3> SUFFICES ASSUME job.ring = "undeclared" PROVE RingStays'
      BY <2>2 DEF RingInv
    <3>1. RingStays
      BY <2>2 DEF RingInv
    <3>2. kept = Arcs /\ RingArcs \subseteq Arcs
      BY <3>1 DEF RingStays, RingFiles
    <3> HIDE DEF kept
    <3>3. kept \in SUBSET Arcs /\ RingArcs \subseteq kept /\ stops' = stops
      BY <2>2, <3>2
    <3> QED BY <1>2, <2>2, <2>4, <3>1, <3>3
  <2> QED BY <2>1, <2>3, <2>4
<1>5. CASE DropOscillators /\ UNCHANGED job
  <2> DEFINE kept == {b \in Arcs : \A o \in sdf.osc : ~In(b[1].inst, o) /\ ~In(b[2].inst, o)}
  <2>1. /\ edge' = [a \in kept |-> edge[a]] /\ stops' = Storage(DOMAIN edge')
        /\ pc = "storage" /\ UNCHANGED sdf
    BY <1>5 DEF DropOscillators
  <2>2. OfFiles
    BY <2>1 DEF MCInv, RunInv
  <2> SUFFICES ASSUME job.ring = "undeclared" PROVE RingStays'
    BY <1>5 DEF RingInv
  <2>3. RingStays
    BY <1>5, <2>1 DEF RingInv
  <2>4. kept = Arcs /\ RingArcs \subseteq Arcs
    BY <2>3 DEF RingStays, RingFiles
  <2> HIDE DEF kept
  <2>5. stops' = Storage(kept)
    <3>1. DOMAIN edge' = kept
      BY <2>1
    <3> QED BY <2>1, <3>1
  <2> QED BY <1>2, <2>1, <2>2, <2>3, <2>4, <2>5
<1>6. CASE (RuleA \/ RuleB \/ RuleC \/ RuleD \/ RuleE) /\ UNCHANGED job
  <2>1. UNCHANGED <<sdf, edge, stops>> /\ pc # "route"
    BY <1>6, RuleELeaves DEF RuleA, RuleB, RuleC, RuleD
  <2> QED BY <1>1, <1>6, <2>1
<1>7. CASE PlaceAndRoute
  <2>1. Laid'
    BY <1>7, PlacedIsLaid
  <2>2. (Laid /\ job.ring = "undeclared" => RingFiles)'
    BY RingIsLaid, PTL
  <2>3. stops' = {} /\ edge' = Over(sdf'.io, sdf'.net)
    BY <2>1 DEF Laid
  <2>4. RingFiles' => RingStays'
    <3>1. Arcs' = DOMAIN sdf'.io \union DOMAIN sdf'.net
      BY <2>3 DEF Arcs, Over
    <3>2. RingFiles' => RingArcs \subseteq DOMAIN sdf'.io \union DOMAIN sdf'.net
      BY DEF RingFiles, RingArcs
    <3>3. \A p \in RingPins : p \notin stops'
      BY <2>3
    <3> QED BY <3>1, <3>2, <3>3 DEF RingStays
  <2> QED BY <2>1, <2>2, <2>4 DEF RingInv
<1>8. CASE Rebuild
  BY <1>8 DEF Rebuild, RingInv
<1>9. CASE Launch \/ Travel(Request) \/ Travel(Data) \/ UNCHANGED mcvars
  BY <1>1, <1>9 DEF Launch, Travel, mcvars, netvars
<1> QED BY <1>3, <1>4, <1>5, <1>6, <1>7, <1>8, <1>9 DEF MCNext, Rules

LEMMA MCKeepsRing == MCSpec => []RingInv
<1>1. MCInit => RingInv
  BY DEF MCInit, RingInv
<1>2. MCInv /\ RingInv /\ [MCNext]_mcvars => RingInv'
  BY RingKeeps
<1> QED BY <1>1, <1>2, MCKept, PTL DEF MCSpec

\* A design with an oscillator that no one declared never reaches the first of
\* the rules: what closes a cycle without storage is refused, whatever is beside
\* it and however long its lines.
THEOREM NoLooseCycleCorrect == MCSpec => []NoLooseCycle
<1>1. MCInv /\ RingInv => NoLooseCycle
  BY RingTurns DEF MCInv, RunInv, RingInv, NoLooseCycle
<1> QED BY <1>1, MCKept, MCKeepsRing, PTL

-----------------------------------------------------------------------------
(* resize.sh.                                                              *)

Rejected == {"unbuilt", "tighten"}

Running == {"sweep", "key", "final", "done"}

\* The proposal file belongs to the lengths in force.
Current == phase \in Running => last = route[cur].proposal

\* Every key below n was tried, as the proposal file has it, in vain.
Barren(n) ==
  \A k \in Key :
    k < n /\ last[k] < cur[k] =>
      route[[cur EXCEPT ![k] = last[k]]].verdict \in Rejected

\* So was, in a sweep that has kept nothing yet, every key it has passed.
SweepLaw == phase = "key" /\ ~changed => prop = last /\ Barren(next)

EndLaw == /\ phase = "key" /\ next \notin Key /\ ~changed => Barren(KeyCount + 1)
          /\ phase \in {"final", "done"} => Barren(KeyCount + 1)

IInv == TypeOK /\ Routed /\ Current /\ SweepLaw /\ EndLaw

-----------------------------------------------------------------------------
(* Routing x gives x an entry and leaves every entry there was.            *)
LEMMA MeasureOnce ==
  ASSUME TypeOK, NEW x \in Assignment, Measure(x)
  PROVE  /\ route' \in [Assignment -> Entry \union {Unrouted}]
         /\ route'[x] \in Entry
         /\ \A y \in Assignment : route[y] # Unrouted => route'[y] = route[y]
<1>1. CASE route[x] # Unrouted
  BY <1>1 DEF Measure, TypeOK
<1>2. CASE route[x] = Unrouted
  <2>1. PICK v \in Verdict :
          \E p \in IF Accepted(v) THEN Proposals(x) ELSE {x} :
            route' = [route EXCEPT ![x] = [verdict |-> v, proposal |-> p]]
    BY <1>2 DEF Measure
  <2> PICK p \in IF Accepted(v) THEN Proposals(x) ELSE {x} :
            route' = [route EXCEPT ![x] = [verdict |-> v, proposal |-> p]]
    BY <2>1
  <2>2. p \in Assignment
    BY DEF Proposals
  <2>3. [verdict |-> v, proposal |-> p] \in Entry
    BY <2>2 DEF Entry
  <2> QED
    BY <1>2, <2>3 DEF TypeOK
<1> QED
  BY <1>1, <1>2

(* A verdict is either accepted or a rejection.                            *)
LEMMA AcceptOrReject ==
  ASSUME NEW v \in Verdict
  PROVE  /\ Accepted(v) => v \notin {"unrouted", "unbuilt", "tighten"}
         /\ ~Accepted(v) => v \in Rejected
BY DEF Accepted, Verdict, Rejected

LEMMA InitInv == Init => IInv
<1> SUFFICES ASSUME Init PROVE IInv
  OBVIOUS
<1>1. cur \in Assignment
  BY ResizeAssumption DEF Init, Assignment, Lengths
<1>2. TypeOK
  <2>1. next \in 1..KeyCount + 1
    BY ResizeAssumption DEF Init
  <2>2. changed \in BOOLEAN /\ drivable \in BOOLEAN
    BY DEF Init
  <2>3. route \in [Assignment -> Entry \union {Unrouted}]
    BY DEF Init
  <2> QED
    BY <1>1, <2>1, <2>2, <2>3 DEF Init, TypeOK
<1> QED
  BY <1>2 DEF Init, IInv, Routed, Current, SweepLaw, EndLaw, Running

-----------------------------------------------------------------------------
(* One lemma per action.                                                   *)
LEMMA BaselineInv == IInv /\ Baseline => IInv'
<1> SUFFICES ASSUME IInv, Baseline PROVE IInv'
  OBVIOUS
<1>1. cur \in Assignment
  BY DEF IInv, TypeOK
<1>2. /\ route' \in [Assignment -> Entry \union {Unrouted}]
      /\ route'[cur] \in Entry
  BY <1>1, MeasureOnce DEF Baseline, IInv
<1>3. CASE Accepted(route'[cur].verdict)
  <2>1. route'[cur].proposal \in Assignment /\ route'[cur].verdict \in Verdict
    BY <1>2 DEF Entry
  <2>2. TypeOK'
    BY <1>2, <1>3, <2>1 DEF Baseline, IInv, TypeOK
  <2>3. Routed'
    BY <1>3, <2>1, AcceptOrReject DEF Baseline, Routed
  <2> QED
    BY <1>3, <2>2, <2>3 DEF Baseline, IInv, Current, SweepLaw, EndLaw
<1>4. CASE ~Accepted(route'[cur].verdict)
  <2>1. TypeOK'
    BY <1>2, <1>4 DEF Baseline, IInv, TypeOK
  <2> QED
    BY <1>4, <2>1 DEF Baseline, IInv, Routed, Current, Running, SweepLaw, EndLaw
<1> QED
  BY <1>3, <1>4

LEMMA StartSweepInv == IInv /\ StartSweep => IInv'
<1> SUFFICES ASSUME IInv, StartSweep PROVE IInv'
  OBVIOUS
<1>1. TypeOK'
  <2>1. next' \in 1..KeyCount + 1
    BY ResizeAssumption DEF StartSweep
  <2>2. changed' \in BOOLEAN
    BY DEF StartSweep
  <2> QED
    BY <2>1, <2>2 DEF StartSweep, IInv, TypeOK
<1>2. Routed' /\ Current'
  BY DEF StartSweep, IInv, Routed, Current, Running
<1>3. Barren(next)'
  BY DEF StartSweep, Barren, Key
<1>4. SweepLaw'
  BY <1>3 DEF StartSweep, SweepLaw
<1>5. EndLaw'
  BY ResizeAssumption DEF StartSweep, EndLaw, Key
<1> QED
  BY <1>1, <1>2, <1>4, <1>5 DEF IInv

\* A key below n + 1 is below n, or n.
LEMMA BarrenStep ==
  ASSUME NEW n \in Nat, Barren(n),
         n \in Key /\ last[n] < cur[n] =>
           route[[cur EXCEPT ![n] = last[n]]].verdict \in Rejected
  PROVE  Barren(n + 1)
<1> SUFFICES ASSUME NEW k \in Key, k < n + 1, last[k] < cur[k]
             PROVE  route[[cur EXCEPT ![k] = last[k]]].verdict \in Rejected
  BY DEF Barren
<1>1. k = n \/ k < n
  BY ResizeAssumption DEF Key
<1> QED
  BY <1>1 DEF Barren

LEMMA SkipInv == IInv /\ Skip => IInv'
<1> SUFFICES ASSUME IInv, Skip PROVE IInv'
  OBVIOUS
<1>1. next \in Key /\ next \in Nat
  BY DEF Skip, Key
<1>2. TypeOK'
  BY <1>1, ResizeAssumption DEF Skip, IInv, TypeOK, Key
<1>3. Routed' /\ Current'
  BY DEF Skip, IInv, Routed, Current
<1>4. ~changed => prop = last /\ Barren(next + 1)
  <2> SUFFICES ASSUME ~changed PROVE prop = last /\ Barren(next + 1)
    OBVIOUS
  <2>1. prop = last /\ Barren(next)
    BY DEF IInv, SweepLaw, Skip
  <2>2. ~(last[next] < cur[next])
    BY <2>1 DEF Skip, Tightens
  <2> QED
    BY <1>1, <2>1, <2>2, BarrenStep
<1>5. SweepLaw'
  BY <1>4 DEF Skip, SweepLaw, Barren
<1>6. next' \notin Key => next' = KeyCount + 1
  BY <1>1, ResizeAssumption DEF Skip, Key
<1>7. EndLaw'
  BY <1>4, <1>6 DEF Skip, EndLaw, Barren
<1> QED
  BY <1>2, <1>3, <1>5, <1>7 DEF IInv

LEMMA TryInv == IInv /\ Try => IInv'
<1> SUFFICES ASSUME IInv, Try PROVE IInv'
  OBVIOUS
<1>1. next \in Key /\ next \in Nat
  BY DEF Try, Key
<1>2. cur \in Assignment /\ Trial \in Assignment
  BY <1>1 DEF IInv, TypeOK, Trial, Assignment
<1>3. /\ route' \in [Assignment -> Entry \union {Unrouted}]
      /\ route'[Trial] \in Entry
      /\ \A y \in Assignment : route[y] # Unrouted => route'[y] = route[y]
  BY <1>2, MeasureOnce DEF Try, IInv
<1>4. route'[Trial].verdict \in Verdict /\ route'[Trial].proposal \in Assignment
  BY <1>3 DEF Entry
<1>5. next' \in 1..KeyCount + 1 /\ (next' \notin Key => next' = KeyCount + 1)
  BY <1>1, ResizeAssumption DEF Try, Key
<1>6. CASE Accepted(route'[Trial].verdict)
  <2>1. cur' = Trial /\ last' = route'[Trial].proposal /\ changed'
    BY <1>6 DEF Try, Proposal
  <2>2. TypeOK'
    BY <1>2, <1>3, <1>4, <1>5, <1>6, <2>1 DEF Try, IInv, TypeOK
  <2>3. Routed'
    BY <1>4, <1>6, <2>1, AcceptOrReject DEF Try, Routed
  <2> QED
    BY <2>1, <2>2, <2>3 DEF Try, IInv, Current, SweepLaw, EndLaw
<1>7. CASE ~Accepted(route'[Trial].verdict)
  <2>1. cur' = cur /\ last' = last /\ changed' = changed /\ phase' = phase /\ prop' = prop
    BY <1>7 DEF Try, Revert
  <2>2. TypeOK'
    BY <1>2, <1>3, <1>5, <2>1 DEF Try, IInv, TypeOK
  <2>3. route[cur] # Unrouted
    BY DEF IInv, Routed, Try, Unrouted
  <2>4. route'[cur] = route[cur]
    BY <1>2, <1>3, <2>3
  <2>5. Routed' /\ Current'
    BY <2>1, <2>4 DEF IInv, Routed, Current
  <2>6. ~changed => prop = last /\ Barren(next)'
    <3> SUFFICES ASSUME ~changed PROVE prop = last /\ Barren(next)'
      OBVIOUS
    <3>1. prop = last /\ Barren(next)
      BY DEF IInv, SweepLaw, Try
    <3>2. ASSUME NEW k \in Key, k < next + 1, last[k] < cur[k]
          PROVE  route'[[cur EXCEPT ![k] = last[k]]].verdict \in Rejected
      <4>1. CASE k = next
        <5>1. [cur EXCEPT ![k] = last[k]] = Trial
          BY <3>1, <4>1 DEF Trial
        <5> QED
          BY <1>4, <1>7, <5>1, AcceptOrReject
      <4>2. CASE k # next
        <5>1. k < next
          BY <1>1, <3>2, <4>2 DEF Key
        <5>2. route[[cur EXCEPT ![k] = last[k]]].verdict \in Rejected
          BY <3>1, <3>2, <5>1 DEF Barren
        <5>3. route[[cur EXCEPT ![k] = last[k]]] # Unrouted
          BY <5>2 DEF Rejected, Unrouted
        <5>4. [cur EXCEPT ![k] = last[k]] \in Assignment
          BY <1>2 DEF IInv, TypeOK, Assignment
        <5> QED
          BY <1>3, <5>2, <5>3, <5>4
      <4> QED
        BY <4>1, <4>2
    <3>3. next' = next + 1
      BY DEF Try
    <3> QED
      BY <2>1, <3>1, <3>2, <3>3 DEF Barren
  <2>7. next' = next + 1 /\ phase = "key"
    BY DEF Try
  <2>8. SweepLaw'
    BY <2>1, <2>6, <2>7 DEF SweepLaw, Barren
  <2>9. EndLaw'
    BY <1>5, <2>1, <2>6, <2>7 DEF EndLaw, Barren
  <2> QED
    BY <2>2, <2>5, <2>8, <2>9 DEF IInv
<1> QED
  BY <1>6, <1>7

LEMMA EndSweepInv == IInv /\ EndSweep => IInv'
<1> SUFFICES ASSUME IInv, EndSweep PROVE IInv'
  OBVIOUS
<1>1. TypeOK' /\ Routed' /\ Current'
  BY DEF EndSweep, IInv, TypeOK, Routed, Current, Running
<1>2. Barren(KeyCount + 1)' <=> Barren(KeyCount + 1)
  BY DEF EndSweep, Barren
<1>3. SweepLaw' /\ EndLaw'
  BY <1>2 DEF EndSweep, IInv, SweepLaw, EndLaw
<1> QED
  BY <1>1, <1>3 DEF IInv

LEMMA FinalInv == IInv /\ Final => IInv'
<1> SUFFICES ASSUME IInv, Final PROVE IInv'
  OBVIOUS
<1>1. cur \in Assignment /\ route[cur] # Unrouted
  BY DEF IInv, TypeOK, Routed, Final, Unrouted
<1>2. route' = route
  BY <1>1 DEF Final, Measure
<1>3. route[cur] \in Entry
  BY <1>1 DEF IInv, TypeOK
<1>4. Accepted(route'[cur].verdict)
  BY <1>2, <1>3 DEF Entry, IInv, Routed, Final, Accepted, Verdict
<1>5. phase' = "done"
  BY <1>4 DEF Final
<1>6. TypeOK' /\ Routed' /\ Current'
  BY <1>2, <1>5 DEF Final, IInv, TypeOK, Routed, Current, Running
<1>7. SweepLaw' /\ EndLaw'
  BY <1>2, <1>5 DEF Final, IInv, SweepLaw, EndLaw, Barren
<1> QED
  BY <1>6, <1>7 DEF IInv

-----------------------------------------------------------------------------
(* The invariant, for every number and length of matched delays.           *)
THEOREM Invariance == Spec => []IInv
<1>1. IInv /\ [Next]_vars => IInv'
  <2> SUFFICES ASSUME IInv, [Next]_vars PROVE IInv'
    OBVIOUS
  <2>1. CASE UNCHANGED vars
    BY <2>1 DEF vars, IInv, TypeOK, Routed, Current, SweepLaw, EndLaw, Barren
  <2> QED
    BY <2>1, BaselineInv, StartSweepInv, SkipInv, TryInv, EndSweepInv, FinalInv
       DEF Next
<1> QED
  BY <1>1, InitInv, PTL DEF Spec

(* The lengths on disk are those of a route tighten.py has passed, and the *)
(* closing re-route agrees.                                                *)
THEOREM RoutedCorrect == Spec => []Routed
BY Invariance, PTL DEF IInv

(* The search stops at a local minimum only.                               *)
THEOREM MinimumCorrect == Spec => []LocalMinimum
<1>1. IInv => LocalMinimum
  <2> SUFFICES ASSUME IInv, phase = "done", NEW k \in Key,
                      route[cur].proposal[k] < cur[k]
               PROVE  route[[cur EXCEPT ![k] = route[cur].proposal[k]]].verdict
                        \in {"unbuilt", "tighten"}
    BY DEF LocalMinimum
  <2>1. last = route[cur].proposal /\ Barren(KeyCount + 1)
    BY DEF IInv, Current, Running, EndLaw
  <2>2. k < KeyCount + 1
    BY ResizeAssumption DEF Key
  <2> QED
    BY <2>1, <2>2 DEF Barren, Rejected
<1> QED
  BY <1>1, Invariance, PTL
=============================================================================
