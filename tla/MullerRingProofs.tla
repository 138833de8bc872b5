-------------------------- MODULE MullerRingProofs --------------------------
(***************************************************************************)
(* A ring of three or more stages, some but not all of which come up       *)
(* holding, keeps its one token and never dies, whatever the length.       *)
(***************************************************************************)
EXTENDS MullerRing, TLAPS

\* Some stages come up holding, not all, and there is room to move.
LiveRing == Size >= 3 /\ 0 < K /\ K < Size

\* Once one stage is out of reset the others in reset show their reset value.
ResetHolds == Started => Settled

IInv == RingTypeOK /\ OneToken /\ ResetHolds

LEMMA RingSize == ASSUME LiveRing PROVE Size \in Nat /\ Size >= 3 /\ K \in 1..Size-1
BY RingAssumption DEF LiveRing

LEMMA Neighbours ==
  ASSUME LiveRing, NEW i \in Place
  PROVE  Prev(i) \in Place /\ Succ(i) \in Place /\ Prev(i) # i /\ Succ(i) # i
BY RingSize DEF Place, Prev, Succ

LEMMA TypeStep ==
  ASSUME LiveRing, RingTypeOK, [RingNext]_ringVars
  PROVE  RingTypeOK'
<1>1. ASSUME NEW i \in Place, Settle(i) PROVE RingTypeOK'
  <2>1. Up(i) \in {0, 1}
    BY DEF Up
  <2>2. QED
    BY <1>1, <2>1 DEF Settle, RingTypeOK
<1>2. ASSUME NEW i \in Place, Release(i) PROVE RingTypeOK'
  BY <1>2 DEF Release, RingTypeOK
<1>3. ASSUME NEW i \in Place, Fire(i) PROVE RingTypeOK'
  <2>1. C2n(ring[Prev(i)], ring[Succ(i)], ring[i]) \in {0, 1}
    BY Neighbours DEF C2n, RingTypeOK
  <2>2. QED
    BY <1>3, <2>1 DEF Fire, RingTypeOK
<1>4. CASE UNCHANGED ringVars
  BY <1>4 DEF ringVars, RingTypeOK
<1>5. QED
  BY <1>1, <1>2, <1>3, <1>4 DEF RingNext

(* Leaving reset: the settled ring is one run, stages 0 to K-1 holding. *)
LEMMA SettledIsOneToken ==
  ASSUME LiveRing, RingTypeOK, Settled, ~Started
  PROVE  \E a, b \in Place : Run(1, a, b) \/ Run(0, a, b)
<1>1. \A i \in Place : ring[i] = Up(i)
  BY DEF Settled, Started
<1>2. 0 \in Place /\ K \in Place
  BY RingSize DEF Place
<1>3. Run(1, 0, K)
  BY RingSize, <1>1 DEF Run, Up, Place
<1>4. QED
  BY <1>2, <1>3

(* A node switches exactly when it differs from the one before it and      *)
(* agrees with the one after it; it then takes the value before it.        *)
LEMMA FireShape ==
  ASSUME LiveRing, RingTypeOK, NEW i \in Place
  PROVE  Excited(i) <=> ~rst[i] /\ ring[Prev(i)] # ring[i] /\ ring[Succ(i)] = ring[i]
<1>1. ring[i] \in {0, 1} /\ ring[Prev(i)] \in {0, 1} /\ ring[Succ(i)] \in {0, 1}
  BY Neighbours DEF RingTypeOK
<1>2. QED
  BY <1>1 DEF Excited, C2n

(* Switching moves one end of the run one stage on. *)
LEMMA FireMovesEnd ==
  ASSUME LiveRing, RingTypeOK, NEW i \in Place, Fire(i),
         NEW v \in {0, 1}, NEW a \in Place, NEW b \in Place, Run(v, a, b)
  PROVE  \E x, y \in Place : Run(1, x, y)' \/ Run(0, x, y)'
<1>1. Size \in Nat /\ Size >= 3 /\ a \in 0..Size-1 /\ b \in 0..Size-1 /\ i \in 0..Size-1
      /\ v \in {0, 1}
  BY RingSize DEF Place
<1>2. /\ ring[Prev(i)] # ring[i] /\ ring[Succ(i)] = ring[i]
      /\ ring \in [0..Size-1 -> {0, 1}]
      /\ ring' = [ring EXCEPT ![i] = 1 - ring[i]]
  <2>1. ring[Prev(i)] # ring[i] /\ ring[Succ(i)] = ring[i]
    BY FireShape DEF Fire
  <2>2. ring[i] \in {0, 1} /\ ring[Prev(i)] \in {0, 1}
    BY Neighbours DEF RingTypeOK
  <2>3. C2n(ring[Prev(i)], ring[Succ(i)], ring[i]) = 1 - ring[i]
    BY <2>1, <2>2 DEF C2n
  <2>4. QED
    BY <2>1, <2>3 DEF Fire, RingTypeOK, Place
<1>3. a < b /\ \A k \in 0..Size-1 : ring[k] = v <=> a <= k /\ k < b
  BY DEF Run, Place
<1>4. i = a \/ i = b
  BY <1>1, <1>2, <1>3 DEF Prev
<1>5. CASE i = a
  <2>1. a + 1 \in Place /\ a + 1 < b
    BY <1>1, <1>2, <1>3, <1>5 DEF Succ, Place
  <2>2. \A k \in 0..Size-1 : ring'[k] = v <=> a + 1 <= k /\ k < b
    BY <1>1, <1>2, <1>3, <1>5, <2>1
  <2>3. Run(v, a + 1, b)'
    BY <2>1, <2>2 DEF Run, Place
  <2>4. QED
    BY <1>1, <2>1, <2>3
<1>6. CASE i = b /\ b < Size - 1
  <2>1. b + 1 \in Place
    BY <1>1, <1>6 DEF Place
  <2>2. \A k \in 0..Size-1 : ring'[k] = v <=> a <= k /\ k < b + 1
    BY <1>1, <1>2, <1>3, <1>6
  <2>3. Run(v, a, b + 1)'
    BY <1>1, <1>3, <2>2 DEF Run, Place
  <2>4. QED
    BY <1>1, <2>1, <2>3
<1>7. CASE i = b /\ b = Size - 1
  <2>1. 0 \in Place /\ 0 < a
    BY <1>1, <1>2, <1>3, <1>7 DEF Succ, Place
  <2>2. \A k \in 0..Size-1 : ring'[k] = 1 - v <=> 0 <= k /\ k < a
    BY <1>1, <1>2, <1>3, <1>7, <2>1
  <2>3. Run(1 - v, 0, a)'
    BY <2>1, <2>2 DEF Run, Place
  <2>4. 1 - v = 0 \/ 1 - v = 1
    BY <1>1
  <2>5. QED
    BY <2>1, <2>3, <2>4
<1>8. QED
  BY <1>1, <1>4, <1>5, <1>6, <1>7

LEMMA StepInv ==
  ASSUME LiveRing, IInv, [RingNext]_ringVars
  PROVE  IInv'
<1>1. RingTypeOK'
  BY TypeStep DEF IInv
<1>2. ASSUME NEW i \in Place, Settle(i) PROVE OneToken' /\ ResetHolds'
  <2>1. ~Started
    BY <1>2 DEF Settle, IInv, ResetHolds, Settled
  <2>2. ~Started'
    BY <1>2, <2>1 DEF Settle, Started
  <2>3. QED
    BY <2>2 DEF OneToken, ResetHolds
<1>3. ASSUME NEW i \in Place, Release(i) PROVE OneToken' /\ ResetHolds'
  <2>1. \E a, b \in Place : Run(1, a, b) \/ Run(0, a, b)
    <3>1. CASE Started
      BY <3>1 DEF IInv, OneToken
    <3>2. CASE ~Started
      BY <1>3, <3>2, SettledIsOneToken DEF Release, IInv
    <3>3. QED
      BY <3>1, <3>2
  <2>2. OneToken'
    BY <1>3, <2>1 DEF Release, OneToken, Run
  <2>3. ResetHolds'
    BY <1>3 DEF Release, ResetHolds, Settled, IInv, RingTypeOK
  <2>4. QED
    BY <2>2, <2>3
<1>4. ASSUME NEW i \in Place, Fire(i) PROVE OneToken' /\ ResetHolds'
  <2>1. ~rst[i] /\ Started
    BY <1>4 DEF Fire, Excited, Started
  <2>2. PICK a \in Place, b \in Place : Run(1, a, b) \/ Run(0, a, b)
    BY <2>1 DEF IInv, OneToken
  <2>3. \E x, y \in Place : Run(1, x, y)' \/ Run(0, x, y)'
    BY <1>4, <2>2, FireMovesEnd DEF IInv
  <2>4. OneToken'
    BY <2>3 DEF OneToken
  <2>5. ResetHolds'
    BY <1>4, <2>1 DEF Fire, ResetHolds, Settled, IInv, RingTypeOK
  <2>6. QED
    BY <2>4, <2>5
<1>5. CASE UNCHANGED ringVars
  <2>1. ring' = ring /\ rst' = rst
    BY <1>5 DEF ringVars
  <2>2. OneToken'
    BY <2>1 DEF IInv, OneToken, Started, Run
  <2>3. ResetHolds'
    BY <2>1 DEF IInv, ResetHolds, Started, Settled
  <2>4. QED
    BY <1>1, <2>2, <2>3 DEF IInv
<1>6. QED
  BY <1>1, <1>2, <1>3, <1>4, <1>5 DEF RingNext, IInv

LEMMA InitInv == RingInit => IInv
BY DEF RingInit, IInv, RingTypeOK, OneToken, ResetHolds, Started

(* The inductive invariant. *)
THEOREM Invariance == ASSUME LiveRing PROVE RingSpec => []IInv
<1>1. IInv /\ [RingNext]_ringVars => IInv'
  BY StepInv
<1>2. QED
  BY <1>1, InitInv, PTL DEF RingSpec

(* Types, for every N and K of a live ring. *)
THEOREM TypeCorrect == ASSUME LiveRing PROVE RingSpec => []RingTypeOK
<1>1. IInv => RingTypeOK
  BY DEF IInv
<1>2. QED
  BY <1>1, Invariance, PTL

(* The token is neither lost nor split. *)
THEOREM TokenConserved == ASSUME LiveRing PROVE RingSpec => []OneToken
<1>1. IInv => OneToken
  BY DEF IInv
<1>2. QED
  BY <1>1, Invariance, PTL

(* Some node is always ready to switch: at the front end of the run if     *)
(* there are two empty stages there, at its back end otherwise.            *)
LEMMA SomeoneExcited ==
  ASSUME LiveRing, IInv, Running
  PROVE  \E i \in Place : Excited(i)
<1>1. Size \in Nat /\ Size >= 3
  BY RingSize
<1>2. Started
  BY <1>1 DEF Running, Started, Place
<1>3. PICK a \in Place, b \in Place : Run(1, a, b) \/ Run(0, a, b)
  BY <1>2 DEF IInv, OneToken
<1>4. PICK v \in {0, 1} : Run(v, a, b)
  BY <1>3
<1>5. /\ a \in 0..Size-1 /\ b \in 0..Size-1 /\ a < b
      /\ \A k \in 0..Size-1 : ring[k] = v <=> a <= k /\ k < b
      /\ \A k \in 0..Size-1 : ring[k] \in {0, 1}
  BY <1>4 DEF Run, Place, IInv, RingTypeOK
<1>6. CASE a + 1 < b
  <2>1. Succ(a) = a + 1 /\ Prev(a) \in 0..Size-1 /\ ~(a <= Prev(a) /\ Prev(a) < b)
    BY <1>1, <1>5, <1>6 DEF Succ, Prev
  <2>2. ring[Succ(a)] = ring[a] /\ ring[Prev(a)] # ring[a]
    BY <1>1, <1>5, <1>6, <2>1
  <2>3. Excited(a)
    BY <2>2, FireShape DEF IInv, Running
  <2>4. QED
    BY <2>3
<1>7. CASE a + 1 = b
  <2>1. Prev(b) = a /\ Succ(b) \in 0..Size-1 /\ Succ(b) # a
    BY <1>1, <1>5, <1>7 DEF Succ, Prev
  <2>2. ring[Prev(b)] # ring[b]
    BY <1>1, <1>5, <1>7, <2>1
  <2>3. ring[Succ(b)] # v /\ ring[b] # v
    BY <1>1, <1>5, <1>7, <2>1
  <2>4. ring[Succ(b)] = ring[b]
    BY <1>5, <2>1, <2>3
  <2>5. Excited(b)
    BY <2>2, <2>4, FireShape DEF IInv, Running
  <2>6. QED
    BY <2>5
<1>8. QED
  BY <1>1, <1>5, <1>6, <1>7

(* tb_ring's length and occupancy sweeps, for every length and occupancy.  *)
THEOREM RingNeverDead == ASSUME LiveRing PROVE RingSpec => []NeverDead
<1>1. IInv => NeverDead
  BY SomeoneExcited DEF NeverDead
<1>2. QED
  BY <1>1, Invariance, PTL

(* The node before an excited node is not excited, nor is the node after   *)
(* it, and a stage still in reset is already where reset drives it: none   *)
(* can call the switching back.                                            *)
LEMMA CommittedStep ==
  ASSUME LiveRing, IInv, [RingNext]_ringVars, NEW i \in Place,
         Excited(i), ring'[i] = ring[i]
  PROVE  Excited(i)'
<1>1. ~rst[i] /\ ring[Prev(i)] # ring[i] /\ ring[Succ(i)] = ring[i]
  BY FireShape DEF IInv
<1>2. /\ Prev(i) \in Place /\ Succ(i) \in Place
      /\ Succ(Prev(i)) = i /\ Prev(Succ(i)) = i
  BY RingSize, Neighbours DEF Prev, Succ, Place
<1>3. ring \in [Place -> {0, 1}] /\ rst \in [Place -> BOOLEAN]
  BY DEF IInv, RingTypeOK
<1>4. SUFFICES ~rst'[i] /\ ring'[Prev(i)] = ring[Prev(i)] /\ ring'[Succ(i)] = ring[Succ(i)]
  BY <1>1 DEF Excited
<1>5. ASSUME NEW j \in Place, Settle(j)
      PROVE  FALSE
  BY <1>1, <1>5 DEF Settle, IInv, ResetHolds, Settled, Started
<1>6. CASE \E j \in Place : Release(j)
  BY <1>1, <1>3, <1>6 DEF Release
<1>7. ASSUME NEW j \in Place, Fire(j)
      PROVE  ~rst'[i] /\ ring'[Prev(i)] = ring[Prev(i)] /\ ring'[Succ(i)] = ring[Succ(i)]
  <2>1. ring[Prev(j)] # ring[j] /\ ring[Succ(j)] = ring[j]
    BY <1>7, FireShape DEF Fire, IInv
  <2>2. j # Prev(i) /\ j # Succ(i)
    BY <1>1, <1>2, <2>1
  <2>3. QED
    BY <1>1, <1>2, <1>3, <1>7, <2>2 DEF Fire
<1>8. CASE UNCHANGED ringVars
  BY <1>1, <1>8 DEF ringVars
<1>9. QED
  BY <1>5, <1>6, <1>7, <1>8 DEF RingNext

(* The ring is free of glitches. *)
THEOREM RingHazardFree == ASSUME LiveRing PROVE RingSpec => HazardFree
<1>1. IInv /\ [RingNext]_ringVars => [Committed]_ringVars
  BY CommittedStep DEF Committed
<1>2. QED
  BY <1>1, Invariance, PTL DEF RingSpec, HazardFree
=============================================================================
