----------------------------- MODULE MullerRing -----------------------------
(***************************************************************************)
(* The closed ring of cells/tb/tb_ring.v: N bd_link controllers,           *)
(* c[i] = C(c[i-1], ~c[i+1]) with indices modulo N, the first K of which   *)
(* come up holding (bd_c2n_set) and the rest empty (bd_c2n).  "Every       *)
(* cycle in a dataflow graph becomes one of these rings" (tb_ring.v).      *)
(*                                                                         *)
(* Power-up contents are arbitrary.  Reset is held until every node has    *)
(* settled, as tb_ring holds it; the stages then leave reset one by one in *)
(* any order, and a stage still in reset does not move.                    *)
(***************************************************************************)
EXTENDS Integers

CONSTANTS Size,   \* N, the stages in the ring
          K       \* how many come up holding

ASSUME RingAssumption == Size \in Nat \ {0} /\ K \in 0..Size

Place == 0..Size-1

VARIABLES ring,  \* the node values
          rst    \* rst[i]: stage i still sees reset asserted

ringVars == <<ring, rst>>

Prev(i) == IF i = 0 THEN Size - 1 ELSE i - 1
Succ(i) == IF i = Size - 1 THEN 0 ELSE i + 1

\* Mutant: reset clears every stage.
UpNowhere(i) == 0

\* What reset drives a stage to.
Up(i) == IF i < K THEN 1 ELSE 0

\* Mutants: the ~b of the C-element wired as b; an AND gate.
C2nPlain(a, b, v) == IF a = b THEN a ELSE v
C2nAnd(a, b, v) == IF a = 1 /\ b = 0 THEN 1 ELSE 0

\* C(a, ~b) holding v
C2n(a, b, v) == IF a # b THEN a ELSE v

RingInit == /\ ring \in [Place -> {0, 1}]
            /\ rst = [i \in Place |-> TRUE]

Settle(i) == /\ rst[i]
             /\ ring[i] # Up(i)
             /\ ring' = [ring EXCEPT ![i] = Up(i)]
             /\ UNCHANGED rst

\* Mutant: reset is released without waiting.
SettledNever == TRUE

\* No stage leaves reset before all of them have settled.
Settled == \A j \in Place : rst[j] => ring[j] = Up(j)

Release(i) == /\ rst[i]
              /\ Settled
              /\ rst' = [rst EXCEPT ![i] = FALSE]
              /\ UNCHANGED ring

Excited(i) == ~rst[i] /\ C2n(ring[Prev(i)], ring[Succ(i)], ring[i]) # ring[i]

Fire(i) == /\ Excited(i)
           /\ ring' = [ring EXCEPT ![i] = C2n(ring[Prev(i)], ring[Succ(i)], ring[i])]
           /\ UNCHANGED rst

RingNext == \E i \in Place : Settle(i) \/ Release(i) \/ Fire(i)

RingSpec == RingInit /\ [][RingNext]_ringVars

\* Reset does its work and is released; an excited C-element switches.
RingFairness == \A i \in Place : /\ WF_ringVars(Settle(i))
                                 /\ WF_ringVars(Release(i))
                                 /\ WF_ringVars(Fire(i))

RingFairSpec == RingSpec /\ RingFairness

-----------------------------------------------------------------------------
RingTypeOK == /\ ring \in [Place -> {0, 1}]
              /\ rst \in [Place -> BOOLEAN]

Started == \E i \in Place : ~rst[i]
Running == \A i \in Place : ~rst[i]

(* The stages holding v are those from a to b, and not all of them. *)
Run(v, a, b) == a < b /\ \A i \in Place : ring[i] = v <=> a <= i /\ i < b

(* Read round the ring, the nodes that are up form one unbroken run which  *)
(* is neither empty nor the whole ring: the token is neither lost nor      *)
(* split in two, however the stages race and whatever order they left      *)
(* reset in.                                                               *)
OneToken == Started => \E a, b \in Place : Run(1, a, b) \/ Run(0, a, b)

(* A ring out of reset always has a node ready to switch.  tb_ring: three  *)
(* stages is the floor, and occupancy strictly between 0 and N.            *)
NeverDead == Running => \E i \in Place : Excited(i)

(* No glitches: a node that is about to switch is never called back by     *)
(* another node switching first.                                           *)
Committed == \A i \in Place : Excited(i) /\ ring'[i] = ring[i] => Excited(i)'

HazardFree == [][Committed]_ringVars

(* The token comes round for ever: every stage rises and falls again and   *)
(* again, which is what tb_ring counts edges for.                          *)
Circulates == \A i \in Place : []<>(ring[i] = 1) /\ []<>(ring[i] = 0)
=============================================================================
