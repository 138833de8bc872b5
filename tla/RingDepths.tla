----------------------------- MODULE RingDepths -----------------------------
(***************************************************************************)
(* Where bdc/emit.py puts storage on a dataflow graph, and how much:       *)
(* cycle_sites cuts every cycle with at least one link, ring_depths then   *)
(* deepens links until no simple cycle holds fewer than RING_MIN_STAGES    *)
(* stages.  MullerRing is what happens on each of those cycles at run      *)
(* time.                                                                   *)
(*                                                                         *)
(* An edge is a channel: one value, one producer, one consumer (what       *)
(* slack.check_tokens verifies).  Where the code sorts by SSA name to be   *)
(* deterministic, any choice is allowed here.                              *)
(***************************************************************************)
EXTENDS Integers, FiniteSets

Sets == INSTANCE FiniteSetsExt

RingMinStages == 3

VARIABLES graph,     \* graph[e]: producer and consumer of channel e, two nodes
          headers,   \* nodes whose op is a loop header
          already,   \* channels rule 1 (measurability) put a link on
          rings,     \* its simple cycles, each a set of channels
          depth,     \* depth[e]: stages on channel e, 0 without a link
          pc,        \* "cut": in cycle_sites; "deepen": in ring_depths
          round      \* iterations of ring_depths so far

input == <<graph, headers, already, rings>>
vars  == <<input, depth, pc, round>>

Channel == DOMAIN depth
Edge    == DOMAIN graph    \* the channels between two nodes

Producer(e) == graph[e][1]
Consumer(e) == graph[e][2]

Node == UNION {{ends[1], ends[2]} : ends \in {graph[e] : e \in Edge}}

linked == {e \in Channel : depth[e] > 0}

\* Links go in front of a loop header where there is one.
Preferred(E) == LET atHeader == {e \in E : Consumer(e) \in headers}
                IN  IF atHeader # {} THEN atHeader ELSE E

-----------------------------------------------------------------------------
(* The strongly connected components of the graph the channels of E make,  *)
(* each as the set of its inner channels.                                  *)

\* N and the nodes one channel of E further on.
Onward(E, N) == N \union {Consumer(e) : e \in {x \in E : Producer(x) \in N}}

\* The nodes on the paths from n: a path needs no channel twice.
Reach(E, n) ==
  LET after[k \in 0..Cardinality(E)] == IF k = 0 THEN {n} ELSE Onward(E, after[k-1])
  IN  after[Cardinality(E)]

Components(E) ==
  LET paths     == UNION {{n} \X Reach(E, n) : n \in Node}
      Inside(n) == {e \in E : \A m \in {Producer(e), Consumer(e)} : {<<m, n>>, <<n, m>>} \subseteq paths}
  IN  {Inside(n) : n \in Node}

\* The simple cycles of the channels E: each channel is followed by another, and
\* no fewer of them would do.
Endless(C) == C # {} /\ \A e \in C : \E f \in C : Producer(f) = Consumer(e)

SimpleCycles(E) == LET endless == {C \in SUBSET E : Endless(C)}
                   IN  {C \in endless : \A D \in endless : D \subseteq C => D = C}

-----------------------------------------------------------------------------
(* cycle_sites: cut one channel of every live component, until none is.    *)

Bare == Edge \ linked

\* A component is a cycle when it has a channel inside it.
Live == Components(Bare) \ {{}}

Cut == /\ pc = "cut"
       /\ \E live \in {Live} :
            /\ live # {}
            /\ \E picks \in Sets!Choices({Preferred(E) : E \in live}) :
                 depth' = [e \in Channel |-> IF e \in picks THEN 1 ELSE depth[e]]
       /\ UNCHANGED <<input, pc, round>>

CutDone == /\ pc = "cut"
           /\ Live = {}
           /\ pc' = "deepen"
           /\ UNCHANGED <<input, depth, round>>

-----------------------------------------------------------------------------
(* ring_depths: deepen a link of the lightest cycle, until it is not short. *)

StagesOn(C) == UNION {{e} \X (1..depth[e]) : e \in C}

Stages(C) == Cardinality(StagesOn(C))

\* Mutant: stages are summed over everything the cycle is tangled up with.
LightestByComponent ==
  {C \in rings :
     Stages(UNION {D \in rings : D \intersect C # {}}) =
       Sets!Min({Stages(UNION {D \in rings : D \intersect B # {}}) : B \in rings})}

Lightest == {C \in rings : \A D \in rings : Stages(C) <= Stages(D)}

Short(C) == Stages(C) < RingMinStages

Missing(C) == RingMinStages - Stages(C)

\* "for _ in range(len(edges) + 1)"
Rounds == Cardinality(Edge) + 1

\* Otherwise every cycle has its floor, or one of the two EmitErrors is raised:
\* out of rounds, or a short cycle "has no linked edge to deepen".
Deepenable == /\ round < Rounds
              /\ \E C \in Lightest : Short(C) /\ C \intersect linked # {}

Floored == \A C \in Lightest : ~Short(C)

Deepen == /\ pc = "deepen"
          /\ Deepenable
          /\ \E C \in Lightest : \E e \in Preferred(C \intersect linked) :
               depth' = [depth EXCEPT ![e] = @ + Missing(C)]
          /\ round' = round + 1
          /\ UNCHANGED <<input, pc>>

DeepenStop == /\ pc = "deepen"
              /\ ~Deepenable
              /\ pc' = IF round < Rounds /\ Floored THEN "done" ELSE "refused"
              /\ UNCHANGED <<input, depth, round>>

Next == Cut \/ CutDone \/ Deepen \/ DeepenStop

-----------------------------------------------------------------------------
TypeOK == /\ graph \in [Edge -> Node \X Node]
          /\ Edge \subseteq Channel
          /\ depth \in [Channel -> Nat]
          /\ pc \in {"cut", "deepen", "done", "refused"}
          /\ round \in 0..Rounds

(* The floor holds on every simple cycle of the emitted design, not on the *)
(* whole of a strongly connected component: gcd's main component "carries  *)
(* 34 stages and still contains" a ring with one.  The two passes agree    *)
(* about what a cycle is, and ring_depths settles in fewer rounds than it  *)
(* allows itself: neither error it can raise is ever raised.               *)
EveryRingLive == /\ pc # "refused"
                 /\ pc = "done" => \A C \in rings : Stages(C) >= RingMinStages
=============================================================================
