-------------------------------- MODULE Slack --------------------------------
(***************************************************************************)
(* What the repository reports about the cycles of a graph: bdc/slack.py's *)
(* verdict that each has storage, reached without naming a single cycle,   *)
(* and bdc/ring_stages.py's heaviest ring, found by a walk that keeps to   *)
(* one start per cycle.  Against the cycles themselves.                    *)
(***************************************************************************)
EXTENDS RingDepths

\* Mutant: round 1's answer, whether each component has a storage node at all.
ResidualRoundOne(S) ==
  {E \in Components(Edge) \ {{}} : UNION {{Producer(e), Consumer(e)} : e \in E} \intersect S = {}}

\* Inner channels of the graph without the nodes in S.
Residual(S) == Components({e \in Edge : {Producer(e), Consumer(e)} \intersect S = {}}) \ {{}}

\* check_cycles, round 2: the graph without its storage nodes is still cyclic.
StorageFree(S) == Residual(S) # {}

-----------------------------------------------------------------------------
(* ring_stages.py: the walk from each start of a component only visits     *)
(* nodes above it; parallel channels count as the deepest of them.         *)

Weight(m, n) == Sets!Max({depth[e] : e \in {c \in Edge : graph[c] = <<m, n>>}})

Arcs == {graph[e] : e \in UNION Components(Edge)}

\* The paths of P and those one arc longer, upwards of start.
Longer(start, P) ==
  P \union {[at |-> x[2][2], seen |-> x[1].seen \union {x[2][2]},
             stages |-> x[1].stages + Weight(x[2][1], x[2][2])] :
              x \in {y \in P \X Arcs : /\ y[2][1] = y[1].at
                                       /\ y[2][2] > start
                                       /\ y[2][2] \notin y[1].seen}}

\* Paths from start upwards, each with the stages on it.
Walks(start) ==
  LET walks[k \in 0..Cardinality(Node)] ==
        IF k = 0 THEN {[at |-> start, seen |-> {start}, stages |-> 0]}
        ELSE Longer(start, walks[k-1])
  IN  walks[Cardinality(Node)]

HeaviestRing ==
  Sets!Max({0} \union UNION {{p.stages + Weight(p.at, start) :
                                p \in {q \in Walks(start) : <<q.at, start>> \in Arcs}} :
                               start \in Node})

-----------------------------------------------------------------------------
(* The cycle check finds a cycle without storage if there is one, also     *)
(* where the cycles of a component share nodes and only some of them have  *)
(* storage; and the ring a kernel's time is divided by is its heaviest.    *)
VerdictExact ==
  \A S \in SUBSET Node :
    StorageFree(S) <=> \E C \in rings : \A e \in C : {Producer(e), Consumer(e)} \intersect S = {}

HeaviestExact == HeaviestRing = Sets!Max({0} \union {Stages(C) : C \in rings})

ReportsExact == /\ pc = "cut" /\ linked = already => VerdictExact
                /\ pc = "done" => HeaviestExact
=============================================================================
