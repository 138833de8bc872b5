---------------------------- MODULE MCRingDepths ----------------------------
(***************************************************************************)
(* Storage placement on every graph of NodeCount nodes and EdgeCount       *)
(* channels, up to renaming, with every choice of headers and of channels  *)
(* rule 1 has linked already.                                              *)
(***************************************************************************)
EXTENDS Slack

CONSTANTS NodeCount, EdgeCount   \* size of the graph

ASSUME GraphAssumption == NodeCount \in Nat \ {0} /\ EdgeCount \in Nat

\* Channels are interchangeable, and so are nodes: rule 1 and the headers take
\* an initial segment, and channels alike for rule 1 come in order.
Code(e) == NodeCount * Producer(e) + Consumer(e)

InOrder == \A e, f \in Edge :
             e < f /\ (e \in already <=> f \in already) => Code(e) <= Code(f)

Init == /\ graph \in [1..EdgeCount -> (1..NodeCount) \X (1..NodeCount)]
        /\ headers \in {Node \intersect 1..n : n \in 0..NodeCount}
        /\ already \in {1..n : n \in 0..EdgeCount}
        /\ InOrder
        /\ rings = SimpleCycles(Edge)
        /\ depth = [e \in Edge |-> IF e \in already THEN 1 ELSE 0]
        /\ pc = "cut"
        /\ round = 0

Spec == Init /\ [][Next]_vars
=============================================================================
