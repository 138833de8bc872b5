------------------------------ MODULE Storage ------------------------------
(***************************************************************************)
(* Which channels of a function get a link, how deep, and how much delay   *)
(* its request gets: link_sites (rule 1, measurability; rule 2, cycles),   *)
(* ring_depths, _apply_ring_pad, select_channels and the pads emit_links   *)
(* gives.  Rule 2 and the depths are RingDepths', on this function's graph.*)
(***************************************************************************)
EXTENDS Widths, MemWiring, Datapath

CONSTANT SelectPad   \* BDC_SELECT_PAD, delay elements per stage

ASSUME PadAssumption == SelectPad \in Nat

VARIABLES edges,   \* slack.build_node_graph's
          wires,   \* those of them that are wires: a memory station absorbs some
          rings, depth, ringpc, round   \* as in RingDepths

storage == <<edges, wires, rings, depth, ringpc, round>>

-----------------------------------------------------------------------------
(* Rule 1: in front of every cell that carries a matched delay.            *)

Bearing == {n \in Node : \/ Op(n) \in IF prog.fuse THEN {"mux"} ELSE DelayBearing
                         \/ Op(n) \in {"merge", "control_merge"} /\ Len(In(n)) >= 2}

BearingInputs == (UNION {Fns!Range(In(n)) : n \in Bearing})
                   \union (IF prog.fuse THEN UNION {ExtInputs(R) : R \in regions} ELSE {})

\* Control has no data to be early, a constant's data cannot be late.
MeasurabilitySites == {v \in BearingInputs : /\ ch[v] # Control
                                             /\ ~(Maker(v) # NoNode /\ Op(Maker(v)) = "constant")}

-----------------------------------------------------------------------------
(* Rule 2 and the depths.                                                  *)

Ring == INSTANCE RingDepths WITH
          graph <- wires, headers <- Headers, already <- MeasurabilitySites,
          pc <- ringpc

Whole == INSTANCE RingDepths WITH
           graph <- edges, headers <- Headers, already <- MeasurabilitySites,
           pc <- ringpc

StorageInit == /\ edges = <<>>
               /\ wires = <<>>
               /\ rings = {}
               /\ depth = [v \in Value |-> 0]
               /\ ringpc = "cut"
               /\ round = 0

BuildGraph == /\ edges' = NodeGraph
              /\ wires' = Fns!Restrict(edges', DOMAIN edges' \ AbsorbedByMemory)
              /\ UNCHANGED <<rings, depth, ringpc, round>>

LinkRuleOne == /\ rings' = Ring!SimpleCycles(UNION Ring!Components(DOMAIN wires))
               /\ depth' = [v \in Value |-> IF v \in MeasurabilitySites THEN 1 ELSE 0]
               /\ UNCHANGED <<edges, wires, ringpc, round>>

linked == Ring!linked

\* BDC_RING_PAD: more stages on the links into a loop header from a node that
\* is on a cycle as well, of this loop or another.
RingPad == LET cyclic == UNION {Fns!Range(edges[v]) : v \in UNION Whole!Components(DOMAIN edges)}
               entry  == {v \in linked \intersect DOMAIN edges :
                            /\ prog.ringPad > 0
                            /\ Fns!Range(edges[v]) \subseteq cyclic
                            /\ edges[v][2] \in Headers}
           IN  depth' = [v \in Value |-> depth[v] + IF v \in entry THEN prog.ringPad ELSE 0]

-----------------------------------------------------------------------------
(* Selects: channels whose data is sampled while the request is up.        *)

Selects == {In(n)[1] : n \in {m \in Node : Op(m) \in {"cond_br", "mux", "select"}
                                           /\ In(m) # <<>>}}

\* Mutant: one pad however deep the pipe.
PadOnce(v) == IF v \in DOMAIN prog.pads THEN prog.pads[v]
              ELSE IF v \in Selects THEN SelectPad ELSE 0

\* A pad measured on the route wins; otherwise SelectPad for every stage.
Pad(v) == IF v \in DOMAIN prog.pads THEN prog.pads[v]
          ELSE IF v \in Selects THEN SelectPad * depth[v] ELSE 0
=============================================================================
