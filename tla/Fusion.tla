------------------------------- MODULE Fusion -------------------------------
(***************************************************************************)
(* compute_fusion: regions of combinational operations that become one     *)
(* cell with one join and one matched delay, and constants that become     *)
(* literals inside it.  The union-find visits channels in the order of     *)
(* their SSA names, which says nothing of the graph: any order is allowed. *)
(***************************************************************************)
EXTENDS Handshake

CONSTANT MaxFuse   \* most nodes in one region: MAX_FUSE_NODES, 4 in the code

ASSUME FuseAssumption == MaxFuse \in Nat \ {0}

VARIABLES regions,   \* the partition of the fusable nodes so far
          joins      \* edges <<channel, reader>> between fusable nodes not yet
                     \* considered: a channel with two readers is two edges

fusion == <<regions, joins>>

Fusable == {n \in Node : Op(n) \in FusableOps}

\* Operand positions a fusable cell has ports for.
Port(n) == IF Op(n) = "select" THEN 1..3 ELSE 1..2

FusionInit == /\ regions = {{n} : n \in Fusable}
              /\ joins = {e \in Results \X Fusable : /\ Maker(e[1]) \in Fusable
                                                     /\ e[1] \in Fns!Range(In(e[2]))}

RegionOf(n) == CHOOSE R \in regions : n \in R

TooBig(P, Q) == Cardinality(P) + Cardinality(Q) > MaxFuse

Union(e) == /\ e \in joins
            /\ LET P == RegionOf(Maker(e[1]))
                   Q == RegionOf(e[2])
               IN  regions' = IF P = Q \/ TooBig(P, Q) THEN regions
                              ELSE (regions \ {P, Q}) \union {P \union Q}
            /\ joins' = joins \ {e}

-----------------------------------------------------------------------------
(* Constants that become literals.                                         *)

\* Mutant: any constant with a fusable reader, whatever its control waits for.
AbsorbableEager(c) ==
  Op(c) = "constant" /\ \E u \in Uses(Out(c)[1]) : u[1] \in Fusable

\* One reader, fusable, and a control token straight from a source: eliding
\* the channel strands nobody.
Absorbable(c) ==
  /\ Op(c) = "constant"
  /\ Cardinality(Uses(Out(c)[1])) = 1
  /\ \A u \in Uses(Out(c)[1]) : u[1] \in Fusable /\ u[2] \in Port(u[1])
  /\ Maker(In(c)[1]) # NoNode
  /\ Op(Maker(In(c)[1])) = "source"

AbsorbedConstants == IF prog.fuse THEN {c \in Node : Absorbable(c)} ELSE {}

\* const_of: the operands the constants stood for.
Folded == UNION {Uses(Out(c)[1]) : c \in AbsorbedConstants}

AbsorbedNodes == AbsorbedConstants \union {Maker(In(c)[1]) : c \in AbsorbedConstants}

-----------------------------------------------------------------------------
(* Regions, once built.                                                    *)

\* A member whose result some reader outside needs, or nobody reads.
Sinks(R) == {n \in R : Uses(Out(n)[1]) = {} \/ \E u \in Uses(Out(n)[1]) : u[1] \notin R}

FusionRefused == \E R \in regions : \/ \E n \in R : Len(Out(n)) # 1
                                    \/ Cardinality(Sinks(R)) # 1

Anchor(R) == CHOOSE n \in Sinks(R) : TRUE

\* The safety net: a region all of whose operands are literals has nothing to
\* start it, so one of them becomes a channel again.
Unfolded(R) ==
  LET folded == {p \in Folded : p[1] \in R}
      open   == {p \in R \X (1..3) : p[2] \in Port(p[1]) /\ Maker(In(p[1])[p[2]]) \notin R}
  IN  IF open \ folded # {} THEN {} ELSE {CHOOSE p \in folded : TRUE}

ExtInputs(R) ==
  {In(p[1])[p[2]] : p \in {p \in R \X (1..3) :
                             /\ p[2] \in Port(p[1])
                             /\ p \notin Folded \ Unfolded(R)
                             /\ Maker(In(p[1])[p[2]]) \notin R}}

Interior == UNION {R \ {Anchor(R)} : R \in regions}

\* plan.skip and plan.dead_values: nodes not lowered, values without a net.
Skipped == IF prog.fuse THEN AbsorbedNodes \union Interior ELSE {}

DeadValues == {Out(n)[1] : n \in Skipped}
=============================================================================
