----------------------------- MODULE Handshake -----------------------------
(***************************************************************************)
(* A handshake function as bdc/hs/parse.py hands it to the back end: a     *)
(* sequence of nodes, each an operation with operands and results that are *)
(* SSA values.  A value is a natural number.  MLIR does not order nodes: a *)
(* node may read a value a later one produces.                             *)
(*                                                                         *)
(*   prog.args     the arguments, values, in order                         *)
(*   prog.type     the type of each argument that is a channel             *)
(*   prog.shape    <<elements, data width>> of each that is a memref       *)
(*   prog.results  types of the function's results                         *)
(*   prog.nodes    [op, in, out, sig, val, pred]: sig the types its type   *)
(*                 clause spells, val a constant's literal, pred a cmpi's  *)
(*                 predicate                                               *)
(***************************************************************************)
EXTENDS Integers, Sequences, FiniteSets, Closures

Fns == INSTANCE Functions
Sets == INSTANCE FiniteSetsExt
Seqs == INSTANCE SequencesExt

VARIABLE prog

\* A channel's type is its width; a control channel has no data at all, and a
\* width the fixpoint has yet to find is Unknown.
Control == 0
Unknown == -1

Node   == DOMAIN prog.nodes
Op(n)  == prog.nodes[n].op
In(n)  == prog.nodes[n].in
Out(n) == prog.nodes[n].out
Sig(n) == prog.nodes[n].sig

Memref == DOMAIN prog.shape

Results == UNION {Fns!Range(Out(n)) : n \in Node}
Value   == (DOMAIN prog.type) \union Results
Operand == UNION {Fns!Range(In(n)) : n \in Node}

\* Who makes a value, and who reads it, by node and operand position.
NoNode == 0
Maker(v) == IF v \in Results THEN CHOOSE n \in Node : v \in Fns!Range(Out(n)) ELSE NoNode
Uses(v)  == UNION {{n} \X {k \in DOMAIN In(n) : In(n)[k] = v} : n \in Node}

DelayBearing == {"addi", "subi", "muli", "cmpi", "andi", "ori", "xori",
                 "shli", "shrsi", "shrui", "select", "mux"}

FusableOps == DelayBearing \ {"mux"}

Headers == {n \in Node : Op(n) \in {"control_merge", "merge", "mux"}}

\* Edges of the node graph, by the value they carry.  Materialized, a value has
\* one reader, so a value is an edge.
NodeGraph == [v \in {r \in Results : Uses(r) # {}} |->
                <<Maker(v), (CHOOSE u \in Uses(v) : TRUE)[1]>>]

\* The k-th of some numbers, the least first.
Nth(S, k) == CHOOSE j \in S : Cardinality({i \in S : i < j}) = k - 1

\* What slack.check_tokens reports: values with no reader or several.
TokenViolations == {v \in Value \union Memref : Cardinality(Uses(v)) # 1}
=============================================================================
