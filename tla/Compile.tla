------------------------------ MODULE Compile ------------------------------
(***************************************************************************)
(* bdc/emit.py from end to end: one handshake function is taken through    *)
(* Emitter.__init__ (widths, memory wiring, fusion, link sites, ring       *)
(* depths, ring pad) and emit_func (lowering, links, probes), and becomes  *)
(* a netlist or a refusal.  Each stage is the module of its name; here is  *)
(* their order, what one hands to the next, and what must be true of the   *)
(* circuit that comes out whatever the stages did to each other.           *)
(***************************************************************************)
EXTENDS Netlist

VARIABLES at,     \* the stage that is running, or the last one that ran
          state,  \* "running", "done" or "refused"
          probe   \* what --probe taps: at most one <<value, producer's side?>>

vars == <<prog, widths, fusion, storage, netlist, at, state, probe>>

Running(stage) == state = "running" /\ at = stage

\* On to the next stage, unless this one raises an EmitError.
Pass(refused, next) == IF refused THEN at' = at /\ state' = "refused"
                                  ELSE at' = next /\ UNCHANGED state

StagesInit == /\ WidthsInit
              /\ FusionInit
              /\ StorageInit
              /\ NetlistInit
              /\ at = "arguments"
              /\ state = "running"
              /\ probe = {}

\* A memref argument is parsed for its shape before anything else.
Arguments == /\ Running("arguments")
             /\ Pass(\E v \in Memref : TooDeep(v), "widths")
             /\ UNCHANGED <<prog, widths, fusion, storage, netlist, probe>>

WidthStep == /\ Running("widths")
             /\ Resolve \/ Defer \/ Sweep
             /\ UNCHANGED <<prog, fusion, storage, netlist, at, state, probe>>

WidthsEnd == /\ Running("widths")
             /\ WidthsDone \/ WidthsRefused
             /\ Pass(WidthsRefused, "memory")
             /\ UNCHANGED <<prog, widths, fusion, storage, netlist, probe>>

ResolveMemory == /\ Running("memory")
                 /\ IF MemRefused THEN UNCHANGED storage ELSE BuildGraph
                 /\ Pass(MemRefused, IF prog.fuse THEN "fusion" ELSE "links")
                 /\ UNCHANGED <<prog, widths, fusion, netlist, probe>>

Fuse == /\ Running("fusion")
        /\ \E e \in joins : Union(e)
        /\ UNCHANGED <<prog, widths, storage, netlist, at, state, probe>>

FuseEnd == /\ Running("fusion")
           /\ joins = {}
           /\ Pass(FusionRefused, "links")
           /\ UNCHANGED <<prog, widths, fusion, storage, netlist, probe>>

LinkSites == /\ Running("links")
             /\ LinkRuleOne
             /\ Pass(FALSE, "cut")
             /\ UNCHANGED <<prog, widths, fusion, netlist, probe>>

CutCycle == /\ Running("cut")
            /\ UNCHANGED <<prog, widths, fusion, edges, netlist, at, state, probe>>
            /\ Ring!Cut

\* "check it rather than trust the argument that it does"
CutEnd == /\ Running("cut")
          /\ UNCHANGED <<prog, widths, fusion, edges, netlist, probe>>
          /\ Ring!CutDone
          /\ Pass(Leaked # {}, "depths")

DeepenLink == /\ Running("depths")
              /\ UNCHANGED <<prog, widths, fusion, edges, netlist, at, state, probe>>
              /\ Ring!Deepen

DepthsEnd == /\ Running("depths")
             /\ UNCHANGED <<prog, widths, fusion, edges, netlist, probe>>
             /\ Ring!DeepenStop
             /\ Pass(ringpc' = "refused", "pad")

PadRings == /\ Running("pad")
            /\ RingPad
            /\ Pass(FALSE, "lower")
            /\ UNCHANGED <<prog, widths, fusion, edges, wires, rings, ringpc, round, netlist, probe>>

LowerNodes == /\ Running("lower")
              /\ IF LoweringRefused THEN UNCHANGED netlist ELSE Lower
              /\ Pass(LoweringRefused, "ports")
              /\ UNCHANGED <<prog, widths, fusion, storage, probe>>

Taps == {{}} \union {{t} : t \in Value \X BOOLEAN}

Ports == /\ Running("ports")
         /\ probe' \in Taps
         /\ state' = IF \E t \in probe' : ProbeRefused(t[1], t[2]) THEN "refused" ELSE "done"
         /\ UNCHANGED <<prog, widths, fusion, storage, netlist, at>>

Next == \/ Arguments \/ WidthStep \/ WidthsEnd \/ ResolveMemory
        \/ Fuse \/ FuseEnd
        \/ LinkSites \/ CutCycle \/ CutEnd \/ DeepenLink \/ DepthsEnd
        \/ PadRings \/ LowerNodes \/ Ports

-----------------------------------------------------------------------------
(* What MLIR's verifier has checked of any function the parser reads: it   *)
(* is in SSA form, every operation has the operands and results it must    *)
(* have, of types that agree, and memory accesses go to a controller.      *)

TypeOf(v) == IF v \in DOMAIN prog.type THEN prog.type[v] ELSE prog.types[v]

SSA == /\ DOMAIN prog.type \intersect Results = {}
       /\ \A n, m \in Node : \A k \in DOMAIN Out(n), l \in DOMAIN Out(m) :
            Out(n)[k] = Out(m)[l] => n = m /\ k = l

Syntax ==
  /\ prog.nodes \in Seq([op : STRING, in : Seq(Nat), out : Seq(Nat), sig : Seq(Nat),
                         val : Int, pred : STRING])
  /\ DOMAIN prog.type \subseteq Nat
  /\ prog.args \in Seq(Memref \union DOMAIN prog.type)
  /\ prog.results \in Seq(Nat)
  /\ \A v \in Value : TypeOf(v) \in Nat
  /\ prog.fuse \in BOOLEAN /\ prog.ringPad \in Int

\* Operand k has the type of every result; the results have types ts.
Alike(n, k) == /\ k \in DOMAIN In(n)
               /\ \A r \in DOMAIN Out(n) : In(n)[k] \in Value => TypeOf(In(n)[k]) = TypeOf(Out(n)[r])
Makes(n, ts) == Len(Out(n)) = Len(ts) /\ \A r \in DOMAIN ts : TypeOf(Out(n)[r]) = ts[r]

Typed(n) ==
  LET op == Op(n)
  IN  CASE op \in {"fork", "lazy_fork"} -> Alike(n, 1)
        [] op = "select" -> Len(In(n)) = 3 /\ Len(Out(n)) = 1 /\ Alike(n, 2) /\ Alike(n, 3)
        [] op = "cmpi" -> Len(In(n)) = 2 /\ Makes(n, <<1>>)
        [] op \in FusableOps \ {"cmpi", "select"} ->
             Len(In(n)) = 2 /\ Len(Out(n)) = 1 /\ Alike(n, 1) /\ Alike(n, 2)
        [] op \in {"br", "buffer"} -> Len(Out(n)) = 1 /\ Alike(n, 1)
        [] op = "merge" -> Len(Out(n)) = 1 /\ In(n) # <<>> /\ \A k \in DOMAIN In(n) : Alike(n, k)
        [] op = "mux" -> Len(Out(n)) = 1 /\ In(n) # <<>> /\ \A k \in DOMAIN In(n) \ {1} : Alike(n, k)
        [] op = "cond_br" -> Len(Out(n)) = 2 /\ Alike(n, 2)
        [] op = "source" -> In(n) = <<>> /\ Makes(n, <<Control>>)
        [] op = "join" -> Makes(n, <<Control>>)
        [] op \in {"constant", "trunci", "extui", "extsi"} ->
             Len(In(n)) = 1 /\ Sig(n) # <<>> /\ Makes(n, <<Seqs!Last(Sig(n))>>)
        [] op = "control_merge" -> Makes(n, Sig(n))
        [] op \in {"load", "store"} ->
             /\ Len(Sig(n)) = 4 /\ Makes(n, <<Sig(n)[3], Sig(n)[4]>>)
             /\ \A r \in {1} \union IF op = "store" THEN {2} ELSE {} :
                  \A u \in Uses(Out(n)[r]) : Op(u[1]) = "mem_controller"
        [] op = "mem_controller" -> Makes(n, Append(Sig(n), Control))
        [] op \in {"sink", "end"} -> Out(n) = <<>>
        [] OTHER -> TRUE

WellTyped == Syntax /\ SSA /\ \A n \in Node : NoRule(n) \/ Typed(n)

-----------------------------------------------------------------------------
TypeOK == /\ ch \in [Value \union Operand -> {Unknown} \union Nat]
          /\ depth \in [Value -> Nat]
          /\ UNION regions = Fusable
          /\ state \in {"running", "done", "refused"}
          /\ probe \in Taps

(* The widths are those the front end typed the values with, prog.types,   *)
(* which the emitter never sees: whatever order the nodes come in, and     *)
(* whichever operand of a loop header was known first.                     *)
WidthsSettled == at \notin {"arguments", "widths"} =>
                   \A v \in Results : ch[v] = prog.types[v]

\* Where an operation takes its width from, if it does not spell it.
Carriers(n) == CASE Op(n) = "merge" -> Fns!Range(In(n))
                 [] Op(n) = "mux" -> Fns!Range(Tail(In(n)))
                 [] Op(n) \in {"select", "cond_br"} -> {In(n)[2]}
                 [] OTHER -> {In(n)[1]}

Spelled(n) == \/ In(n) = <<>>
              \/ Op(n) \in {"constant", "cmpi", "trunci", "extui", "extsi", "join",
                            "control_merge", "load", "store", "mem_controller"}

\* The widths found are all that can be had, in any order of asking, and they
\* are not all: they include the arguments', no operation has another to give,
\* and a result is without.
Underivable ==
  LET found == {v \in Value : ch[v] # Unknown}
  IN  /\ DOMAIN prog.type \subseteq found
      /\ \A n \in Node : Spelled(n) \/ Carriers(n) \intersect found # {}
                           => Fns!Range(Out(n)) \subseteq found
      /\ ~(Results \subseteq found)

\* A cycle that no loop header closes: values each of which is read, not by a
\* header, to make another.
Unheaded ==
  \E V \in SUBSET Results :
    /\ V # {}
    /\ \A v \in V : \E u \in Uses(v) : /\ u[1] \notin Headers
                                       /\ Fns!Range(Out(u[1])) \intersect V # {}

\* Channels each of which leads to another and is led to by one.
Circular(V) ==
  \A v \in V : /\ \E u \in Uses(v) : Fns!Range(Out(u[1])) \intersect V # {}
               /\ \E w \in V : \E u \in Uses(w) : v \in Fns!Range(Out(u[1]))

\* Data on a ring that has no link of rule 1.
BareData == \E V \in SUBSET (Results \ (MeasurabilitySites \union AbsorbedByMemory)) :
              Circular(V) /\ \E v \in V : ch[v] # Control

(* A refusal has a cause in the program.  Widths are only given up on when *)
(* they cannot be had.  The regions of fusion with no result or with two,  *)
(* and storage on a channel that fusion or a memory took away, which       *)
(* __init__ checks for "rather than trust the argument", are only met when *)
(* a value has no single reader or a cycle has no header ("a cycle needs a *)
(* mux/control_merge to close").  A short ring with no link to deepen, or  *)
(* out of rounds, is never met.                                            *)
RefusedForCause ==
  state = "refused" =>
    /\ at # "depths"
    /\ at = "widths" => Underivable \/ \E n \in Node : NoRule(n)
    /\ at \in {"fusion", "cut"} => TokenViolations # {} \/ Unheaded

Emitting == Running("ports")

\* No two cells, links or ports drive one net, nor do two acknowledge it.
Unshared ==
  \A b \in Declared : /\ \A x, y \in DrivenBy(b) : x = y
                      /\ \A x, y \in TakenBy(b) : x = y

NetsUnshared == Emitting /\ TokenViolations = {} => Unshared

(* What the front end makes of a memory, and of a function: an operand is  *)
(* a value of the function or the memref of a controller; a load gives its *)
(* controller the address, and counts come with stores only; and no region *)
(* is made of literals alone.                                              *)
Closed == /\ Memref \intersect Value = {}
          /\ \A n \in Node : \A k \in DOMAIN In(n) :
               In(n)[k] \in Value \/ (Op(n) = "mem_controller" /\ k = 1)

Grouped(m) ==
  \A v \in Fns!Range(Group(m)) :
    /\ Op(Maker(v)) = "load" => v = Out(Maker(v))[1]
    /\ Op(Maker(v)) = "constant" => Stores(m) # {}

Ordinary == /\ Closed
            /\ \A m \in Controller : Grouped(m)
            /\ prog.fuse => \A R \in regions : Unfolded(R) = {}

NetsWhole == Emitting /\ TokenViolations = {} =>
               /\ Referenced \subseteq Declared
               /\ \A b \in Declared : DrivenBy(b) # {} /\ TakenBy(b) # {}

SpineSound ==
  Emitting => /\ Cardinality(UNION SpinePins) =
                   Len(RealArgs) + Before(Len(RealArgs)) + Len(prog.results)
              /\ UNION SpinePins \subseteq 0..(SpineWidth - 1)

ProbeSound ==
  state = "done" => \A t \in probe : (IF t[2] THEN Up(t[1]) ELSE Down(t[1])) \in Declared

(* Every net a cell, a link or a port mentions is declared, one of them    *)
(* drives its request and one its acknowledge: a net mentioned and not     *)
(* declared would be an implicit one-bit wire, an unmentioned one is a     *)
(* token lost or never consumed.  A probe taps such a net, and no two pins *)
(* of the kernel sit on one bit of the spine that drives it in the top.    *)
NetlistSound == NetsUnshared /\ NetsWhole /\ SpineSound /\ ProbeSound

\* Every assignment of words to some values.
Valuations(V) == {f \in [V -> UNION {Word(ch[v]) : v \in V}] : \A v \in V : f[v] \in Word(ch[v])}

(* Whatever words come in, a cell hands on what MLIR says of the operation *)
(* it stands for, and a fused cell what it says of all of its operations   *)
(* one after the other: literals, signs and selects included.              *)
CellsCompute ==
  Emitting /\ TokenViolations = {} =>
    \A R \in regions :
      \A words \in Valuations(ExtInputs(R)) :
        Computed(R, ch, words) = Meant(Out(Anchor(R))[1], ch, words)

\* Cells a walk along wires and links gets to from cell n, with the stages it
\* passed, as long as these are under the floor.
Walk(n) ==
  LET Onward(reached) ==
        reached \union {<<joined[w[2]][2], w[1][2] + depth[w[2]]>> :
                           w \in {x \in reached \X DOMAIN joined :
                                    /\ joined[x[2]][1] = x[1][1]
                                    /\ x[1][2] + depth[x[2]] < Ring!RingMinStages}}
  IN  Grown(Onward, {<<n, 0>>}, Len(prog.nodes))

NoShortRing ==
  Emitting /\ TokenViolations = {} =>
    \A v \in DOMAIN joined : \A w \in Walk(joined[v][2]) :
      w[1] = joined[v][1] => w[2] + depth[v] >= Ring!RingMinStages

\* The operand whose data a cell hands on with no delay of its own.
Through(v) == LET n == Maker(v)
              IN  CASE n = NoNode -> {}
                    [] Op(n) \in {"fork", "lazy_fork", "br", "trunci", "extui", "extsi"}
                         -> {In(n)[1]}
                    [] Op(n) = "cond_br" -> {In(n)[2]}
                    [] Op(n) \in {"merge", "control_merge"} ->
                         IF Len(In(n)) = 1 /\ v = Out(n)[1] THEN {In(n)[1]} ELSE {}
                    [] OTHER -> {}

\* Values whose data may come after their request, at the consumer: a link is
\* early by a latch arc a stage unless padded, and nothing on the way makes up
\* for it but a matched delay.
Trailing ==
  LET early == {v \in linked : /\ ch[v] # Control
                               /\ v \notin DOMAIN prog.pads
                               /\ Pad(v) < SelectPad * depth[v]}
      Delay(V) == V \union {v \in Results : Through(v) \intersect V # {}}
  IN  Grown(Delay, early, Len(prog.nodes))

SelectsSettled ==
  Emitting /\ TokenViolations = {} => Selects \intersect Trailing = {} \/ BareData

(* No ring of the netlist is under the floor: what link_sites and          *)
(* ring_depths counted on the graph of operations still holds once fusion  *)
(* has made one cell of many and memory wiring has taken channels away.    *)
(* And no cell samples a select that may still be on its way: not through  *)
(* the pads of a pipe deepened for its ring, and not through a fork behind *)
(* a link that is no select itself, as long as the links rule 2 adds are   *)
(* on control channels, where emit_links says it puts them.                *)
StorageSound == NoShortRing /\ SelectsSettled
=============================================================================
