------------------------------ MODULE MCCompile ------------------------------
(***************************************************************************)
(* Kernels for Compile: a loop with every shape of body, expression trees  *)
(* for fusion, memories, and functions the emitter must refuse.            *)
(***************************************************************************)
EXTENDS Compile, TLC

CONSTANT LiteralRegions   \* whether operations on nothing but literals occur

\* A node, with its types spelled or not; a constant -1; a comparison.
Ty(op, in, out, sig) ==
  [op |-> op, in |-> in, out |-> out, sig |-> sig, val |-> -1, pred |-> "ult"]
N(op, in, out) == Ty(op, in, out, <<>>)
Cmpi(pred, in, out) == [N("cmpi", in, out) EXCEPT !.pred = pred]

\* A literal v of width 2, fed by source s.
Const(s, v) == <<N("source", <<>>, <<s>>), Ty("constant", <<s>>, <<v>>, <<2>>)>>

\* A piece of a function: its nodes, its arguments and their types, the shapes
\* of its memrefs, the types of the values it makes, what it returns.
None == [x \in {} |-> 0]
Piece(nodes, types) == [nodes |-> nodes, types |-> types, args |-> <<>>,
                        type |-> None, shape |-> None, end |-> <<>>]

-----------------------------------------------------------------------------
(* What a loop does to its variable: from 26 to 32, both two bits wide.    *)

Plain == Piece(<<N("br", <<26>>, <<32>>)>>, None)

Increment == Piece(Const(41, 42) \o <<N("addi", <<26, 42>>, <<32>>)>>,
                   41 :> 0 @@ 42 :> 2)

TwoSteps == Piece(Const(41, 42) \o Const(43, 44) \o
                    <<N("addi", <<26, 42>>, <<45>>), N("xori", <<45, 44>>, <<32>>)>>,
                  41 :> 0 @@ 42 :> 2 @@ 43 :> 0 @@ 44 :> 2 @@ 45 :> 2)

Choice == Piece(Const(41, 42) \o Const(43, 44) \o
                  <<N("fork", <<26>>, <<45, 46>>), N("cmpi", <<45, 42>>, <<47>>),
                    N("select", <<47, 46, 44>>, <<32>>)>>,
                41 :> 0 @@ 42 :> 2 @@ 43 :> 0 @@ 44 :> 2
                  @@ 45 :> 2 @@ 46 :> 2 @@ 47 :> 1)

Reshape == Piece(<<Ty("trunci", <<26>>, <<41>>, <<1>>), Ty("extui", <<41>>, <<32>>, <<2>>)>>,
                 41 :> 1)

\* 43 is the readback, 44 the address the load hands its controller.
Lookup == [Piece(<<Ty("load", <<26, 43>>, <<44, 32>>, <<2, 2, 2, 2>>),
                   Ty("mem_controller", <<5, 3, 44, 4>>, <<43, 45>>, <<2>>)>>,
                 43 :> 2 @@ 44 :> 2 @@ 45 :> 0)
             EXCEPT !.args = <<5, 3, 4>>, !.type = 3 :> 0 @@ 4 :> 0,
                    !.shape = 5 :> <<4, 2>>, !.end = <<45>>]

\* Out of the loop body and in again, through a block with one way in.
OneWay == Piece(<<N("merge", <<26>>, <<32>>)>>, None)

Bodies == {Plain, Increment, TwoSteps, Choice, Reshape, Lookup, OneWay}

\* while (x < literal) x = body(x).  20, 21: the control ring; 22: which way it
\* was entered; 23, 24: the loop variable, which may come back by either operand; 27, 30, 31: whether to go on.
Loop(b, header) ==
  [nodes |-> <<Ty("control_merge", <<2, 20>>, <<21, 22>>, <<0, 1>>),
               N("mux", <<22>> \o header, <<24>>),
               N("fork", <<24>>, <<25, 26>>)>>
             \o Const(29, 28) \o
             <<N("cmpi", <<25, 28>>, <<27>>),
               N("fork", <<27>>, <<30, 31>>)>>
             \o b.nodes \o
             <<N("cond_br", <<30, 32>>, <<23, 33>>),
               N("cond_br", <<31, 21>>, <<20, 34>>),
               N("end", <<33, 34>> \o b.end, <<>>)>>,
   args |-> <<1, 2>> \o b.args,
   type |-> 1 :> 2 @@ 2 :> 0 @@ b.type,
   shape |-> b.shape,
   results |-> <<2, 0>> \o [k \in DOMAIN b.end |-> 0],
   types |-> 20 :> 0 @@ 21 :> 0 @@ 22 :> 1 @@ 23 :> 2 @@ 24 :> 2 @@ 25 :> 2 @@ 26 :> 2
             @@ 27 :> 1 @@ 28 :> 2 @@ 29 :> 0 @@ 30 :> 1 @@ 31 :> 1 @@ 32 :> 2
             @@ 33 :> 2 @@ 34 :> 0 @@ b.types]

-----------------------------------------------------------------------------
(* Expressions of three operations over the leaves 1 to 5, each of them an *)
(* argument or a literal.                                                  *)

Chain == <<N("xori", <<1, 2>>, <<15>>), N("shli", <<15, 3>>, <<16>>),
           N("subi", <<4, 16>>, <<17>>)>>
Both == <<N("addi", <<1, 2>>, <<15>>), N("ori", <<3, 4>>, <<16>>),
          N("muli", <<15, 16>>, <<17>>)>>
Guarded == <<Cmpi("sgt", <<1, 2>>, <<15>>), N("andi", <<3, 4>>, <<16>>),
             N("select", <<15, 16, 5>>, <<17>>)>>

Literals == {{}, {2}, {1, 4}, {2, 3}} \union IF LiteralRegions THEN {{1, 2}, {2, 3, 4}} ELSE {}

Expression(ops, lits) ==
  LET leaves == UNION {Fns!Range(ops[k].in) : k \in 1..3} \ {15, 16}
      args   == Seqs!SetToSortSeq(leaves \ lits, <)
  IN  [nodes |-> ops \o Seqs!FlattenSeq([k \in 1..5 |-> IF k \in lits THEN Const(100 + k, k)
                                                         ELSE <<>>])
                   \o <<N("end", <<17>>, <<>>)>>,
       args |-> args,
       type |-> [v \in leaves \ lits |-> 2],
       shape |-> None,
       results |-> <<2>>,
       types |-> [v \in lits |-> 2] @@ [v \in {100 + k : k \in lits} |-> 0]
                 @@ 15 :> (IF ops[1].op = "cmpi" THEN 1 ELSE 2) @@ 16 :> 2 @@ 17 :> 2]

-----------------------------------------------------------------------------
(* Functions of two arguments, 1 (two bits) and 2 (control).               *)

Function(nodes, types, results) ==
  [nodes |-> nodes, args |-> <<1, 2>>, type |-> 1 :> 2 @@ 2 :> 0, shape |-> None,
   results |-> results, types |-> types]

\* Two tokens into one place and out again, by what brings them together.
Meeting == {
  Function(<<Ty("source", <<>>, <<11>>, <<>>), Ty("constant", <<11>>, <<12>>, <<2>>),
             N("merge", <<1, 12>>, <<13>>),
             N("end", <<13, 2>>, <<>>)>>, 11 :> 0 @@ 12 :> 2 @@ 13 :> 2, <<2, 0>>),
  Function(<<N("lazy_fork", <<1>>, <<11, 12>>), N("source", <<>>, <<14>>),
             Ty("constant", <<14>>, <<15>>, <<2>>), Ty("extsi", <<12>>, <<16>>, <<3>>),
             N("fork", <<15>>, <<17, 18, 19>>), N("mux", <<11, 17, 18, 19>>, <<20>>),
             N("join", <<2, 21>>, <<22>>), N("source", <<>>, <<21>>),
             N("sink", <<16>>, <<>>),
             N("end", <<20, 22>>, <<>>)>>,
           11 :> 2 @@ 12 :> 2 @@ 14 :> 0 @@ 15 :> 2 @@ 16 :> 3 @@ 17 :> 2 @@ 18 :> 2
             @@ 19 :> 2 @@ 20 :> 2 @@ 21 :> 0 @@ 22 :> 0, <<2, 0>>),
  \* a constant that waits for the function to be called
  Function(<<N("fork", <<2>>, <<11, 12>>), Ty("constant", <<11>>, <<13>>, <<2>>),
             N("addi", <<1, 13>>, <<14>>), N("end", <<14, 12>>, <<>>)>>,
           11 :> 0 @@ 12 :> 0 @@ 13 :> 2 @@ 14 :> 2, <<2, 0>>)}

\* Comparisons, of every kind there is and one there is not.
Comparing == {[Function(<<Cmpi(p, <<1, 2>>, <<11>>), N("sink", <<3>>, <<>>),
                         N("end", <<11>>, <<>>)>>, 11 :> 1, <<1>>)
                EXCEPT !.args = <<1, 2, 3>>, !.type = 1 :> 2 @@ 2 :> 2 @@ 3 :> 0] : p \in Predicates \union {"oeq"}}

\* And of memref 5, with one port, wired to the accesses of the group.
Memory(accesses, group, reads, types) ==
  [Function(accesses \o
             <<Ty("mem_controller", <<5, 2>> \o group \o <<3>>, reads \o <<40>>,
                 [k \in DOMAIN reads |-> 2]),
               N("source", <<>>, <<3>>), N("fork", <<1>>, <<41, 42, 43>>),
               N("end", <<40>>, <<>>)>>,
            types @@ 3 :> 0 @@ 40 :> 0 @@ 41 :> 2 @@ 42 :> 2 @@ 43 :> 2, <<0>>)
    EXCEPT !.args = <<1, 5, 2>>, !.shape = 5 :> <<4, 2>>]

Ld(k, a, r) == Ty("load", <<a, r>>, <<k, k + 1>>, <<2, 2, 2, 2>>)
St(k, a, d) == Ty("store", <<a, d>>, <<k, k + 1>>, <<2, 2, 2, 2>>)

Memories == {
  Memory(<<Ld(31, 41, 30), N("sink", <<32>>, <<>>), N("sink", <<42>>, <<>>),
           N("sink", <<43>>, <<>>)>>, <<31>>, <<30>>, 30 :> 2 @@ 31 :> 2 @@ 32 :> 2),
  Memory(<<St(31, 41, 42), N("sink", <<43>>, <<>>)>>, <<31, 32>>, <<>>, 31 :> 2 @@ 32 :> 2),
  Memory(<<St(31, 41, 42), Ld(33, 43, 30), N("sink", <<34>>, <<>>)>>, <<31, 32, 33>>, <<30>>,
         30 :> 2 @@ 31 :> 2 @@ 32 :> 2 @@ 33 :> 2 @@ 34 :> 2),
  Memory(<<Ld(33, 43, 30), St(31, 41, 42), N("sink", <<34>>, <<>>)>>, <<33, 31, 32>>, <<30>>,
         30 :> 2 @@ 31 :> 2 @@ 32 :> 2 @@ 33 :> 2 @@ 34 :> 2),
  Memory(<<Ld(31, 41, 30), Ld(33, 42, 35), N("sink", <<32>>, <<>>), N("sink", <<34>>, <<>>),
           N("sink", <<43>>, <<>>)>>, <<31, 33>>, <<30, 35>>,
         30 :> 2 @@ 31 :> 2 @@ 32 :> 2 @@ 33 :> 2 @@ 34 :> 2 @@ 35 :> 2),
  Memory(<<N("sink", <<41>>, <<>>), N("sink", <<42>>, <<>>)>>, <<43>>, <<>>, None),
  Memory(<<Ld(31, 41, 42), N("sink", <<32>>, <<>>), N("sink", <<43>>, <<>>)>>, <<31>>, <<30>>,
         30 :> 2 @@ 31 :> 2 @@ 32 :> 2)}

\* What the emitter must not accept.
Wrong == {
  \* a control cycle nothing enters, and operands nobody makes
  Function(<<N("br", <<11>>, <<12>>), N("br", <<12>>, <<11>>), N("end", <<1>>, <<>>)>>,
           11 :> 2 @@ 12 :> 2, <<2>>),
  Function(<<N("merge", <<11, 12>>, <<13>>), N("fork", <<13>>, <<11, 12>>),
             N("end", <<1>>, <<>>)>>, 11 :> 2 @@ 12 :> 2 @@ 13 :> 2, <<2>>),
  Function(<<N("addi", <<11, 1>>, <<12>>), N("end", <<12>>, <<>>)>>, 12 :> 2, <<2>>),
  \* cycles of operations, within a region and out of one and in again
  Function(<<N("fork", <<1>>, <<21, 22>>), N("addi", <<21, 12>>, <<11>>),
             N("xori", <<22, 11>>, <<12>>), N("end", <<2>>, <<>>)>>,
           11 :> 2 @@ 12 :> 2 @@ 21 :> 2 @@ 22 :> 2, <<0>>),
  Function(<<N("fork", <<1>>, <<21, 22>>), N("addi", <<21, 14>>, <<11>>),
             N("xori", <<22, 11>>, <<12>>), N("join", <<12>>, <<13>>),
             Ty("constant", <<13>>, <<14>>, <<2>>), N("end", <<2>>, <<>>)>>,
           11 :> 2 @@ 12 :> 2 @@ 13 :> 0 @@ 14 :> 2 @@ 21 :> 2 @@ 22 :> 2, <<0>>),
  \* operations without a rule, or without a lowering
  Function(<<N("lsq", <<1>>, <<11>>), N("end", <<11>>, <<>>)>>, 11 :> 2, <<2>>),
  Function(<<N("buffer", <<1>>, <<11>>), N("end", <<11>>, <<>>)>>, 11 :> 2, <<2>>),
  \* widths that do not fit
  Function(<<Ty("extui", <<1>>, <<11>>, <<2>>), N("end", <<11>>, <<>>)>>, 11 :> 2, <<2>>),
  Function(<<N("fork", <<2>>, <<11, 12, 13>>),
             Ty("control_merge", <<11, 12, 13>>, <<14, 15>>, <<0, 1>>),
             N("sink", <<1>>, <<>>), N("end", <<14, 15>>, <<>>)>>,
           11 :> 0 @@ 12 :> 0 @@ 13 :> 0 @@ 14 :> 0 @@ 15 :> 1, <<0, 1>>),
  Function(<<N("sink", <<2>>, <<>>), N("end", <<1>>, <<>>)>>, None, <<2, 0>>),
  [Function(<<N("sink", <<2>>, <<>>), N("end", <<1>>, <<>>)>>, None, <<2>>)
     EXCEPT !.args = <<5, 1, 2>>, !.shape = 5 :> <<2048, 2>>],
  \* values read twice: inside a region and out of it, a literal, an operand
  Function(<<N("fork", <<1>>, <<21, 22, 23>>), N("xori", <<21, 22>>, <<11>>),
             N("addi", <<11, 23>>, <<12>>), N("sink", <<11>>, <<>>),
             N("end", <<12>>, <<>>)>>,
           11 :> 2 @@ 12 :> 2 @@ 21 :> 2 @@ 22 :> 2 @@ 23 :> 2, <<2>>),
  Function(Const(11, 12) \o <<N("xori", <<1, 12>>, <<13>>), N("sink", <<12>>, <<>>),
                                N("end", <<13>>, <<>>)>>, 11 :> 0 @@ 12 :> 2 @@ 13 :> 2, <<2>>)}

-----------------------------------------------------------------------------
Kernels == IF LiteralRegions THEN {Expression(ops, lits) : ops \in {Chain, Both}, lits \in Literals}
           ELSE {Loop(b, <<1, 23>>) : b \in Bodies} \union {Loop(Increment, <<23, 1>>)} \union Meeting \union Comparing \union Memories \union Wrong
                  \union {Expression(ops, lits) : ops \in {Chain, Both, Guarded}, lits \in Literals}

\* As compiled and with the nodes in the opposite order; with and without
\* fusion; with rings padded, and with a select's pad measured on the route.
Options == {[fuse |-> f, ringPad |-> 0, pads |-> None] : f \in BOOLEAN}
             \union {[fuse |-> TRUE, ringPad |-> 2, pads |-> m] : m \in {None, 22 :> 1}}

Init == /\ prog \in {p @@ o : p \in Kernels, o \in Options}
                    \union {[p EXCEPT !.nodes = Seqs!Reverse(@)] @@ o :
                               p \in Kernels, o \in {i \in Options : i.ringPad = 0}}
        /\ WellTyped   \* every kernel above is
        /\ StagesInit

Spec == Init /\ [][Next]_vars

\* The emitter runs on: __init__ does not stop in the middle of the fixpoint.
FairSpec == Spec /\ WF_vars(WidthStep \/ WidthsEnd)

(* The width fixpoint comes to an end on every graph, with widths for all  *)
(* or a refusal: a node that is put off is not put off for ever.           *)
Answers == at = "widths" ~> at # "widths" \/ state = "refused"
=============================================================================
