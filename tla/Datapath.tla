------------------------------ MODULE Datapath ------------------------------
(***************************************************************************)
(* What the cells around a word compute: the units of bdc/compute.py, the  *)
(* regions of _emit_fused_module, constants and reshapes of bdc/emit.py.   *)
(* A word of width w is a number in 0..2^w-1.                              *)
(***************************************************************************)
EXTENDS Fusion

Word(w) == 0..(2^w - 1)

\* A word as the set of its bits, for Verilog's & | ^.
Bits(x, w) == {i \in 0..(w - 1) : (x \div 2^i) % 2 = 1}
Number(B)  == Sets!MapThenSumSet(LAMBDA i : 2^i, B)

And(a, b, w) == Number(Bits(a, w) \intersect Bits(b, w))
Or(a, b, w)  == Number(Bits(a, w) \union Bits(b, w))
Xor(a, b, w) == Number((Bits(a, w) \union Bits(b, w)) \ (Bits(a, w) \intersect Bits(b, w)))

Signed(x, w) == IF x >= 2^(w - 1) THEN x - 2^w ELSE x

\* compute.CMPI: one unsigned comparison, greater and equal, answers them all.
Predicates == {"eq", "ne", "ult", "ule", "ugt", "uge", "slt", "sle", "sgt", "sge"}

Template(pred, g, e) == CASE pred = "eq" -> e
                          [] pred = "ne" -> ~e
                          [] pred \in {"ult", "slt"} -> ~(g \/ e)
                          [] pred \in {"ule", "sle"} -> ~g
                          [] pred \in {"ugt", "sgt"} -> g
                          [] pred \in {"uge", "sge"} -> g \/ e

\* Mutant: two's complement is left to compare as it is.
FlipNone(pred, w) == 0

\* The signed predicates compare with the sign bit of both operands flipped.
Flip(pred, w) == IF pred \in {"slt", "sle", "sgt", "sge"} THEN 2^(w - 1) ELSE 0

Compare(pred, w, a, b) == LET xa == Xor(a, Flip(pred, w), w)
                              xb == Xor(b, Flip(pred, w), w)
                          IN  IF Template(pred, xa > xb, xa = xb) THEN 1 ELSE 0

\* emit_unit's data path, and _fused_node_expr's, which repeats it.
Unit(op, pred, w, a, b, s) ==
  CASE op = "addi"  -> (a + b) % 2^w
    [] op = "subi"  -> (a - b) % 2^w
    [] op = "muli"  -> (a * b) % 2^w
    [] op = "andi"  -> And(a, b, w)
    [] op = "ori"   -> Or(a, b, w)
    [] op = "xori"  -> Xor(a, b, w)
    [] op = "shli"  -> (a * 2^b) % 2^w
    [] op = "shrui" -> a \div 2^b
    [] op = "shrsi" -> (Signed(a, w) \div 2^b) % 2^w
    [] op = "cmpi"  -> Compare(pred, w, a, b)
    [] op = "select" -> IF s = 1 THEN a ELSE b

\* Operands by port: a select's condition comes first, as its port s.
PortA(n) == IF Op(n) = "select" THEN 2 ELSE 1
PortB(n) == PortA(n) + 1

\* A constant's bit pattern.
Literal(v, w) == v % 2^w

\* The literal of a fused region is as wide as the operation it is read by.
LiteralWidth(n, p, w) == IF Op(n) = "select" /\ p = 1 THEN 1 ELSE w

\* What region R computes when its external inputs are words: the wires inside
\* it, of which the anchor's is the output.
Computed(R, width, words) ==
  LET made[n \in R] ==
        LET w == width[In(n)[PortA(n)]]
            Ref(p) == LET maker == Maker(In(n)[p])
                      IN  IF <<n, p>> \in Folded \ Unfolded(R)
                          THEN Literal(prog.nodes[maker].val, LiteralWidth(n, p, w))
                          ELSE IF maker \in R THEN made[maker] ELSE words[In(n)[p]]
        IN  Unit(Op(n), prog.nodes[n].pred, w, Ref(PortA(n)), Ref(PortB(n)),
                 IF Op(n) = "select" THEN Ref(1) ELSE 0)
  IN  made[Anchor(R)]

-----------------------------------------------------------------------------
(* What MLIR says of the same operations, on integers.                     *)

Holds(pred, w, a, b) ==
  LET sa == Signed(a, w)
      sb == Signed(b, w)
  IN  CASE pred = "eq" -> a = b    [] pred = "ne" -> a # b
        [] pred = "ult" -> a < b   [] pred = "ule" -> a <= b
        [] pred = "ugt" -> a > b   [] pred = "uge" -> a >= b
        [] pred = "slt" -> sa < sb [] pred = "sle" -> sa <= sb
        [] pred = "sgt" -> sa > sb [] pred = "sge" -> sa >= sb

\* The value of v when those in the domain of words are what it says: every
\* operation for itself, constants and all.
Meant(v, width, words) ==
  LET meant[x \in Value] ==
        IF x \in DOMAIN words THEN words[x]
        ELSE LET n == Maker(x)
                 w == width[x]
                 a == meant[In(n)[1]]
                 b == meant[In(n)[2]]
             IN  CASE Op(n) = "constant" -> prog.nodes[n].val % 2^w
                   [] Op(n) = "cmpi" -> IF Holds(prog.nodes[n].pred, width[In(n)[1]], a, b)
                                        THEN 1 ELSE 0
                   [] Op(n) = "select" -> IF a = 1 THEN b ELSE meant[In(n)[3]]
                   [] OTHER -> Unit(Op(n), "", w, a, b, 0)
  IN  meant[v]
=============================================================================
