--------------------------- MODULE CompileProofs ---------------------------
(***************************************************************************)
(* For every well-typed function: the width fixpoint finds the widths of   *)
(* the program, the emitter refuses for a cause or not at all, no ring of  *)
(* the netlist is short, and no select is sampled before its data is there.*)
(***************************************************************************)
EXTENDS MCCompile, FiniteSetTheorems, SequenceTheorems, WellFoundedInduction, TLAPS

\* cycle_sites and ring_depths, with what is proved of them, on this function.
RP == INSTANCE RingDepthsProofs WITH
        graph <- wires, headers <- Headers, already <- MeasurabilitySites,
        pc <- ringpc, NodeCount <- 1, EdgeCount <- 1

-----------------------------------------------------------------------------
(* Nodes and values of a function.                                         *)

NodeRecord == [op : STRING, in : Seq(Nat), out : Seq(Nat), sig : Seq(Nat),
               val : Int, pred : STRING]

LEMMA NodeShape ==
  ASSUME Syntax, NEW n \in Node
  PROVE  /\ In(n) \in Seq(Nat) /\ Out(n) \in Seq(Nat) /\ Sig(n) \in Seq(Nat)
         /\ DOMAIN In(n) = 1..Len(In(n)) /\ DOMAIN Out(n) = 1..Len(Out(n))
         /\ DOMAIN Sig(n) = 1..Len(Sig(n))
         /\ Len(In(n)) \in Nat /\ Len(Out(n)) \in Nat /\ Len(Sig(n)) \in Nat
<1>1. prog.nodes[n] \in NodeRecord
  <2>1. prog.nodes \in Seq(NodeRecord)
    BY DEF Syntax, NodeRecord
  <2> QED BY <2>1 DEF Node
<1>2. In(n) \in Seq(Nat) /\ Out(n) \in Seq(Nat) /\ Sig(n) \in Seq(Nat)
  BY <1>1 DEF NodeRecord, In, Out, Sig
<1> QED BY <1>2

LEMMA ResultOf ==
  ASSUME Syntax, NEW n \in Node, NEW k \in DOMAIN Out(n)
  PROVE  /\ Out(n)[k] \in Results /\ Out(n)[k] \in Value /\ Out(n)[k] \in Nat
         /\ TypeOf(Out(n)[k]) \in Nat
<1>1. Out(n)[k] \in Fns!Range(Out(n))
  BY DEF Fns!Range
<1>2. Out(n)[k] \in Results
  BY <1>1 DEF Results
<1> QED BY <1>2, NodeShape DEF Value, Syntax

LEMMA OperandOf ==
  ASSUME NEW n \in Node, NEW k \in DOMAIN In(n)
  PROVE  In(n)[k] \in Operand
BY DEF Fns!Range, Operand

-----------------------------------------------------------------------------
(* The rules of the fixpoint.                                              *)

\* What ch holds: a width that is known is the program's.
Sound == /\ ch \in [Value \union Operand -> Nat \union {Unknown}]
         /\ \A v \in Value : ch[v] # Unknown => ch[v] = TypeOf(v)
         /\ \A v \in Operand \ Value : ch[v] = Unknown
         /\ \A v \in DOMAIN prog.type : ch[v] = prog.type[v]

\* Whether an operation's width can be had from its operands' now.
Derives(n) == Spelled(n) \/ \E v \in Carriers(n) : ch[v] # Unknown

LEMMA LeastNat ==
  ASSUME NEW T \in SUBSET Nat, T # {}
  PROVE  \E x \in T : \A y \in T : x <= y
<1>1. IsWellFoundedOn(OpToRel(<, Nat), Nat)
  BY NatLessThanWellFounded
<1>2. \E x \in T : \A y \in T : <<y, x>> \notin OpToRel(<, Nat)
  BY <1>1, WFMin
<1>3. \A x, y \in Nat : <<y, x>> \notin OpToRel(<, Nat) => x <= y
  BY DEF OpToRel
<1> QED BY <1>2, <1>3

LEMMA KnownIs ==
  ASSUME NEW ts, DOMAIN ts \subseteq Nat
  PROVE  \/ Known(ts) = Unknown /\ \A k \in DOMAIN ts : ts[k] = Unknown
         \/ \E k \in DOMAIN ts : Known(ts) = ts[k] /\ ts[k] # Unknown
<1> DEFINE known == {k \in DOMAIN ts : ts[k] # Unknown}
<1>1. CASE known = {}
  BY <1>1 DEF Known
<1>2. CASE known # {}
  <2>1. \E x \in known : \A y \in known : x <= y
    <3>1. known \in SUBSET Nat
      OBVIOUS
    <3> HIDE DEF known
    <3> QED BY <1>2, <3>1, LeastNat
  <2>2. Sets!Min(known) \in known
    BY <2>1 DEF Sets!Min
  <2>3. Known(ts) = ts[Sets!Min(known)]
    BY <1>2 DEF Known
  <2> QED BY <2>2, <2>3
<1> QED BY <1>1, <1>2

LEMMA CarriedWidth ==
  ASSUME Sound, NEW n \in Node, NEW k, Alike(n, k), NEW r \in DOMAIN Out(n)
  PROVE  /\ Given(n)[k] = ch[In(n)[k]]
         /\ ch[In(n)[k]] # Unknown => ch[In(n)[k]] = TypeOf(Out(n)[r])
<1>1. k \in DOMAIN In(n)
  BY DEF Alike
<1>2. In(n)[k] \in Operand
  BY <1>1, OperandOf
<1>3. Given(n)[k] = ch[In(n)[k]]
  BY <1>1 DEF Given
<1>4. CASE In(n)[k] \in Value
  BY <1>3, <1>4 DEF Sound, Alike
<1>5. CASE In(n)[k] \notin Value
  BY <1>2, <1>3, <1>5 DEF Sound
<1> QED BY <1>4, <1>5

\* Results that are all as wide as operand k.
LEMMA OneCarrier ==
  ASSUME Sound, Syntax, NEW n \in Node, NEW k, Alike(n, k), Carriers(n) = {In(n)[k]}, ~Spelled(n)
  PROVE  \A r \in DOMAIN Out(n) :
           Given(n)[k] = IF Derives(n) THEN TypeOf(Out(n)[r]) ELSE Unknown
<1>1. Derives(n) <=> ch[In(n)[k]] # Unknown
  BY DEF Derives
<1> QED BY <1>1, CarriedWidth

\* The operations, by what their rule asks for.
AsFirst  == {"fork", "lazy_fork", "br", "buffer"} \union (FusableOps \ {"cmpi", "select"})
AsSecond == {"select", "cond_br"}
AsAny    == {"merge", "mux"}
Asking   == AsFirst \union AsSecond \union AsAny

LEMMA Kinds ==
  ASSUME NEW n \in Node, ~NoRule(n)
  PROVE  \/ Op(n) \in Asking
         \/ Op(n) \in {"source", "join", "constant", "trunci", "extui", "extsi", "cmpi",
                       "control_merge", "load", "store", "mem_controller", "sink", "end"}
BY DEF NoRule, Asking, AsFirst, AsSecond, AsAny, FusableOps, DelayBearing

LEMMA FirstLaw ==
  ASSUME Sound, Syntax, NEW n \in Node, Typed(n), Op(n) \in AsFirst
  PROVE  /\ Len(ResultTypes(n)) = Len(Out(n)) /\ DOMAIN ResultTypes(n) = DOMAIN Out(n)
         /\ \A r \in DOMAIN Out(n) :
              ResultTypes(n)[r] = IF Derives(n) THEN TypeOf(Out(n)[r]) ELSE Unknown
<1>1. Alike(n, 1) /\ (Op(n) \notin {"fork", "lazy_fork"} => Len(Out(n)) = 1)
  BY DEF AsFirst, Typed, FusableOps, DelayBearing
<1>2. 1 \in DOMAIN In(n) /\ In(n) # <<>>
  BY <1>1, NodeShape DEF Alike
<1>3. ~Spelled(n) /\ Carriers(n) = {In(n)[1]}
  BY <1>2 DEF Spelled, Carriers, AsFirst, FusableOps, DelayBearing
<1>4. \A r \in DOMAIN Out(n) :
         Given(n)[1] = IF Derives(n) THEN TypeOf(Out(n)[r]) ELSE Unknown
  BY <1>1, <1>3, OneCarrier
<1>5. CASE Op(n) \in {"fork", "lazy_fork"}
  <2>1. ResultTypes(n) = [r \in DOMAIN Out(n) |-> Given(n)[1]]
    BY <1>5 DEF ResultTypes, FusableOps, DelayBearing
  <2> QED BY <2>1, <1>4, NodeShape
<1>6. CASE Op(n) \notin {"fork", "lazy_fork"}
  <2>1. ResultTypes(n) = <<Given(n)[1]>>
    BY <1>6 DEF ResultTypes, AsFirst, FusableOps, DelayBearing
  <2> QED BY <2>1, <1>1, <1>4, <1>6, NodeShape
<1> QED BY <1>5, <1>6

LEMMA SecondLaw ==
  ASSUME Sound, Syntax, NEW n \in Node, Typed(n), Op(n) \in AsSecond
  PROVE  /\ Len(ResultTypes(n)) = Len(Out(n)) /\ DOMAIN ResultTypes(n) = DOMAIN Out(n)
         /\ \A r \in DOMAIN Out(n) :
              ResultTypes(n)[r] = IF Derives(n) THEN TypeOf(Out(n)[r]) ELSE Unknown
<1>1. Alike(n, 2) /\ Len(Out(n)) = IF Op(n) = "select" THEN 1 ELSE 2
  BY DEF AsSecond, Typed
<1>2. 2 \in DOMAIN In(n) /\ In(n) # <<>>
  BY <1>1, NodeShape DEF Alike
<1>3. ~Spelled(n) /\ Carriers(n) = {In(n)[2]}
  BY <1>2 DEF Spelled, Carriers, AsSecond
<1>4. \A r \in DOMAIN Out(n) :
         Given(n)[2] = IF Derives(n) THEN TypeOf(Out(n)[r]) ELSE Unknown
  BY <1>1, <1>3, OneCarrier
<1>5. CASE Op(n) = "select"
  <2>1. ResultTypes(n) = <<Given(n)[2]>>
    BY <1>5 DEF ResultTypes, FusableOps, DelayBearing
  <2> QED BY <2>1, <1>1, <1>4, <1>5, NodeShape
<1>6. CASE Op(n) = "cond_br"
  <2>1. ResultTypes(n) = <<Given(n)[2], Given(n)[2]>>
    BY <1>6 DEF ResultTypes, FusableOps, DelayBearing
  <2> QED BY <2>1, <1>1, <1>4, <1>6, NodeShape
<1> QED BY <1>5, <1>6 DEF AsSecond

LEMMA AnyLaw ==
  ASSUME Sound, Syntax, NEW n \in Node, Typed(n), Op(n) \in AsAny
  PROVE  /\ Len(ResultTypes(n)) = Len(Out(n)) /\ DOMAIN ResultTypes(n) = DOMAIN Out(n)
         /\ \A r \in DOMAIN Out(n) :
              ResultTypes(n)[r] = IF Derives(n) THEN TypeOf(Out(n)[r]) ELSE Unknown
<1> DEFINE ts == IF Op(n) = "merge" THEN Given(n) ELSE MuxData(Given(n))
           K  == IF Op(n) = "merge" THEN DOMAIN In(n) ELSE DOMAIN In(n) \ {1}
<1>1. Len(Out(n)) = 1 /\ In(n) # <<>> /\ \A k \in K : Alike(n, k)
  BY DEF AsAny, Typed
<1>2. ~Spelled(n) /\ Carriers(n) = {In(n)[k] : k \in K}
  <2>1. CASE Op(n) = "merge"
    BY <2>1, <1>1 DEF Spelled, Carriers, Fns!Range
  <2>2. CASE Op(n) = "mux"
    <3>1. Carriers(n) = Fns!Range(Tail(In(n))) /\ ~Spelled(n)
      BY <2>2, <1>1 DEF Spelled, Carriers
    <3>2. Len(In(n)) > 0 /\ DOMAIN Tail(In(n)) = 1..(Len(In(n)) - 1)
          /\ \A j \in 1..(Len(In(n)) - 1) : Tail(In(n))[j] = In(n)[j + 1]
      BY <1>1, NodeShape
    <3>3. \A k \in K : k - 1 \in 1..(Len(In(n)) - 1) /\ (k - 1) + 1 = k
      BY <2>2, NodeShape
    <3>4. \A j \in 1..(Len(In(n)) - 1) : j + 1 \in K
      BY <2>2, NodeShape
    <3>5. Fns!Range(Tail(In(n))) = {Tail(In(n))[j] : j \in 1..(Len(In(n)) - 1)}
      BY <3>2 DEF Fns!Range
    <3> HIDE DEF K
    <3> QED BY <3>1, <3>2, <3>3, <3>4, <3>5
  <2> QED BY <2>1, <2>2 DEF AsAny
<1>3. /\ DOMAIN ts \subseteq Nat
      /\ \A j \in DOMAIN ts : \E k \in K : ts[j] = Given(n)[k]
      /\ \A k \in K : \E j \in DOMAIN ts : ts[j] = Given(n)[k]
  <2>1. CASE Op(n) = "merge"
    BY <2>1, NodeShape DEF Given
  <2>2. CASE Op(n) = "mux"
    <3>1. Given(n) \in Seq(Nat \union {Unknown}) /\ Len(Given(n)) = Len(In(n)) /\ Len(In(n)) > 0
      <4>1. \A k \in DOMAIN In(n) : ch[In(n)[k]] \in Nat \union {Unknown}
        BY OperandOf DEF Sound
      <4>2. Given(n) = [k \in 1..Len(In(n)) |-> ch[In(n)[k]]]
        BY NodeShape DEF Given
      <4>3. Len(In(n)) \in Nat /\ DOMAIN In(n) = 1..Len(In(n)) /\ Len(In(n)) > 0
        BY <1>1, NodeShape
      <4> QED BY <4>1, <4>2, <4>3
    <3>2. ts = Tail(Given(n))
      BY <2>2 DEF MuxData
    <3>3. DOMAIN ts = 1..(Len(In(n)) - 1)
          /\ \A j \in 1..(Len(In(n)) - 1) : ts[j] = Given(n)[j + 1]
      <4> HIDE DEF ts
      <4> QED BY <3>1, <3>2
    <3>4. \A k \in K : k - 1 \in 1..(Len(In(n)) - 1) /\ (k - 1) + 1 = k
      BY <2>2, NodeShape
    <3>5. \A j \in 1..(Len(In(n)) - 1) : j + 1 \in K
      BY <2>2, NodeShape
    <3>6. Len(In(n)) \in Nat
      BY NodeShape
    <3> HIDE DEF K, ts
    <3>7. ASSUME NEW j \in DOMAIN ts
          PROVE  \E k \in K : ts[j] = Given(n)[k]
      BY <3>3, <3>5
    <3>8. ASSUME NEW k \in K
          PROVE  \E j \in DOMAIN ts : ts[j] = Given(n)[k]
      <4>1. k - 1 \in DOMAIN ts /\ ts[k - 1] = Given(n)[(k - 1) + 1]
        BY <3>3, <3>4
      <4> QED BY <4>1, <3>4
    <3> QED BY <3>3, <3>6, <3>7, <3>8
  <2> QED BY <2>1, <2>2 DEF AsAny
<1>4. ResultTypes(n) = <<Known(ts)>>
  BY DEF ResultTypes, AsAny, FusableOps, DelayBearing
<1>5. Known(ts) = IF Derives(n) THEN TypeOf(Out(n)[1]) ELSE Unknown
  <2>1. 1 \in DOMAIN Out(n)
    BY <1>1, NodeShape
  <2>2. \A k \in K : /\ Given(n)[k] = ch[In(n)[k]]
                     /\ ch[In(n)[k]] # Unknown => ch[In(n)[k]] = TypeOf(Out(n)[1])
    BY <1>1, <2>1, CarriedWidth
  <2>3. Derives(n) <=> \E k \in K : ch[In(n)[k]] # Unknown
    BY <1>2 DEF Derives
  <2> HIDE DEF ts, K
  <2>4. \/ Known(ts) = Unknown /\ \A k \in DOMAIN ts : ts[k] = Unknown
        \/ \E k \in DOMAIN ts : Known(ts) = ts[k] /\ ts[k] # Unknown
    BY <1>3, KnownIs
  <2> QED BY <1>3, <2>2, <2>3, <2>4
<1> HIDE DEF ts
<1> QED BY <1>1, <1>4, <1>5, NodeShape

LEMMA LastTwo ==
  ASSUME NEW s \in Seq(Nat), Len(s) = 4
  PROVE  SubSeq(s, 3, 4) = <<s[3], s[4]>> /\ <<s[3], s[4]>> \in Seq(Nat)
<1>1. \A i \in 1..4 : s[i] \in Nat
  <2>1. \A i \in 1..Len(s) : s[i] \in Nat
    BY ElementOfSeq
  <2> QED BY <2>1
<1>2. s[3] \in Nat /\ s[4] \in Nat
  BY <1>1
<1>3. \A i \in 3..4 : s[i] \in Nat
  BY <1>1
<1>4. /\ SubSeq(s, 3, 4) \in Seq(Nat) /\ Len(SubSeq(s, 3, 4)) = 2
      /\ \A i \in 1..2 : SubSeq(s, 3, 4)[i] = s[3 + i - 1]
  BY <1>3, SubSeqProperties
<1>5. SubSeq(s, 3, 4)[1] = s[3] /\ SubSeq(s, 3, 4)[2] = s[4]
  BY <1>4
<1> DEFINE t == <<s[3], s[4]>>
<1>6. t \in Seq(Nat) /\ Len(t) = 2 /\ t[1] = s[3] /\ t[2] = s[4]
  BY <1>2
<1>7. \A i \in 1..Len(t) : SubSeq(s, 3, 4)[i] = t[i]
  BY <1>5, <1>6
<1>8. SubSeq(s, 3, 4) = t
  <2> HIDE DEF t
  <2> QED BY <1>4, <1>6, <1>7, SeqEqual
<1> QED BY <1>2, <1>6, <1>8

LEMMA SpelledLaw ==
  ASSUME Sound, Syntax, NEW n \in Node, ~NoRule(n), Typed(n), Op(n) \notin Asking
  PROVE  /\ Len(ResultTypes(n)) = Len(Out(n)) /\ DOMAIN ResultTypes(n) = DOMAIN Out(n)
         /\ \A r \in DOMAIN Out(n) :
              ResultTypes(n)[r] = IF Derives(n) THEN TypeOf(Out(n)[r]) ELSE Unknown
<1> DEFINE ts == ResultTypes(n)
<1>1. CASE Op(n) \in {"sink", "end"}
  <2>1. ts = <<>> /\ Out(n) = <<>>
    BY <1>1 DEF ResultTypes, Typed, FusableOps, DelayBearing
  <2>2. ts = Out(n) /\ Len(Out(n)) = 0 /\ DOMAIN Out(n) = 1..Len(Out(n))
    BY <2>1, NodeShape
  <2>3. DOMAIN Out(n) = {}
    BY <2>2
  <2> QED BY <2>2, <2>3
<1>2. CASE Op(n) \notin {"sink", "end"}
  <2>1. Derives(n)
    BY <1>2, Kinds DEF Derives, Spelled, Typed, FusableOps, DelayBearing
  <2>2. Makes(n, ts) /\ ts \in Seq(Nat)
    <3>1. CASE Op(n) \in {"source", "join"}
      BY <3>1 DEF ResultTypes, Typed, FusableOps, DelayBearing, Control
    <3>2. CASE Op(n) \in {"constant", "trunci", "extui", "extsi"}
      <4>1. Sig(n) # <<>> /\ Makes(n, <<Seqs!Last(Sig(n))>>)
        BY <3>2 DEF Typed, FusableOps, DelayBearing
      <4>2. Seqs!Last(Sig(n)) \in Nat
        BY <4>1, NodeShape DEF Seqs!Last
      <4>3. ts = <<Seqs!Last(Sig(n))>>
        BY <3>2 DEF ResultTypes, FusableOps, DelayBearing
      <4> QED BY <4>1, <4>2, <4>3
    <3>3. CASE Op(n) = "cmpi"
      BY <3>3 DEF ResultTypes, Typed, FusableOps, DelayBearing
    <3>4. CASE Op(n) = "control_merge"
      BY <3>4, NodeShape DEF ResultTypes, Typed, FusableOps, DelayBearing
    <3>5. CASE Op(n) \in {"load", "store"}
      <4>1. Len(Sig(n)) = 4 /\ Makes(n, <<Sig(n)[3], Sig(n)[4]>>)
        BY <3>5 DEF Typed, FusableOps, DelayBearing
      <4>2. Sig(n) \in Seq(Nat)
        BY NodeShape
      <4>3. /\ SubSeq(Sig(n), 3, 4) = <<Sig(n)[3], Sig(n)[4]>>
            /\ <<Sig(n)[3], Sig(n)[4]>> \in Seq(Nat)
        BY <4>1, <4>2, LastTwo
      <4>4. ts = SubSeq(Sig(n), 3, 4)
        BY <3>5 DEF ResultTypes, FusableOps, DelayBearing
      <4> QED BY <4>1, <4>3, <4>4
    <3>6. CASE Op(n) = "mem_controller"
      <4>1. ts = Append(Sig(n), Control) /\ Makes(n, Append(Sig(n), Control))
        BY <3>6 DEF ResultTypes, Typed, FusableOps, DelayBearing
      <4> QED BY <4>1, NodeShape DEF Control
    <3> QED BY <3>1, <3>2, <3>3, <3>4, <3>5, <3>6, <1>2, Kinds DEF Asking
  <2>3. DOMAIN ts = 1..Len(ts) /\ DOMAIN Out(n) = 1..Len(Out(n))
    BY <2>2, NodeShape
  <2>4. Len(ts) = Len(Out(n)) /\ \A r \in DOMAIN ts : TypeOf(Out(n)[r]) = ts[r]
    BY <2>2 DEF Makes
  <2>5. DOMAIN ts = DOMAIN Out(n)
    BY <2>3, <2>4
  <2> QED BY <2>1, <2>4, <2>5
<1> QED BY <1>1, <1>2

\* The rule of an operation gives all of its results the program's types, or
\* none of them any, as the width it asks for is known or not.
LEMMA ResultLaw ==
  ASSUME WellTyped, Sound, NEW n \in Node, ~NoRule(n)
  PROVE  /\ Len(ResultTypes(n)) = Len(Out(n)) /\ DOMAIN ResultTypes(n) = DOMAIN Out(n)
         /\ \A r \in DOMAIN Out(n) :
              ResultTypes(n)[r] = IF Derives(n) THEN TypeOf(Out(n)[r]) ELSE Unknown
<1>1. Typed(n) /\ Syntax
  BY DEF WellTyped
<1> QED BY <1>1, FirstLaw, SecondLaw, AnyLaw, SpelledLaw DEF Asking

LEMMA ReadyLaw ==
  ASSUME WellTyped, Sound, NEW n \in Node, ~NoRule(n)
  PROVE  /\ ~Refusing(n)
         /\ Ready(n) <=> Derives(n) \/ Out(n) = <<>>
<1>1. ~Refusing(n)
  BY ResultLaw DEF Refusing
<1>2. Syntax
  BY DEF WellTyped
<1>3. Out(n) = <<>> \/ 1 \in DOMAIN Out(n)
  BY <1>2, NodeShape
<1>4. Ready(n) <=> \A r \in DOMAIN Out(n) : ResultTypes(n)[r] # Unknown
  <2>1. DOMAIN ResultTypes(n) = DOMAIN Out(n)
    BY ResultLaw
  <2> QED BY <2>1 DEF Ready, Fns!Range
<1>5. ASSUME NEW r \in DOMAIN Out(n)
      PROVE  TypeOf(Out(n)[r]) # Unknown
  BY <1>2, ResultOf DEF Unknown
<1>6. CASE Derives(n)
  BY <1>1, <1>4, <1>5, <1>6, ResultLaw
<1>7. CASE ~Derives(n) /\ Out(n) # <<>>
  BY <1>1, <1>3, <1>4, <1>7, ResultLaw
<1>8. CASE Out(n) = <<>>
  <2>1. DOMAIN Out(n) = {}
    <3>1. Len(Out(n)) = 0 /\ DOMAIN Out(n) = 1..Len(Out(n))
      BY <1>2, <1>8, NodeShape
    <3> QED BY <3>1
  <2> QED BY <1>1, <1>4, <1>8, <2>1
<1> QED BY <1>1, <1>6, <1>7, <1>8

-----------------------------------------------------------------------------
(* The fixpoint.                                                           *)

Lists == /\ pending \in Seq(Node) /\ deferred \in Seq(Node)
         /\ swept \in Nat
         /\ \A n \in Fns!Range(deferred) : ~NoRule(n)

\* An operation is still to be asked, or it has a rule and its results their
\* widths.
Waiting == \A n \in Node : \/ n \in Fns!Range(pending) \union Fns!Range(deferred)
                           \/ /\ ~NoRule(n)
                              /\ \A r \in DOMAIN Out(n) : ch[Out(n)[r]] = TypeOf(Out(n)[r])

\* A result with a width comes of an operation whose width can be had.
Derived == \A n \in Node :
             (\E r \in DOMAIN Out(n) : ch[Out(n)[r]] # Unknown) => ~NoRule(n) /\ Derives(n)

\* A sweep that has put off all it saw has changed nothing: what it put off
\* could still not be answered.
Fruitless == /\ Len(pending) + Len(deferred) <= swept
             /\ Len(pending) + Len(deferred) = swept =>
                  \A n \in Fns!Range(deferred) : ~Derives(n) /\ Out(n) # <<>>

WInv == Sound /\ Lists /\ Waiting /\ Derived /\ Fruitless

LEMMA RangeTail ==
  ASSUME NEW S, NEW s \in Seq(S), s # <<>>
  PROVE  /\ Tail(s) \in Seq(S) /\ Len(Tail(s)) = Len(s) - 1 /\ Head(s) \in S
         /\ Fns!Range(s) = {Head(s)} \union Fns!Range(Tail(s))
<1>1. Tail(s) \in Seq(S) /\ Len(Tail(s)) = Len(s) - 1 /\ Head(s) = s[1] /\ Len(s) \in Nat \ {0}
      /\ Head(s) \in S
  BY HeadTailProperties
<1>2. \A i \in 1..(Len(s) - 1) : Tail(s)[i] = s[i + 1]
  BY <1>1, HeadTailProperties
<1>3. ASSUME NEW i \in 1..Len(s), i # 1
      PROVE  i - 1 \in 1..Len(Tail(s)) /\ s[i] = Tail(s)[i - 1]
  <2>1. i - 1 \in 1..(Len(s) - 1) /\ (i - 1) + 1 = i
    BY <1>1, <1>3
  <2> QED BY <2>1, <1>1, <1>2
<1>4. ASSUME NEW i \in 1..Len(Tail(s))
      PROVE  i + 1 \in 1..Len(s) /\ s[i + 1] = Tail(s)[i]
  BY <1>1, <1>2
<1>5. DOMAIN s = 1..Len(s) /\ DOMAIN Tail(s) = 1..Len(Tail(s)) /\ 1 \in 1..Len(s)
  BY <1>1
<1>6. Fns!Range(s) = {s[i] : i \in 1..Len(s)}
      /\ Fns!Range(Tail(s)) = {Tail(s)[i] : i \in 1..Len(Tail(s))}
  BY <1>5 DEF Fns!Range
<1>7. Fns!Range(s) \subseteq {Head(s)} \union Fns!Range(Tail(s))
  <2>1. \A i \in 1..Len(s) : s[i] \in {Head(s)} \union Fns!Range(Tail(s))
    BY <1>1, <1>3, <1>6
  <2> QED BY <2>1, <1>6
<1>8. {Head(s)} \union Fns!Range(Tail(s)) \subseteq Fns!Range(s)
  <2>1. \A i \in 1..Len(Tail(s)) : Tail(s)[i] \in Fns!Range(s)
    BY <1>4, <1>6
  <2>2. Head(s) \in Fns!Range(s)
    BY <1>1, <1>5, <1>6
  <2> QED BY <2>1, <2>2, <1>6
<1> QED BY <1>1, <1>7, <1>8

LEMMA RangeAppend ==
  ASSUME NEW S, NEW s \in Seq(S), NEW x \in S
  PROVE  /\ Append(s, x) \in Seq(S) /\ Len(Append(s, x)) = Len(s) + 1
         /\ Fns!Range(Append(s, x)) = Fns!Range(s) \union {x}
<1>1. /\ Append(s, x) \in Seq(S) /\ Len(Append(s, x)) = Len(s) + 1
      /\ \A i \in 1..Len(s) : Append(s, x)[i] = s[i]
      /\ Append(s, x)[Len(s) + 1] = x /\ Len(s) \in Nat
  BY AppendProperties
<1>2. DOMAIN s = 1..Len(s) /\ DOMAIN Append(s, x) = 1..(Len(s) + 1)
  BY <1>1
<1>3. Fns!Range(s) = {s[i] : i \in 1..Len(s)}
      /\ Fns!Range(Append(s, x)) = {Append(s, x)[i] : i \in 1..(Len(s) + 1)}
  BY <1>2 DEF Fns!Range
<1>4. \A i \in 1..(Len(s) + 1) : i = Len(s) + 1 \/ i \in 1..Len(s)
  BY <1>1
<1>5. \A i \in 1..Len(s) : i \in 1..(Len(s) + 1)
  BY <1>1
<1>6. Len(s) + 1 \in 1..(Len(s) + 1)
  BY <1>1
<1> QED BY <1>1, <1>3, <1>4, <1>5, <1>6

LEMMA RangeEmpty == Fns!Range(<<>>) = {} /\ Len(<<>>) = 0
<1>1. Len(<<>>) = 0 /\ DOMAIN <<>> = 1..Len(<<>>)
  OBVIOUS
<1>2. DOMAIN <<>> = {}
  BY <1>1
<1> QED BY <1>1, <1>2 DEF Fns!Range

-----------------------------------------------------------------------------
(* The function stays as it is.                                            *)

LEMMA ProgFrame ==
  ASSUME prog' = prog
  PROVE  /\ Node' = Node /\ Results' = Results /\ Value' = Value /\ Operand' = Operand
         /\ \A n : /\ Op(n)' = Op(n) /\ In(n)' = In(n) /\ Out(n)' = Out(n) /\ Sig(n)' = Sig(n)
                   /\ NoRule(n)' = NoRule(n) /\ Spelled(n)' = Spelled(n)
                   /\ Carriers(n)' = Carriers(n)
         /\ \A v : TypeOf(v)' = TypeOf(v)
<1>1. Node' = Node
  BY DEF Node
<1>2. \A n : Op(n)' = Op(n) /\ In(n)' = In(n) /\ Out(n)' = Out(n) /\ Sig(n)' = Sig(n)
  BY DEF Op, In, Out, Sig
<1>3. Results' = Results /\ Operand' = Operand
  BY <1>1, <1>2 DEF Results, Operand
<1>4. Value' = Value
  BY <1>3 DEF Value
<1>5. ASSUME NEW n
      PROVE  NoRule(n)' = NoRule(n) /\ Spelled(n)' = Spelled(n) /\ Carriers(n)' = Carriers(n)
  <2>1. Op(n)' = Op(n) /\ In(n)' = In(n) /\ Out(n)' = Out(n) /\ Sig(n)' = Sig(n)
    BY <1>2
  <2>2. NoRule(n)' = NoRule(n)
    BY <2>1 DEF NoRule
  <2>3. Spelled(n)' = Spelled(n)
    BY <2>1 DEF Spelled
  <2>4. Carriers(n)' = Carriers(n)
    BY <2>1 DEF Carriers
  <2> QED BY <2>2, <2>3, <2>4
<1>6. \A v : TypeOf(v)' = TypeOf(v)
  BY DEF TypeOf
<1> QED BY <1>1, <1>2, <1>3, <1>4, <1>5, <1>6

LEMMA UsesFrame ==
  ASSUME prog' = prog
  PROVE  /\ \A v : Uses(v)' = Uses(v) /\ Maker(v)' = Maker(v)
         /\ Memref' = Memref /\ TokenViolations' = TokenViolations /\ Unheaded' = Unheaded
<1>1. \A v : Uses(v)' = Uses(v)
  BY ProgFrame DEF Uses
<1>2. \A v : Maker(v)' = Maker(v)
  BY DEF Maker, Results, Node, Out, NoNode, Fns!Range
<1>3. Memref' = Memref /\ Headers' = Headers
  BY ProgFrame DEF Memref, Headers
<1>4. TokenViolations' = TokenViolations
  BY <1>1, <1>3, ProgFrame DEF TokenViolations
<1>5. Unheaded' = Unheaded
  BY <1>1, <1>3, ProgFrame DEF Unheaded
<1> QED BY <1>1, <1>2, <1>3, <1>4, <1>5

LEMMA TypedFrame ==
  ASSUME prog' = prog
  PROVE  WellTyped' = WellTyped
<1>1. SSA' = SSA
  BY ProgFrame DEF SSA
<1>2. Syntax' = Syntax
  BY ProgFrame, UsesFrame DEF Syntax
<1>3. \A n, k : Alike(n, k)' = Alike(n, k)
  BY ProgFrame DEF Alike
<1>4. \A n, ts : Makes(n, ts)' = Makes(n, ts)
  BY ProgFrame DEF Makes
<1>5. \A n : Typed(n)' = Typed(n)
  <2> SUFFICES ASSUME NEW n PROVE Typed(n)' = Typed(n)
    OBVIOUS
  <2>1. /\ Op(n)' = Op(n) /\ In(n)' = In(n) /\ Out(n)' = Out(n) /\ Sig(n)' = Sig(n)
        /\ \A r : \A u \in Uses(Out(n)[r]) : (Op(u[1]) = "mem_controller")' <=> Op(u[1]) = "mem_controller"
    BY ProgFrame
  <2> QED BY <2>1, UsesFrame, <1>3, <1>4 DEF Typed
<1> QED BY <1>1, <1>2, <1>5, ProgFrame DEF WellTyped

-----------------------------------------------------------------------------
(* The fixpoint's steps.                                                   *)

LEMMA CarriersIn ==
  ASSUME WellTyped, NEW n \in Node, ~NoRule(n), ~Spelled(n)
  PROVE  Carriers(n) \subseteq Operand
<1>1. Typed(n) /\ Syntax /\ In(n) # <<>>
  BY DEF WellTyped, Spelled
<1>2. DOMAIN In(n) = 1..Len(In(n)) /\ Len(In(n)) \in Nat /\ In(n) \in Seq(Nat)
  BY <1>1, NodeShape
<1>3. Fns!Range(In(n)) \subseteq Operand
  BY DEF Operand
<1>4. CASE Op(n) = "merge"
  BY <1>3, <1>4 DEF Carriers
<1>5. CASE Op(n) = "mux"
  <2>1. Fns!Range(Tail(In(n))) \subseteq Fns!Range(In(n))
    BY <1>1, <1>2, RangeTail
  <2> QED BY <1>3, <1>5, <2>1 DEF Carriers
<1>6. CASE Op(n) \in {"select", "cond_br"}
  <2>1. 2 \in DOMAIN In(n)
    BY <1>1, <1>6 DEF Typed, Alike
  <2> QED BY <1>6, <2>1, OperandOf DEF Carriers
<1>7. CASE Op(n) \notin {"merge", "mux", "select", "cond_br"}
  <2>1. 1 \in DOMAIN In(n)
    BY <1>1, <1>2
  <2>2. Carriers(n) = {In(n)[1]}
    BY <1>7 DEF Carriers
  <2> QED BY <2>1, <2>2, OperandOf
<1> QED BY <1>4, <1>5, <1>6, <1>7

LEMMA MoreDerives ==
  ASSUME WellTyped, Sound, prog' = prog, NEW n \in Node, ~NoRule(n), Derives(n),
         \A v \in Value \union Operand : ch[v] # Unknown => ch'[v] # Unknown
  PROVE  Derives(n)'
<1>1. Spelled(n)' = Spelled(n) /\ Carriers(n)' = Carriers(n)
  BY ProgFrame
<1>2. CASE Spelled(n)
  BY <1>1, <1>2 DEF Derives
<1>3. CASE ~Spelled(n)
  <2>1. PICK v \in Carriers(n) : ch[v] # Unknown
    BY <1>3 DEF Derives
  <2>2. ch'[v] # Unknown
    BY <1>3, <2>1, CarriersIn
  <2> QED BY <1>1, <2>1, <2>2 DEF Derives
<1> QED BY <1>2, <1>3

\* Asking one operation whose width can be had.
LEMMA ResolveStep ==
  ASSUME WellTyped, WInv, prog' = prog, Resolve
  PROVE  WInv'
<1> DEFINE n == Head(pending)
<1>1. /\ pending # <<>> /\ n \in Node /\ ~NoRule(n) /\ Ready(n)
      /\ pending' = Tail(pending) /\ deferred' = deferred /\ swept' = swept
  <2>1. pending # <<>> /\ ~Refusing(n) /\ Ready(n)
        /\ pending' = Tail(pending) /\ deferred' = deferred /\ swept' = swept
    BY DEF Resolve
  <2> QED BY <2>1, RangeTail DEF WInv, Lists, Refusing
<1>2. /\ Tail(pending) \in Seq(Node) /\ Len(Tail(pending)) = Len(pending) - 1
      /\ Fns!Range(pending) = {n} \union Fns!Range(Tail(pending))
      /\ Len(pending) \in Nat /\ Len(deferred) \in Nat
  BY <1>1, RangeTail DEF WInv, Lists
<1>3. ch' = [v \in DOMAIN ch |->
               IF v \in Fns!Range(Out(n))
               THEN ResultTypes(n)[CHOOSE k \in DOMAIN Out(n) : Out(n)[k] = v] ELSE ch[v]]
  BY DEF Resolve
<1> HIDE DEF n
<1>4. Syntax /\ SSA /\ Sound /\ DOMAIN ch = Value \union Operand
  BY DEF WellTyped, WInv, Sound
<1>5. Derives(n) \/ Out(n) = <<>>
  BY <1>1, <1>4, ReadyLaw
<1>6. ASSUME NEW v \in Fns!Range(Out(n))
      PROVE  v \in Results /\ v \in Value /\ v \notin DOMAIN prog.type
             /\ TypeOf(v) \in Nat /\ ch'[v] = TypeOf(v) /\ Derives(n)
  <2>1. PICK r \in DOMAIN Out(n) : Out(n)[r] = v
    BY DEF Fns!Range
  <2>2. Derives(n)
    <3>1. Out(n) # <<>>
      <4>1. DOMAIN Out(n) = 1..Len(Out(n)) /\ Len(<<>>) = 0
        BY <1>1, <1>4, NodeShape
      <4> QED BY <4>1, <2>1
    <3> QED BY <1>5, <3>1
  <2>3. v \in Results /\ v \in Value /\ TypeOf(v) \in Nat
    BY <1>1, <1>4, <2>1, ResultOf
  <2> DEFINE k == CHOOSE k \in DOMAIN Out(n) : Out(n)[k] = v
  <2>4. k \in DOMAIN Out(n) /\ Out(n)[k] = v
    BY <2>1
  <2>5. ch'[v] = ResultTypes(n)[k]
    BY <1>3, <1>4, <2>3
  <2> HIDE DEF k
  <2>6. ResultTypes(n)[k] = TypeOf(v)
    BY <1>1, <1>4, <2>2, <2>4, ResultLaw
  <2> QED BY <1>4, <2>2, <2>3, <2>5, <2>6 DEF SSA
<1>7. \A v \in Value \union Operand : v \notin Fns!Range(Out(n)) => ch'[v] = ch[v]
  BY <1>3, <1>4
<1>8. \A v \in Value \union Operand : ch[v] # Unknown => ch'[v] = ch[v]
  BY <1>4, <1>6, <1>7 DEF Sound
<1>9. Sound'
  <2>1. /\ Value' = Value /\ Operand' = Operand /\ \A v : TypeOf(v)' = TypeOf(v)
    BY ProgFrame
  <2>2. ch' \in [Value \union Operand -> Nat \union {Unknown}]
    <3>1. DOMAIN ch' = Value \union Operand /\ ch' = [v \in DOMAIN ch' |-> ch'[v]]
      BY <1>3, <1>4
    <3>2. \A v \in Value \union Operand : ch'[v] \in Nat \union {Unknown}
      BY <1>4, <1>6, <1>7 DEF Sound
    <3> QED BY <3>1, <3>2
  <2>3. \A v \in Value : ch'[v] # Unknown => ch'[v] = TypeOf(v)
    BY <1>4, <1>6, <1>7 DEF Sound
  <2>4. \A v \in Operand \ Value : ch'[v] = Unknown
    BY <1>4, <1>6, <1>7 DEF Sound
  <2>5. \A v \in DOMAIN prog.type : ch'[v] = prog.type[v]
    <3>1. DOMAIN prog.type \subseteq Value
      BY DEF Value
    <3> QED BY <1>4, <1>6, <1>7, <3>1 DEF Sound
  <2> QED BY <2>1, <2>2, <2>3, <2>4, <2>5 DEF Sound
<1>10. Lists'
  BY <1>1, <1>2, ProgFrame DEF WInv, Lists
<1>11. Waiting'
  <2>1. ASSUME NEW m \in Node, m \notin Fns!Range(pending') \union Fns!Range(deferred'),
               NEW r \in DOMAIN Out(m)
        PROVE  ch'[Out(m)[r]] = TypeOf(Out(m)[r])
    <3>1. Out(m)[r] \in Value /\ TypeOf(Out(m)[r]) \in Nat
      BY <1>4, ResultOf
    <3>2. CASE m = n
      BY <1>6, <3>2 DEF Fns!Range
    <3>3. CASE m # n
      <4>1. m \notin Fns!Range(pending) \union Fns!Range(deferred)
        BY <1>1, <1>2, <2>1, <3>3
      <4>2. ch[Out(m)[r]] = TypeOf(Out(m)[r])
        BY <4>1 DEF WInv, Waiting
      <4> QED BY <1>8, <3>1, <4>2 DEF Unknown
    <3> QED BY <3>2, <3>3
  <2>2. ASSUME NEW m \in Node, m \notin Fns!Range(pending') \union Fns!Range(deferred')
        PROVE  ~NoRule(m)
    <3>1. m = n \/ m \notin Fns!Range(pending) \union Fns!Range(deferred)
      BY <1>1, <1>2, <2>2
    <3> QED BY <1>1, <3>1 DEF WInv, Waiting
  <2> QED BY <2>1, <2>2, ProgFrame DEF Waiting
<1>12. Derived'
  <2>1. ASSUME NEW m \in Node, NEW r \in DOMAIN Out(m), ch'[Out(m)[r]] # Unknown
        PROVE  ~NoRule(m) /\ Derives(m)'
    <3>1. Out(m)[r] \in Value
      BY <1>4, ResultOf
    <3>2. ~NoRule(m) /\ Derives(m)
      <4>1. CASE ch[Out(m)[r]] # Unknown
        BY <4>1 DEF WInv, Derived
      <4>2. CASE Out(m)[r] \in Fns!Range(Out(n))
        <5>1. PICK k \in DOMAIN Out(n) : Out(n)[k] = Out(m)[r]
          BY <4>2 DEF Fns!Range
        <5>2. m = n
          BY <1>1, <1>4, <5>1 DEF SSA
        <5> QED BY <1>1, <1>6, <4>2, <5>2
      <4> QED BY <1>7, <2>1, <3>1, <4>1, <4>2
    <3>3. \A v \in Value \union Operand : ch[v] # Unknown => ch'[v] # Unknown
      BY <1>8
    <3> QED BY <1>4, <3>2, <3>3, MoreDerives
  <2> QED BY <2>1, ProgFrame DEF Derived
<1>13. Fruitless'
  BY <1>1, <1>2 DEF WInv, Lists, Fruitless
<1> QED BY <1>9, <1>10, <1>11, <1>12, <1>13 DEF WInv

\* ch, and whether an operation's width can be had, with the function as it is.
LEMMA SameWidths ==
  ASSUME prog' = prog, ch' = ch
  PROVE  /\ Sound' = Sound /\ Derived' = Derived
         /\ \A n : Derives(n)' = Derives(n)
<1>1. \A n : Derives(n)' = Derives(n)
  BY ProgFrame DEF Derives
<1>2. Sound' = Sound
  BY ProgFrame DEF Sound
<1>3. Derived' = Derived
  BY <1>1, ProgFrame DEF Derived
<1> QED BY <1>1, <1>2, <1>3

\* Putting off one operation whose width cannot be had yet.
LEMMA DeferStep ==
  ASSUME WellTyped, WInv, prog' = prog, Defer
  PROVE  WInv'
<1> DEFINE n == Head(pending)
<1>1. /\ pending # <<>> /\ ~Refusing(n) /\ ~Ready(n)
      /\ pending' = Tail(pending) /\ deferred' = Append(deferred, n)
      /\ ch' = ch /\ swept' = swept
  BY DEF Defer
<1>2. /\ Tail(pending) \in Seq(Node) /\ Len(Tail(pending)) = Len(pending) - 1
      /\ Fns!Range(pending) = {n} \union Fns!Range(Tail(pending))
      /\ Len(pending) \in Nat /\ Len(deferred) \in Nat /\ n \in Node
  BY <1>1, RangeTail DEF WInv, Lists
<1> HIDE DEF n
<1>3. /\ Append(deferred, n) \in Seq(Node) /\ Len(Append(deferred, n)) = Len(deferred) + 1
      /\ Fns!Range(Append(deferred, n)) = Fns!Range(deferred) \union {n}
  BY <1>2, RangeAppend DEF WInv, Lists
<1>4. ~NoRule(n) /\ ~Derives(n) /\ Out(n) # <<>>
  BY <1>1, <1>2, ReadyLaw DEF WInv, Refusing
<1>5. Sound' /\ Derived'
  BY <1>1, SameWidths DEF WInv
<1>6. Lists'
  BY <1>1, <1>2, <1>3, <1>4, ProgFrame DEF WInv, Lists
<1>7. Fns!Range(pending') \union Fns!Range(deferred') = Fns!Range(pending) \union Fns!Range(deferred)
  BY <1>1, <1>2, <1>3
<1>8. Waiting'
  BY <1>1, <1>7, ProgFrame DEF WInv, Waiting
<1>9. Fruitless'
  <2>1. /\ Len(pending') + Len(deferred') = Len(pending) + Len(deferred)
        /\ swept' = swept
    BY <1>1, <1>2, <1>3
  <2>2. ASSUME Len(pending') + Len(deferred') = swept', NEW m \in Fns!Range(deferred')
        PROVE  ~Derives(m)' /\ Out(m)' # <<>>
    <3>1. m \in Fns!Range(deferred) \/ m = n
      BY <1>1, <1>3, <2>2
    <3>2. ~Derives(m) /\ Out(m) # <<>>
      BY <1>4, <2>1, <2>2, <3>1 DEF WInv, Fruitless
    <3> QED BY <1>1, <3>2, ProgFrame, SameWidths
  <2>3. Len(pending') + Len(deferred') <= swept'
    BY <2>1 DEF WInv, Fruitless
  <2> QED BY <2>2, <2>3 DEF Fruitless
<1> QED BY <1>5, <1>6, <1>8, <1>9 DEF WInv

\* Starting over with what was put off.
LEMMA SweepStep ==
  ASSUME WellTyped, WInv, prog' = prog, Sweep
  PROVE  WInv'
<1>1. /\ pending = <<>> /\ pending' = deferred /\ deferred' = <<>>
      /\ swept' = Len(deferred) /\ ch' = ch
  BY DEF Sweep
<1>2. Fns!Range(<<>>) = {} /\ Len(<<>>) = 0 /\ <<>> \in Seq(Node)
  BY RangeEmpty
<1>3. Len(deferred) \in Nat /\ deferred \in Seq(Node)
  BY DEF WInv, Lists
<1>4. Sound' /\ Derived'
  BY <1>1, SameWidths DEF WInv
<1>5. Lists'
  BY <1>1, <1>2, <1>3, ProgFrame DEF WInv, Lists
<1>6. Waiting'
  BY <1>1, <1>2, ProgFrame DEF WInv, Waiting
<1>7. Fruitless'
  BY <1>1, <1>2, <1>3 DEF Fruitless
<1> QED BY <1>4, <1>5, <1>6, <1>7 DEF WInv

LEMMA WidthsStutter ==
  ASSUME WInv, prog' = prog, UNCHANGED widths
  PROVE  WInv'
<1>1. ch' = ch /\ pending' = pending /\ deferred' = deferred /\ swept' = swept
  BY DEF widths
<1>2. Sound' /\ Derived'
  BY <1>1, SameWidths DEF WInv
<1>3. Lists' /\ Waiting'
  BY <1>1, ProgFrame DEF WInv, Lists, Waiting
<1>4. Fruitless'
  BY <1>1, ProgFrame, SameWidths DEF WInv, Fruitless
<1> QED BY <1>2, <1>3, <1>4 DEF WInv

LEMMA WidthsBegin ==
  ASSUME WellTyped, WidthsInit
  PROVE  WInv
<1>1. Syntax /\ SSA
  BY DEF WellTyped
<1>2. /\ ch = [v \in Value \union Operand |->
                 IF v \in DOMAIN prog.type THEN prog.type[v] ELSE Unknown]
      /\ pending = [n \in Node |-> n] /\ deferred = <<>> /\ swept = Len(pending)
  BY DEF WidthsInit
<1>3. Node = 1..Len(prog.nodes) /\ Len(prog.nodes) \in Nat
  BY <1>1 DEF Syntax, Node
<1>4. pending \in Seq(Node) /\ Fns!Range(pending) = Node /\ Len(pending) = Len(prog.nodes)
  BY <1>2, <1>3 DEF Fns!Range
<1>5. Fns!Range(<<>>) = {} /\ Len(<<>>) = 0 /\ <<>> \in Seq(Node)
  BY RangeEmpty
<1>6. \A v \in DOMAIN prog.type : v \in Value /\ v \notin Results /\ prog.type[v] = TypeOf(v)
                                  /\ TypeOf(v) \in Nat
  BY <1>1 DEF Value, SSA, TypeOf, Syntax
<1>7. Sound
  BY <1>2, <1>6 DEF Sound
<1>8. Lists
  BY <1>2, <1>3, <1>4, <1>5 DEF Lists
<1>9. Waiting
  BY <1>4 DEF Waiting
<1>10. Derived
  <2>1. \A n \in Node : \A r \in DOMAIN Out(n) : ch[Out(n)[r]] = Unknown
    BY <1>1, <1>2, <1>6, ResultOf
  <2> QED BY <2>1 DEF Derived
<1>11. Fruitless
  BY <1>2, <1>3, <1>4, <1>5 DEF Fruitless
<1> QED BY <1>7, <1>8, <1>9, <1>10, <1>11 DEF WInv

\* A fixpoint that ended has the widths of the program ...
LEMMA EndSettles ==
  ASSUME WellTyped, WInv, WidthsDone
  PROVE  /\ \A v \in Results : ch[v] = prog.types[v]
         /\ \A n \in Node : ~NoRule(n) /\ Typed(n)
<1>1. SSA
  BY DEF WellTyped
<1>2. Fns!Range(pending) = {} /\ Fns!Range(deferred) = {}
  BY RangeEmpty DEF WidthsDone
<1>3. \A n \in Node : ~NoRule(n) /\ \A r \in DOMAIN Out(n) : ch[Out(n)[r]] = TypeOf(Out(n)[r])
  BY <1>2 DEF WInv, Waiting
<1>4. ASSUME NEW v \in Results
      PROVE  ch[v] = prog.types[v]
  <2>1. PICK n \in Node : v \in Fns!Range(Out(n))
    BY DEF Results
  <2>2. PICK r \in DOMAIN Out(n) : Out(n)[r] = v
    BY <2>1 DEF Fns!Range
  <2> QED BY <1>1, <1>3, <2>2 DEF TypeOf, SSA
<1> QED BY <1>3, <1>4 DEF WellTyped

\* ... and one that gave up could not have had them.
LEMMA EndRefuses ==
  ASSUME WellTyped, WInv, WidthsRefused
  PROVE  Underivable \/ \E n \in Node : NoRule(n)
<1>1. Syntax /\ Sound /\ SSA
  BY DEF WellTyped, WInv
<1>2. CASE pending # <<>> /\ Refusing(Head(pending))
  <2>1. Head(pending) \in Node
    BY <1>2, RangeTail DEF WInv, Lists
  <2> QED BY <1>1, <1>2, <2>1, ReadyLaw
<1>3. CASE pending = <<>> /\ deferred # <<>> /\ Stuck
  <2>1. Fns!Range(pending) = {} /\ Len(pending) = 0
    BY <1>3, RangeEmpty
  <2>2. Len(deferred) \in Nat /\ swept \in Nat /\ Len(deferred) = swept
    BY <1>3 DEF WInv, Lists, Stuck
  <2>3. \A n \in Fns!Range(deferred) : ~Derives(n) /\ Out(n) # <<>>
    BY <2>1, <2>2 DEF WInv, Fruitless
  <2>4. Head(deferred) \in Node /\ Head(deferred) \in Fns!Range(deferred)
    BY <1>3, RangeTail DEF WInv, Lists
  <2> DEFINE found == {v \in Value : ch[v] # Unknown}
  <2>5. DOMAIN prog.type \subseteq found
    <3>1. \A v \in DOMAIN prog.type : v \in Value /\ TypeOf(v) \in Nat /\ TypeOf(v) = prog.type[v]
      BY <1>1 DEF Value, Syntax, TypeOf
    <3> QED BY <1>1, <3>1 DEF Sound, Unknown
  <2>6. ASSUME NEW n \in Node, Spelled(n) \/ Carriers(n) \intersect found # {}
        PROVE  Fns!Range(Out(n)) \subseteq found
    <3>1. Derives(n)
      BY <2>6 DEF Derives
    <3>2. n \notin Fns!Range(pending) \union Fns!Range(deferred)
      BY <2>1, <2>3, <3>1
    <3>3. ASSUME NEW r \in DOMAIN Out(n)
          PROVE  Out(n)[r] \in found
      <4>1. ch[Out(n)[r]] = TypeOf(Out(n)[r])
        BY <3>2 DEF WInv, Waiting
      <4> QED BY <1>1, <4>1, ResultOf DEF Unknown
    <3> HIDE DEF found
    <3> QED BY <3>3 DEF Fns!Range
  <2>7. ~(Results \subseteq found)
    <3> DEFINE n == Head(deferred)
    <3>1. 1 \in DOMAIN Out(n)
      BY <1>1, <2>3, <2>4, NodeShape
    <3>2. Out(n)[1] \in Results
      BY <1>1, <2>4, <3>1, ResultOf
    <3>3. ch[Out(n)[1]] = Unknown
      BY <2>3, <2>4, <3>1 DEF WInv, Derived
    <3> QED BY <3>2, <3>3
  <2> QED BY <2>5, <2>6, <2>7 DEF Underivable
<1> QED BY <1>2, <1>3 DEF WidthsRefused

-----------------------------------------------------------------------------
(* Who makes a value and who reads it.                                     *)

LEMMA FiniteUnion ==
  ASSUME NEW I, IsFiniteSet(I), NEW f, f = [i \in I |-> f[i]],
         \A i \in I : IsFiniteSet(f[i])
  PROVE  IsFiniteSet(UNION {f[i] : i \in I})
<1> DEFINE F == {f[i] : i \in I}
<1>1. f \in Surjection(I, F)
  BY DEF Surjection
<1>2. IsFiniteSet(F)
  <2> HIDE DEF F
  <2> QED BY <1>1, FS_Surjection
<1>3. \A T \in F : IsFiniteSet(T)
  OBVIOUS
<1> HIDE DEF F
<1> QED BY <1>2, <1>3, FS_UNION DEF F

LEMMA NodeFinite ==
  ASSUME Syntax
  PROVE  IsFiniteSet(Node)
<1>1. Node = 1..Len(prog.nodes) /\ Len(prog.nodes) \in Nat
  BY DEF Syntax, Node
<1> QED BY <1>1, FS_Interval

LEMMA ResultsFinite ==
  ASSUME Syntax
  PROVE  IsFiniteSet(Results)
<1> DEFINE f == [n \in Node |-> Fns!Range(Out(n))]
<1>1. ASSUME NEW n \in Node
      PROVE  IsFiniteSet(f[n])
  <2>1. IsFiniteSet(DOMAIN Out(n))
    BY NodeShape, FS_Interval
  <2>2. Out(n) \in Surjection(DOMAIN Out(n), Fns!Range(Out(n)))
    BY NodeShape DEF Surjection, Fns!Range
  <2> QED BY <2>1, <2>2, FS_Surjection
<1>2. Results = UNION {f[n] : n \in Node}
  BY DEF Results
<1>3. f = [n \in Node |-> f[n]]
  OBVIOUS
<1> HIDE DEF f
<1> QED BY <1>1, <1>2, <1>3, NodeFinite, FiniteUnion

LEMMA UsesFinite ==
  ASSUME Syntax, NEW v
  PROVE  IsFiniteSet(Uses(v))
<1> DEFINE f == [n \in Node |-> {n} \X {k \in DOMAIN In(n) : In(n)[k] = v}]
<1>1. ASSUME NEW n \in Node
      PROVE  IsFiniteSet(f[n])
  <2>1. IsFiniteSet(DOMAIN In(n))
    BY NodeShape, FS_Interval
  <2>2. IsFiniteSet({k \in DOMAIN In(n) : In(n)[k] = v})
    BY <2>1, FS_Subset
  <2> QED BY <2>2, FS_Singleton, FS_Product
<1>2. Uses(v) = UNION {f[n] : n \in Node}
  BY DEF Uses
<1>3. f = [n \in Node |-> f[n]]
  OBVIOUS
<1> HIDE DEF f
<1> QED BY <1>1, <1>2, <1>3, NodeFinite, FiniteUnion

LEMMA UseIs ==
  ASSUME NEW v, NEW u \in Uses(v)
  PROVE  /\ u[1] \in Node /\ u[2] \in DOMAIN In(u[1]) /\ In(u[1])[u[2]] = v
         /\ u = <<u[1], u[2]>>
BY DEF Uses

LEMMA UsedThere ==
  ASSUME NEW n \in Node, NEW k \in DOMAIN In(n)
  PROVE  <<n, k>> \in Uses(In(n)[k])
BY DEF Uses

LEMMA OneReader ==
  ASSUME Syntax, TokenViolations = {}, NEW v \in Value
  PROVE  \E u \in Uses(v) : Uses(v) = {u}
<1>1. Cardinality(Uses(v)) = 1
  BY DEF TokenViolations
<1> QED BY <1>1, UsesFinite, FS_Singleton

LEMMA MadeBy ==
  ASSUME SSA, NEW n \in Node, NEW r \in DOMAIN Out(n)
  PROVE  Maker(Out(n)[r]) = n
<1> DEFINE v == Out(n)[r]
<1>1. v \in Fns!Range(Out(n)) /\ v \in Results
  BY DEF Fns!Range, Results
<1>2. \A m \in Node : v \in Fns!Range(Out(m)) => m = n
  BY DEF SSA, Fns!Range
<1> HIDE DEF v
<1>3. Maker(v) = CHOOSE m \in Node : v \in Fns!Range(Out(m))
  BY <1>1 DEF Maker
<1> QED BY <1>1, <1>2, <1>3 DEF v

LEMMA MakerMakes ==
  ASSUME NEW v \in Results
  PROVE  Maker(v) \in Node /\ \E r \in DOMAIN Out(Maker(v)) : Out(Maker(v))[r] = v
<1>1. \E n \in Node : v \in Fns!Range(Out(n))
  BY DEF Results
<1>2. Maker(v) = CHOOSE n \in Node : v \in Fns!Range(Out(n))
  BY DEF Maker
<1>3. Maker(v) \in Node /\ v \in Fns!Range(Out(Maker(v)))
  BY <1>1, <1>2
<1> QED BY <1>3 DEF Fns!Range

LEMMA FusableShape ==
  ASSUME WellTyped, NEW n \in Fusable
  PROVE  /\ n \in Node /\ n \notin Headers /\ Len(Out(n)) = 1 /\ DOMAIN Out(n) = {1}
         /\ Port(n) = DOMAIN In(n)
         /\ Out(n)[1] \in Results /\ Out(n)[1] \in Value /\ Maker(Out(n)[1]) = n
<1>1. n \in Node /\ Op(n) \in FusableOps
  BY DEF Fusable
<1>2. Syntax /\ SSA /\ ~NoRule(n)
  BY <1>1 DEF WellTyped, NoRule, FusableOps, DelayBearing
<1>3. Typed(n)
  BY <1>1, <1>2 DEF WellTyped
<1>4. Len(Out(n)) = 1 /\ Len(In(n)) = IF Op(n) = "select" THEN 3 ELSE 2
  BY <1>1, <1>3 DEF Typed, Makes, FusableOps, DelayBearing
<1>5. DOMAIN Out(n) = {1}
  BY <1>1, <1>2, <1>4, NodeShape
<1>6. Port(n) = DOMAIN In(n)
  BY <1>1, <1>2, <1>4, NodeShape DEF Port
<1>7. n \notin Headers
  BY <1>1 DEF Headers, FusableOps, DelayBearing
<1> QED BY <1>1, <1>2, <1>4, <1>5, <1>6, <1>7, ResultOf, MadeBy

-----------------------------------------------------------------------------
(* Fusion: with one reader a value, a region has at most one result that   *)
(* leaves it.                                                              *)

Partition == /\ UNION regions = Fusable
             /\ {} \notin regions
             /\ \A P, Q \in regions : P \intersect Q # {} => P = Q

OneSink(R) == \A m, n \in Sinks(R) : m = n

\* A channel from one fusable node to another.
Edged(e) == /\ e[1] \in Results /\ Maker(e[1]) \in Fusable
            /\ e[2] \in Fusable /\ \E k \in DOMAIN In(e[2]) : In(e[2])[k] = e[1]

FusionInv == /\ Partition
             /\ \A e \in joins : Edged(e)
             /\ TokenViolations = {} => \A R \in regions : OneSink(R)

LEMMA FusionFrame ==
  ASSUME prog' = prog
  PROVE  /\ Fusable' = Fusable
         /\ \A R : Sinks(R)' = Sinks(R) /\ OneSink(R)' = OneSink(R)
         /\ \A e : Edged(e)' <=> Edged(e)
<1>1. Fusable' = Fusable
  BY ProgFrame DEF Fusable
<1>2. \A R : Sinks(R)' = Sinks(R)
  BY ProgFrame, UsesFrame DEF Sinks
<1>3. \A e : Edged(e)' <=> Edged(e)
  BY <1>1, ProgFrame, UsesFrame DEF Edged
<1> QED BY <1>1, <1>2, <1>3 DEF OneSink

LEMMA FusionStutter ==
  ASSUME FusionInv, prog' = prog, UNCHANGED fusion
  PROVE  FusionInv'
<1>1. regions' = regions /\ joins' = joins
  BY DEF fusion
<1>2. Partition'
  BY <1>1, FusionFrame DEF FusionInv, Partition
<1>3. (\A e \in joins : Edged(e))'
  BY <1>1, FusionFrame DEF FusionInv
<1>4. (TokenViolations = {} => \A R \in regions : OneSink(R))'
  BY <1>1, FusionFrame, UsesFrame DEF FusionInv
<1> QED BY <1>2, <1>3, <1>4 DEF FusionInv

LEMMA FusionBegin ==
  ASSUME FusionInit
  PROVE  FusionInv
<1>1. regions = {{n} : n \in Fusable}
      /\ \A e \in joins : Edged(e)
  BY DEF FusionInit, Edged, Fns!Range
<1>2. Partition
  <2>1. \A n \in Fusable : {n} \in regions
    BY <1>1
  <2>2. \A R \in regions : \E n \in Fusable : R = {n}
    BY <1>1
  <2>3. UNION regions = Fusable
    BY <2>1, <2>2
  <2>4. {} \notin regions
    BY <2>2
  <2>5. ASSUME NEW P \in regions, NEW Q \in regions, P \intersect Q # {}
        PROVE  P = Q
    <3>1. PICK m \in Fusable : P = {m}
      BY <2>2
    <3>2. PICK n \in Fusable : Q = {n}
      BY <2>2
    <3> QED BY <2>5, <3>1, <3>2
  <2> QED BY <2>3, <2>4, <2>5 DEF Partition
<1>3. \A R \in regions : OneSink(R)
  BY <1>1 DEF OneSink, Sinks
<1> QED BY <1>1, <1>2, <1>3 DEF FusionInv

LEMMA RegionIs ==
  ASSUME Partition, NEW n \in Fusable
  PROVE  RegionOf(n) \in regions /\ n \in RegionOf(n) /\ RegionOf(n) \subseteq Fusable
<1>1. \E R \in regions : n \in R
  BY DEF Partition
<1>2. RegionOf(n) \in regions /\ n \in RegionOf(n)
  BY <1>1 DEF RegionOf
<1> QED BY <1>2 DEF Partition

\* The value of n, member of P, has its one reader in Q: it is P's only way out,
\* and none of the two together.
LEMMA JoinSinks ==
  ASSUME WellTyped, TokenViolations = {}, NEW P \in SUBSET Fusable, NEW Q \in SUBSET Fusable,
         OneSink(P), OneSink(Q), P \intersect Q = {}, NEW n \in P, NEW u \in Uses(Out(n)[1]),
         u[1] \in Q
  PROVE  OneSink(P \union Q)
<1>1. Syntax
  BY DEF WellTyped
<1>2. n \in Fusable /\ Out(n)[1] \in Value
  BY FusableShape
<1>3. Uses(Out(n)[1]) = {u}
  BY <1>1, <1>2, OneReader
<1>4. n \in Sinks(P)
  BY <1>3 DEF Sinks
<1>5. ASSUME NEW m \in Sinks(P \union Q)
      PROVE  m \in Sinks(Q)
  <2>1. m \in P \union Q /\ m \in Fusable
    BY DEF Sinks
  <2>2. PICK w \in Uses(Out(m)[1]) : TRUE
    BY <1>1, <2>1, FusableShape, OneReader
  <2>3. \E x \in Uses(Out(m)[1]) : x[1] \notin P \union Q
    BY <1>5, <2>2 DEF Sinks
  <2>4. CASE m \in P
    <3>1. m \in Sinks(P)
      BY <2>3, <2>4 DEF Sinks
    <3>2. m = n
      BY <1>4, <3>1 DEF OneSink
    <3> QED BY <1>3, <2>3, <3>2
  <2>5. CASE m \in Q
    BY <2>3, <2>5 DEF Sinks
  <2> QED BY <2>1, <2>4, <2>5
<1> QED BY <1>5 DEF OneSink

LEMMA UnionOfTwo ==
  ASSUME NEW S, NEW P \in S, NEW Q \in S
  PROVE  UNION ((S \ {P, Q}) \union {P \union Q}) = UNION S
<1> DEFINE T == (S \ {P, Q}) \union {P \union Q}
<1>1. \A R \in T : R \subseteq UNION S
  OBVIOUS
<1>2. \A R \in S : R \subseteq UNION T
  OBVIOUS
<1> HIDE DEF T
<1>3. UNION T = UNION S
  BY <1>1, <1>2
<1> QED BY <1>3 DEF T

LEMMA UnionStep ==
  ASSUME WellTyped, FusionInv, prog' = prog, NEW e \in joins, Union(e)
  PROVE  FusionInv'
<1> DEFINE n == Maker(e[1])
           v == e[1]
<1>1. /\ regions' = IF RegionOf(n) = RegionOf(e[2]) \/ TooBig(RegionOf(n), RegionOf(e[2]))
                    THEN regions
                    ELSE (regions \ {RegionOf(n), RegionOf(e[2])})
                           \union {RegionOf(n) \union RegionOf(e[2])}
      /\ joins' = joins \ {e}
  BY DEF Union
<1>2. Edged(e)
  BY DEF FusionInv
<1>9. PICK u \in Uses(v) : u[1] = e[2]
  <2>1. PICK k \in DOMAIN In(e[2]) : In(e[2])[k] = e[1]
    BY <1>2 DEF Edged
  <2>2. e[2] \in Node
    BY <1>2 DEF Edged, Fusable
  <2>3. <<e[2], k>> \in Uses(v)
    BY <2>1, <2>2 DEF Uses
  <2> QED BY <2>3
<1>3. Partition /\ v \in Results /\ n \in Fusable /\ u[1] \in Fusable
  BY <1>2, <1>9 DEF FusionInv, Edged
<1>4. v = Out(n)[1]
  BY <1>3, MakerMakes, FusableShape
<1> HIDE DEF n, v
<1> DEFINE P == RegionOf(n)
           Q == RegionOf(u[1])
<1>5. /\ P \in regions /\ n \in P /\ P \subseteq Fusable
      /\ Q \in regions /\ u[1] \in Q /\ Q \subseteq Fusable
  BY <1>3, RegionIs
<1>6. (\A d \in joins : Edged(d))'
  BY <1>1, FusionFrame DEF FusionInv
<1>7. CASE P = Q \/ TooBig(P, Q)
  <2>1. regions' = regions
    BY <1>1, <1>7, <1>9
  <2> QED BY <2>1, <1>6, FusionFrame, UsesFrame DEF FusionInv, Partition
<1>8. CASE ~(P = Q \/ TooBig(P, Q))
  <2>1. regions' = (regions \ {P, Q}) \union {P \union Q}
    BY <1>1, <1>8, <1>9
  <2> HIDE DEF P, Q
  <2>2. P \intersect Q = {}
    BY <1>3, <1>5, <1>8 DEF Partition
  <2>3. Partition'
    <3>1. UNION regions' = Fusable
      <4>1. UNION regions = Fusable
        BY <1>3 DEF Partition
      <4> QED BY <1>5, <2>1, <4>1, UnionOfTwo
    <3>2. {} \notin regions'
      BY <1>3, <1>5, <2>1 DEF Partition
    <3>3. \A R, S \in regions' : R \intersect S # {} => R = S
      <4>1. \A R, S \in regions : R \intersect S # {} => R = S
        BY <1>3 DEF Partition
      <4>2. \A R \in regions \ {P, Q} : R \intersect (P \union Q) = {}
        BY <1>5, <4>1
      <4> QED BY <2>1, <4>1, <4>2
    <3> QED BY <3>1, <3>2, <3>3, FusionFrame DEF Partition
  <2>4. ASSUME TokenViolations = {}, NEW R \in regions'
        PROVE  OneSink(R)
    <3>1. \A S \in regions : OneSink(S)
      BY <2>4 DEF FusionInv
    <3>2. CASE R \in regions
      BY <3>1, <3>2
    <3>3. CASE R = P \union Q
      BY <1>4, <1>5, <2>2, <2>4, <3>1, <3>3, JoinSinks
    <3> QED BY <2>1, <3>2, <3>3
  <2> QED BY <1>6, <2>3, <2>4, FusionFrame, UsesFrame DEF FusionInv
<1> QED BY <1>7, <1>8

\* A region that nothing leaves is a cycle without a header.
LEMMA FusionRefuses ==
  ASSUME WellTyped, FusionInv, FusionRefused
  PROVE  TokenViolations # {} \/ Unheaded
<1> SUFFICES ASSUME TokenViolations = {} PROVE Unheaded
  OBVIOUS
<1>1. Syntax
  BY DEF WellTyped
<1>2. PICK R \in regions : (\E n \in R : Len(Out(n)) # 1) \/ Cardinality(Sinks(R)) # 1
  BY DEF FusionRefused
<1>3. R \subseteq Fusable /\ R # {}
  BY DEF FusionInv, Partition
<1>4. Cardinality(Sinks(R)) # 1
  BY <1>2, <1>3, FusableShape
<1>5. Sinks(R) = {}
  <2>1. ASSUME NEW n \in Sinks(R)
        PROVE  FALSE
    <3>1. Sinks(R) = {n}
      BY DEF FusionInv, OneSink
    <3> QED BY <1>4, <3>1, FS_Singleton
  <2> QED BY <2>1
<1> DEFINE V == {Out(n)[1] : n \in R}
<1>6. V \in SUBSET Results /\ V # {}
  BY <1>3, FusableShape
<1>7. ASSUME NEW v \in V
      PROVE  \E u \in Uses(v) : u[1] \notin Headers /\ Fns!Range(Out(u[1])) \intersect V # {}
  <2>1. PICK n \in R : v = Out(n)[1]
    OBVIOUS
  <2>2. PICK u \in Uses(v) : u[1] \in R
    <3>1. n \notin Sinks(R)
      BY <1>5
    <3> QED BY <2>1, <3>1 DEF Sinks
  <2>3. u[1] \in Fusable
    BY <1>3, <2>2
  <2>4. Out(u[1])[1] \in Fns!Range(Out(u[1])) /\ u[1] \notin Headers
    BY <2>3, FusableShape DEF Fns!Range
  <2> QED BY <2>2, <2>4
<1> HIDE DEF V
<1> QED BY <1>6, <1>7 DEF Unheaded

-----------------------------------------------------------------------------
(* What the later stages read, in a step that changes none of it.          *)

LEMMA DeadFrame ==
  ASSUME prog' = prog, regions' = regions
  PROVE  DeadValues' = DeadValues
<1>1. \A R : Anchor(R)' = Anchor(R)
  BY DEF Anchor, Sinks, Uses, Node, Out, In
<1>2. Interior' = Interior
  BY <1>1 DEF Interior
<1>3. Fusable' = Fusable
  BY FusionFrame
<1>4. \A n : Port(n)' = Port(n)
  BY DEF Port, Op
<1>5. \A c : Absorbable(c)' = Absorbable(c)
  BY <1>3, <1>4, ProgFrame, UsesFrame DEF Absorbable, NoNode
<1>6. AbsorbedConstants' = AbsorbedConstants
  BY <1>5, ProgFrame DEF AbsorbedConstants
<1>7. AbsorbedNodes' = AbsorbedNodes
  BY <1>6, ProgFrame, UsesFrame DEF AbsorbedNodes
<1>8. Skipped' = Skipped
  BY <1>2, <1>7 DEF Skipped
<1> QED BY <1>8, ProgFrame DEF DeadValues

LEMMA MemoryFrame ==
  ASSUME prog' = prog
  PROVE  AbsorbedByMemory' = AbsorbedByMemory /\ MemRefused' = MemRefused
<1>1. \A m : Accessors(m)' = Accessors(m) /\ Group(m)' = Group(m)
  BY DEF Accessors, Group, Maker, Results, Node, Op, In, Out, NoNode, Fns!Range
<1>2. Controller' = Controller
  BY ProgFrame DEF Controller
<1>3. \A m : Loads(m)' = Loads(m) /\ Stores(m)' = Stores(m)
  BY <1>1, ProgFrame DEF Loads, Stores
<1>4. AbsorbedByMemory' = AbsorbedByMemory
  BY <1>1, <1>2, <1>3, ProgFrame DEF AbsorbedByMemory
<1>5. \A m : ControllerRefused(m)' = ControllerRefused(m)
  BY <1>1, <1>3, ProgFrame, UsesFrame
     DEF ControllerRefused, MisGrouped, Unordered, Arbitrated, Unclaimed, Readbacks, NoNode
<1>6. \A v : TooDeep(v)' = TooDeep(v)
  BY DEF TooDeep, AddressWidth
<1> QED BY <1>2, <1>4, <1>5, <1>6, UsesFrame DEF MemRefused

-----------------------------------------------------------------------------
(* What a memory takes away.                                               *)

\* A finite set of numbers has one with k others below, for each k there can be.
LEMMA Ranked ==
  ASSUME NEW S \in SUBSET Nat, IsFiniteSet(S), NEW k \in 1..Cardinality(S)
  PROVE  \E j \in S : Cardinality({i \in S : i < j}) = k - 1
<1> DEFINE Below(j) == {i \in S : i < j}
           T == {i \in 1..Cardinality(S) : \A j \in S : Cardinality(Below(j)) # i - 1}
<1> SUFFICES ASSUME T # {} PROVE FALSE
  BY DEF Below
<1>c. Cardinality(S) \in Nat
  BY FS_CardinalityType
<1>b. ASSUME NEW j \in S
      PROVE  IsFiniteSet(Below(j)) /\ Cardinality(Below(j)) \in Nat
  <2>1. Below(j) \in SUBSET S
    OBVIOUS
  <2> HIDE DEF Below
  <2> QED BY <2>1, FS_Subset, FS_CardinalityType
<1>1. T \in SUBSET Nat
  BY <1>c
<1>2. PICK x \in T : \A y \in T : x <= y
  <2> HIDE DEF T
  <2> QED BY <1>1, LeastNat
<1>3. x \in 1..Cardinality(S) /\ \A j \in S : Cardinality(Below(j)) # x - 1
  OBVIOUS
<1>4. CASE x = 1
  <2>1. S # {}
    BY <1>c, <1>3, FS_EmptySet
  <2>2. PICK j \in S : \A i \in S : j <= i
    BY <2>1, LeastNat
  <2>3. Below(j) = {}
    <3> HIDE DEF T
    <3>1. \A i \in S : ~(i < j)
      BY <2>2
    <3> QED BY <3>1
  <2> HIDE DEF Below, T
  <2>4. Cardinality(Below(j)) = 0
    BY <2>3, FS_EmptySet
  <2> QED BY <1>3, <1>4, <2>4
<1>5. CASE x # 1
  <2>1. x - 1 \in 1..Cardinality(S) /\ ~(x <= x - 1)
    BY <1>c, <1>3, <1>5
  <2>2. x - 1 \notin T
    BY <1>2, <2>1
  <2>3. PICK l \in S : Cardinality(Below(l)) = (x - 1) - 1
    <3> HIDE DEF Below
    <3> QED BY <2>1, <2>2
  <2>4. l \notin Below(l)
    OBVIOUS
  <2> DEFINE L == Below(l) \union {l}
             U == S \ L
  <2>5. IsFiniteSet(L) /\ Cardinality(L) = x - 1
    <3> HIDE DEF Below
    <3>1. Cardinality(L) = Cardinality(Below(l)) + 1 /\ IsFiniteSet(L)
      BY <1>b, <2>4, FS_AddElement
    <3> QED BY <2>1, <2>3, <3>1, <1>c
  <2>6. U # {}
    <3> SUFFICES ASSUME U = {} PROVE FALSE
      OBVIOUS
    <3>1. L = S
      OBVIOUS
    <3> HIDE DEF L
    <3> QED BY <1>c, <1>3, <2>1, <2>5, <3>1
  <2>7. PICK j \in U : \A i \in U : j <= i
    <3>1. U \in SUBSET Nat
      OBVIOUS
    <3> HIDE DEF U
    <3> QED BY <2>6, <3>1, LeastNat
  <2>8. Below(j) = L
    <3>1. \A i \in S : i < j <=> i \in L
      <4>1. \A i \in S : i \in L <=> i <= l
        OBVIOUS
      <4>2. j \in S /\ j \notin L
        OBVIOUS
      <4>3. \A i \in S : i \notin L => j <= i
        BY <2>7
      <4>4. \A i \in S : i \in Nat
        OBVIOUS
      <4> HIDE DEF L
      <4> QED BY <4>1, <4>2, <4>3, <4>4
    <3> QED BY <3>1
  <2>9. j \in S
    OBVIOUS
  <2> HIDE DEF L, U, Below, T
  <2> QED BY <1>3, <2>5, <2>8, <2>9
<1> QED BY <1>4, <1>5

LEMMA GroupIs ==
  ASSUME Syntax, NEW m \in Controller, ~ControllerRefused(m)
  PROVE  /\ Len(In(m)) \in Nat /\ Len(In(m)) >= 3
         /\ DOMAIN Group(m) = 1..(Len(In(m)) - 3)
         /\ \A k \in DOMAIN Group(m) : Group(m)[k] = In(m)[k + 2] /\ k + 2 \in DOMAIN In(m)
<1>1. m \in Node
  BY DEF Controller
<1>2. In(m) \in Seq(Nat) /\ Len(In(m)) \in Nat /\ DOMAIN In(m) = 1..Len(In(m))
  BY <1>1, NodeShape
<1>3. Len(In(m)) >= 3
  BY <1>1, <1>2 DEF ControllerRefused
<1> DEFINE l == Len(In(m)) - 1
<1>4. l \in Int /\ 3 \in Int /\ \A i \in 3..l : In(m)[i] \in Nat
  BY <1>2, ElementOfSeq
<1>5. Group(m) = SubSeq(In(m), 3, l)
  BY DEF Group
<1>6. /\ Group(m) \in Seq(Nat)
      /\ Len(Group(m)) = IF 3 <= l THEN l - 3 + 1 ELSE 0
      /\ \A i \in 1..(l - 3 + 1) : Group(m)[i] = In(m)[3 + i - 1]
  <2> HIDE DEF l
  <2> QED BY <1>4, <1>5, SubSeqProperties
<1>7. Len(Group(m)) = Len(In(m)) - 3
  <2>1. \A a \in Nat : a >= 3 =>
          (IF 3 <= a - 1 THEN (a - 1) - 3 + 1 ELSE 0) = a - 3
    OBVIOUS
  <2>2. (IF 3 <= l THEN l - 3 + 1 ELSE 0) = Len(In(m)) - 3
    BY <1>2, <1>3, <2>1
  <2> QED BY <1>6, <2>2
<1>8. DOMAIN Group(m) = 1..(Len(In(m)) - 3)
  BY <1>6, <1>7
<1>9. \A k \in 1..(Len(In(m)) - 3) : Group(m)[k] = In(m)[k + 2] /\ k + 2 \in DOMAIN In(m)
  <2> TAKE k \in 1..(Len(In(m)) - 3)
  <2>1. k \in 1..(l - 3 + 1) /\ 3 + k - 1 = k + 2 /\ k + 2 \in 1..Len(In(m))
    BY <1>2
  <2> QED BY <1>2, <1>6, <2>1
<1> QED BY <1>2, <1>3, <1>8, <1>9

\* An accessor makes a value of the group.
LEMMA AccessorsMake ==
  ASSUME Syntax, NEW m \in Controller, ~MemRefused, NEW n \in Fns!Range(Accessors(m))
  PROVE  \E l \in DOMAIN Group(m) : n = Maker(Group(m)[l]) /\ Op(n) # "constant"
<1> DEFINE makers == [k \in DOMAIN Group(m) |-> Maker(Group(m)[k])]
           fresh  == {k \in DOMAIN makers : Op(makers[k]) # "constant"
                                            /\ \A j \in 1..k-1 : makers[j] # makers[k]}
<1>1. ~ControllerRefused(m) /\ m \in Node
  BY DEF MemRefused, Controller
<1>2. DOMAIN Group(m) = 1..(Len(In(m)) - 3) /\ Len(In(m)) \in Nat
  BY <1>1, GroupIs
<1>3. fresh \in SUBSET Nat /\ IsFiniteSet(fresh)
  <2> DEFINE D == 1..(Len(In(m)) - 3)
  <2>1. fresh \in SUBSET D /\ D \in SUBSET Nat
    BY <1>2
  <2>2. 1 \in Int /\ Len(In(m)) - 3 \in Int
    BY <1>2
  <2>3. IsFiniteSet(D)
    BY <2>2, FS_Interval
  <2> HIDE DEF fresh, D
  <2> QED BY <2>1, <2>3, FS_Subset
<1>4. Accessors(m) = [k \in 1..Cardinality(fresh) |->
         makers[Nth(fresh, k)]]
  BY DEF Accessors
<1>5. PICK k \in 1..Cardinality(fresh) :
        n = makers[Nth(fresh, k)]
  <2> HIDE DEF fresh, makers
  <2> QED BY <1>4 DEF Fns!Range
<1>6. PICK l \in fresh : n = makers[l]
  <2> HIDE DEF fresh, makers
  <2>1. \E j \in fresh : Cardinality({i \in fresh : i < j}) = k - 1
    BY <1>3, Ranked
  <2> QED BY <1>5, <2>1 DEF Nth
<1> QED BY <1>6

LEMMA AccessorsAre ==
  ASSUME Syntax, NEW m \in Controller, ~MemRefused, NEW n \in Fns!Range(Accessors(m))
  PROVE  n \in Node /\ Op(n) \in {"load", "store"}
<1>1. ~ControllerRefused(m)
  BY DEF MemRefused
<1>2. PICK l \in DOMAIN Group(m) : n = Maker(Group(m)[l]) /\ Op(n) # "constant"
  BY AccessorsMake
<1>3. Group(m)[l] \in Fns!Range(Group(m))
  BY <1>2 DEF Fns!Range
<1>4. n # NoNode /\ Op(n) \in {"constant", "load", "store"}
  BY <1>1, <1>2, <1>3 DEF ControllerRefused, MisGrouped
<1>5. Group(m)[l] \in Results
  BY <1>2, <1>4 DEF Maker
<1> QED BY <1>2, <1>4, <1>5, MakerMakes

\* A value a memory absorbed is read by its controller, or by a load, only.
LEMMA AbsorbedReaders ==
  ASSUME WellTyped, TokenViolations = {}, ~MemRefused, \A n \in Node : ~NoRule(n) /\ Typed(n),
         NEW v \in AbsorbedByMemory, NEW u \in Uses(v)
  PROVE  Op(u[1]) \in {"mem_controller", "load"}
<1>1. Syntax
  BY DEF WellTyped
<1>2. PICK m \in Controller :
        \/ \E n \in Fns!Range(Accessors(m)) : v = Out(n)[1]
        \/ \E n \in Stores(m) : v = Out(n)[2]
        \/ \E n \in Loads(m) : v = In(n)[2]
  BY DEF AbsorbedByMemory
<1>3. ASSUME NEW n \in Fns!Range(Accessors(m))
      PROVE  /\ n \in Node /\ Op(n) \in {"load", "store"}
             /\ \A r \in {1} \union IF Op(n) = "store" THEN {2} ELSE {} :
                  \A w \in Uses(Out(n)[r]) : Op(w[1]) = "mem_controller"
  <2>1. n \in Node /\ Op(n) \in {"load", "store"}
    BY <1>1, AccessorsAre
  <2>2. Typed(n)
    BY <2>1
  <2> QED BY <2>1, <2>2 DEF Typed, FusableOps, DelayBearing
<1>4. CASE \E n \in Fns!Range(Accessors(m)) : v = Out(n)[1]
  BY <1>3, <1>4
<1>5. CASE \E n \in Stores(m) : v = Out(n)[2]
  BY <1>3, <1>5 DEF Stores
<1>6. CASE \E n \in Loads(m) : v = In(n)[2]
  <2>1. PICK n \in Loads(m) : v = In(n)[2]
    BY <1>6
  <2>2. n \in Node /\ Op(n) = "load"
    BY <1>3 DEF Loads
  <2>3. Len(In(n)) = 2 /\ Maker(v) = m
    BY <2>1 DEF MemRefused, ControllerRefused, Unclaimed
  <2>4. 2 \in DOMAIN In(n)
    BY <1>1, <2>2, <2>3, NodeShape
  <2>5. m \in Node /\ m # NoNode
    <3>1. Node = 1..Len(prog.nodes)
      BY <1>1 DEF Syntax, Node
    <3> QED BY <3>1 DEF Controller, NoNode
  <2>6. v \in Value
    BY <2>3, <2>5 DEF Maker, Value
  <2>7. <<n, 2>> \in Uses(v)
    BY <2>1, <2>2, <2>4, UsedThere
  <2>8. u = <<n, 2>>
    BY <1>1, <2>6, <2>7, OneReader
  <2> QED BY <2>2, <2>8
<1> QED BY <1>2, <1>4, <1>5, <1>6

-----------------------------------------------------------------------------
(* What fusion takes away.                                                 *)

Folds(c, s) == /\ c \in Node /\ Op(c) = "constant" /\ DOMAIN In(c) = {1}
               /\ Maker(In(c)[1]) = s /\ In(c)[1] \in Results
               /\ s \in Node /\ Op(s) = "source" /\ DOMAIN In(s) = {}

Buried(n, R) == /\ R \in regions /\ n \in R
                /\ Uses(Out(n)[1]) # {}
                /\ \A u \in Uses(Out(n)[1]) : u[1] \in R

LEMMA FoldsWell ==
  ASSUME WellTyped, \A n \in Node : Typed(n), NEW c \in AbsorbedConstants
  PROVE  Folds(c, Maker(In(c)[1]))
<1> DEFINE s == Maker(In(c)[1])
<1>1. Syntax
  BY DEF WellTyped
<1>2. c \in Node /\ Op(c) = "constant" /\ s # NoNode /\ Op(s) = "source"
  BY DEF AbsorbedConstants, Absorbable
<1>3. In(c)[1] \in Results /\ s \in Node
  BY <1>2, MakerMakes DEF Maker
<1> HIDE DEF s
<1>4. Typed(c) /\ Typed(s)
  BY <1>2, <1>3
<1>5. Len(In(c)) = 1
  BY <1>2, <1>4 DEF Typed, FusableOps, DelayBearing
<1>6. DOMAIN In(c) = {1}
  BY <1>1, <1>2, <1>5, NodeShape
<1>7. In(s) = <<>>
  BY <1>2, <1>4 DEF Typed, FusableOps, DelayBearing
<1>8. DOMAIN In(s) = {}
  <2>1. Len(<<>>) = 0 /\ DOMAIN <<>> = 1..Len(<<>>)
    OBVIOUS
  <2> QED BY <1>7, <2>1
<1> QED BY <1>2, <1>3, <1>6, <1>8 DEF Folds, s

LEMMA InteriorBuried ==
  ASSUME WellTyped, Partition, ~FusionRefused, NEW R \in regions, NEW n \in R \ {Anchor(R)}
  PROVE  Buried(n, R)
<1>1. Syntax
  BY DEF WellTyped
<1>2. Cardinality(Sinks(R)) = 1 /\ R \subseteq Fusable
  BY DEF FusionRefused, Partition
<1>3. IsFiniteSet(Sinks(R))
  <2>1. Sinks(R) \in SUBSET Node
    BY <1>2 DEF Sinks, Fusable
  <2> QED BY <1>1, <2>1, NodeFinite, FS_Subset
<1>4. PICK x : Sinks(R) = {x}
  BY <1>2, <1>3, FS_Singleton
<1>5. n \notin Sinks(R)
  BY <1>4 DEF Anchor
<1> QED BY <1>5 DEF Sinks, Buried

\* Nodes that become no cell: constants folded away, their sources, and all of a
\* region but its result.
LEMMA SkippedAre ==
  ASSUME WellTyped, Partition, prog.fuse => ~FusionRefused, \A n \in Node : Typed(n),
         NEW n \in Skipped
  PROVE  \/ \E s : Folds(n, s)
         \/ \E c : Folds(c, n)
         \/ \E R : Buried(n, R)
<1>1. prog.fuse /\ (n \in AbsorbedNodes \/ n \in Interior)
  BY DEF Skipped
<1>2. CASE n \in AbsorbedConstants
  BY <1>2, FoldsWell
<1>3. CASE \E c \in AbsorbedConstants : n = Maker(In(c)[1])
  BY <1>3, FoldsWell
<1>4. CASE n \in Interior
  <2>1. PICK R \in regions : n \in R \ {Anchor(R)}
    BY <1>4 DEF Interior
  <2> QED BY <1>1, <2>1, InteriorBuried
<1> QED BY <1>1, <1>2, <1>3, <1>4 DEF AbsorbedNodes

\* What such a node makes.
LEMMA DeadMade ==
  ASSUME WellTyped, Partition, \A n \in Node : Typed(n), NEW n,
         \/ \E s : Folds(n, s)
         \/ \E c : Folds(c, n)
         \/ \E R : Buried(n, R)
  PROVE  n \in Node /\ 1 \in DOMAIN Out(n) /\ Out(n)[1] \in Results /\ Maker(Out(n)[1]) = n
<1>1. Syntax /\ SSA
  BY DEF WellTyped
<1>2. n \in Node /\ 1 \in DOMAIN Out(n)
  <2>1. CASE Op(n) \in {"constant", "source"} /\ n \in Node
    <3>1. Len(Out(n)) = 1
      BY <2>1 DEF Typed, Makes, FusableOps, DelayBearing
    <3> QED BY <1>1, <2>1, <3>1, NodeShape
  <2>2. CASE \E R : Buried(n, R)
    <3>1. n \in Fusable
      BY <2>2 DEF Buried, Partition
    <3> QED BY <3>1, FusableShape
  <2> QED BY <2>1, <2>2 DEF Folds
<1> QED BY <1>1, <1>2, ResultOf, MadeBy

-----------------------------------------------------------------------------
(* Rule 1 puts no link on a channel that is gone.                          *)

\* Every operation has its rule, and every value its width.
Resolved == /\ \A n \in Node : ~NoRule(n) /\ Typed(n)
            /\ \A v \in Results : ch[v] = prog.types[v]

LEMMA BearingReader ==
  ASSUME WellTyped, Partition, NEW v \in BearingInputs
  PROVE  \/ \E u \in Uses(v) : u[1] \in Bearing
         \/ prog.fuse /\ \E R \in regions : Maker(v) \notin R /\ \E u \in Uses(v) : u[1] \in R
<1>1. CASE \E n \in Bearing : v \in Fns!Range(In(n))
  <2>1. PICK n \in Bearing : v \in Fns!Range(In(n))
    BY <1>1
  <2>2. PICK k \in DOMAIN In(n) : v = In(n)[k]
    BY <2>1 DEF Fns!Range
  <2>3. n \in Node
    BY DEF Bearing
  <2>4. <<n, k>> \in Uses(v)
    BY <2>2, <2>3, UsedThere
  <2> QED BY <2>4
<1>2. CASE prog.fuse /\ \E R \in regions : v \in ExtInputs(R)
  <2>1. PICK R \in regions : v \in ExtInputs(R)
    BY <1>2
  <2>2. PICK p \in R \X (1..3) : /\ p[2] \in Port(p[1]) /\ v = In(p[1])[p[2]]
                                 /\ Maker(In(p[1])[p[2]]) \notin R
    BY <2>1 DEF ExtInputs
  <2>3. p[1] \in Fusable
    BY DEF Partition
  <2>4. <<p[1], p[2]>> \in Uses(v) /\ p[1] \in R
    BY <2>2, <2>3, FusableShape, UsedThere
  <2> QED BY <1>2, <2>2, <2>4
<1>3. \/ v \in UNION {Fns!Range(In(n)) : n \in Bearing}
      \/ prog.fuse /\ v \in UNION {ExtInputs(R) : R \in regions}
  BY DEF BearingInputs
<1>4. CASE v \in UNION {Fns!Range(In(n)) : n \in Bearing}
  BY <1>1, <1>4
<1>5. CASE prog.fuse /\ v \in UNION {ExtInputs(R) : R \in regions}
  BY <1>2, <1>5
<1> QED BY <1>3, <1>4, <1>5

LEMMA RuleOneKept ==
  ASSUME WellTyped, Partition, Resolved, ~MemRefused, prog.fuse => ~FusionRefused,
         TokenViolations = {}, NEW v \in MeasurabilitySites
  PROVE  v \notin AbsorbedByMemory \union DeadValues
<1>1. Syntax /\ SSA /\ v \in BearingInputs
  BY DEF WellTyped, MeasurabilitySites
<1>2. ASSUME v \in AbsorbedByMemory
      PROVE  FALSE
  <2>1. \A u \in Uses(v) : Op(u[1]) \in {"mem_controller", "load"}
    BY <1>2, AbsorbedReaders DEF Resolved
  <2>2. \A n \in Bearing : Op(n) \notin {"mem_controller", "load"}
    BY DEF Bearing, DelayBearing
  <2>3. \A R \in regions : \A n \in R : Op(n) \notin {"mem_controller", "load"}
    BY DEF Partition, Fusable, FusableOps, DelayBearing
  <2> QED BY <1>1, <2>1, <2>2, <2>3, BearingReader
<1>3. ASSUME v \in DeadValues
      PROVE  FALSE
  <2>1. PICK n \in Skipped : v = Out(n)[1]
    BY <1>3 DEF DeadValues
  <2>2. \A m \in Node : Typed(m)
    BY DEF Resolved
  <2>3. \/ \E s : Folds(n, s)
        \/ \E c : Folds(c, n)
        \/ \E R : Buried(n, R)
    BY <2>2, SkippedAre
  <2>4. n \in Node /\ 1 \in DOMAIN Out(n) /\ v \in Results /\ Maker(v) = n
    BY <2>1, <2>2, <2>3, DeadMade
  <2>5. CASE \E s : Folds(n, s)
    <3>1. n # NoNode
      BY <1>1, <2>4 DEF Syntax, Node, NoNode
    <3> QED BY <2>4, <2>5, <3>1 DEF MeasurabilitySites, Folds
  <2>6. CASE \E c : Folds(c, n)
    <3>1. Op(n) = "source" /\ Typed(n)
      BY <2>2, <2>4, <2>6 DEF Folds
    <3>2. Makes(n, <<Control>>)
      BY <3>1 DEF Typed, FusableOps, DelayBearing
    <3>3. TypeOf(v) = Control
      BY <2>1, <3>2 DEF Makes
    <3>4. ch[v] = Control
      BY <1>1, <2>4, <3>3 DEF Resolved, TypeOf, SSA
    <3> QED BY <3>4 DEF MeasurabilitySites
  <2>7. CASE \E R : Buried(n, R)
    <3>1. PICK R \in regions : n \in R /\ \A u \in Uses(v) : u[1] \in R
      BY <2>1, <2>7 DEF Buried
    <3>2. prog.fuse
      BY DEF Skipped
    <3>3. \A m \in R : m \notin Bearing
      BY <3>1, <3>2 DEF Partition, Fusable, Bearing, FusableOps, DelayBearing
    <3>4. \A S \in regions : \A u \in Uses(v) : u[1] \in S => S = R
      BY <3>1 DEF Partition
    <3> QED BY <1>1, <2>4, <3>1, <3>3, <3>4, BearingReader
  <2> QED BY <2>3, <2>5, <2>6, <2>7
<1> QED BY <1>2, <1>3

-----------------------------------------------------------------------------
(* Rule 2 puts none there either.                                          *)

LEMMA SameRing ==
  /\ Ring!Cut <=> RP!Cut
  /\ Ring!CutDone <=> RP!CutDone
  /\ Ring!Deepen <=> RP!Deepen
  /\ Ring!DeepenStop <=> RP!DeepenStop
  /\ Ring!SimpleCycles(UNION Ring!Components(DOMAIN wires)) =
       RP!SimpleCycles(UNION RP!Components(RP!Edge))
  /\ linked = RP!linked
<1>1. linked = RP!linked /\ Ring!linked = RP!linked
  BY DEF linked, Ring!linked, RP!linked, Ring!Channel, RP!Channel
<1>c. \A E : Ring!Cardinality(E) = RP!Cardinality(E)
  BY DEF Ring!Cardinality, RP!Cardinality
<1>e. Ring!Node = RP!Node /\ Ring!Edge = RP!Edge
  BY DEF Ring!Edge, RP!Edge, Ring!Node, RP!Node
<1>o. \A e : Ring!Producer(e) = RP!Producer(e) /\ Ring!Consumer(e) = RP!Consumer(e)
  BY DEF Ring!Producer, RP!Producer, Ring!Consumer, RP!Consumer
<1>r. \A E, n : Ring!Reach(E, n) = RP!Reach(E, n)
  BY <1>c DEF Ring!Reach, RP!Reach, Ring!Onward, RP!Onward, Ring!Producer, RP!Producer, Ring!Consumer, RP!Consumer
<1>k. \A E : Ring!Components(E) = RP!Components(E)
  BY <1>r, <1>e, <1>o DEF Ring!Components, RP!Components
<1>2. Ring!Live = RP!Live
  BY <1>k, <1>1, <1>e DEF Ring!Live, RP!Live, Ring!Bare, RP!Bare
<1>3. \A E : Ring!Preferred(E) = RP!Preferred(E)
  BY DEF Ring!Preferred, RP!Preferred, Ring!Consumer, RP!Consumer
<1>4. \A S : Ring!Sets!Choices(S) = RP!Sets!Choices(S)
  BY DEF Ring!Sets!Choices, RP!Sets!Choices, Ring!Sets!Range, RP!Sets!Range
<1>5. Ring!Cut <=> RP!Cut
  <2>1. \A L : Ring!Sets!Choices({Ring!Preferred(E) : E \in L}) = RP!Sets!Choices({RP!Preferred(E) : E \in L})
    <3> TAKE L
    <3>1. {Ring!Preferred(E) : E \in L} = {RP!Preferred(E) : E \in L}
      BY <1>3
    <3> QED BY <1>4, <3>1
  <2> DEFINE P(L) == {RP!Preferred(E) : E \in L}
             D(S) == \E picks \in RP!Sets!Choices(S) :
                       depth' = [e \in RP!Channel |-> IF e \in picks THEN 1 ELSE depth[e]]
  <2>2. RP!Cut <=> /\ ringpc = "cut" /\ RP!Live # {} /\ D(P(RP!Live))
                   /\ UNCHANGED <<RP!input, ringpc, round>>
    <3> HIDE DEF D
    <3> QED BY DEF RP!Cut, D
  <2>3. Ring!Cut <=> /\ ringpc = "cut" /\ RP!Live # {} /\ D(P(RP!Live))
                     /\ UNCHANGED <<RP!input, ringpc, round>>
    <3>1. \A L : {Ring!Preferred(E) : E \in L} = P(L)
      BY <1>3
    <3>2. Ring!Channel = RP!Channel
      BY DEF Ring!Channel, RP!Channel
    <3>3. Ring!Sets!Choices({Ring!Preferred(E) : E \in Ring!Live}) = RP!Sets!Choices(P(RP!Live))
      BY <1>2, <1>4, <3>1
    <3>4. Ring!Cut <=>
            /\ ringpc = "cut" /\ Ring!Live # {}
            /\ \E picks \in Ring!Sets!Choices({Ring!Preferred(E) : E \in Ring!Live}) :
                 depth' = [e \in Ring!Channel |-> IF e \in picks THEN 1 ELSE depth[e]]
            /\ UNCHANGED <<Ring!input, ringpc, round>>
      BY DEF Ring!Cut
    <3>5. (UNCHANGED Ring!input) <=> UNCHANGED RP!input
      BY DEF Ring!input, RP!input
    <3> HIDE DEF P
    <3> QED BY <1>2, <3>2, <3>3, <3>4, <3>5
  <2> QED BY <2>2, <2>3
<1>6. Ring!CutDone <=> RP!CutDone
  BY <1>2 DEF Ring!CutDone, RP!CutDone, Ring!input, RP!input
<1>7. \A C : /\ Ring!Stages(C) = RP!Stages(C)
             /\ Ring!Missing(C) = RP!Missing(C)
             /\ Ring!Short(C) <=> RP!Short(C)
  BY <1>c DEF Ring!Stages, RP!Stages, Ring!StagesOn, RP!StagesOn, Ring!Missing, RP!Missing,
              Ring!Short, RP!Short, Ring!RingMinStages, RP!RingMinStages
<1>8. Ring!Lightest = RP!Lightest
  BY <1>7 DEF Ring!Lightest, RP!Lightest
<1>9. Ring!Rounds = RP!Rounds
  BY <1>c, <1>e DEF Ring!Rounds, RP!Rounds
<1>10. Ring!Deepenable <=> RP!Deepenable
  BY <1>1, <1>7, <1>8, <1>9 DEF Ring!Deepenable, RP!Deepenable
<1>11. Ring!Deepen <=> RP!Deepen
  BY <1>1, <1>3, <1>7, <1>8, <1>10 DEF Ring!Deepen, RP!Deepen, Ring!input, RP!input
<1>12. Ring!Floored <=> RP!Floored
  BY <1>7, <1>8 DEF Ring!Floored, RP!Floored
<1>13. Ring!DeepenStop <=> RP!DeepenStop
  BY <1>9, <1>10, <1>12 DEF Ring!DeepenStop, RP!DeepenStop, Ring!input, RP!input
<1>14. \A E : Ring!SimpleCycles(E) = RP!SimpleCycles(E)
  BY DEF Ring!SimpleCycles, RP!SimpleCycles, Ring!Endless, RP!Endless, Ring!Producer, RP!Producer,
         Ring!Consumer, RP!Consumer
<1>15. DOMAIN wires = RP!Edge
  BY DEF RP!Edge
<1> QED BY <1>1, <1>5, <1>6, <1>11, <1>13, <1>14, <1>15, <1>k

-----------------------------------------------------------------------------
(* The graph the two passes work on.                                       *)

\* Built and complete: the memories and the regions were accepted.
Graphed == /\ Resolved /\ Partition
           /\ ~MemRefused /\ (prog.fuse => ~FusionRefused)
           /\ edges = NodeGraph
           /\ wires = Fns!Restrict(NodeGraph, DOMAIN NodeGraph \ AbsorbedByMemory)

LEMMA SameFinite == \A S : IsFiniteSet(S) <=> RP!IsFiniteSet(S)
BY DEF IsFiniteSet, RP!IsFiniteSet

LEMMA WiresAre ==
  ASSUME WellTyped, wires = Fns!Restrict(NodeGraph, DOMAIN NodeGraph \ AbsorbedByMemory)
  PROVE  /\ IsFiniteSet(RP!Edge) /\ RP!Edge \subseteq Results
         /\ wires \in [RP!Edge -> RP!Node \X RP!Node]
         /\ \A v \in RP!Edge : /\ v \notin AbsorbedByMemory
                               /\ RP!Producer(v) = Maker(v)
                               /\ \E u \in Uses(v) : RP!Consumer(v) = u[1]
<1>1. Syntax
  BY DEF WellTyped
<1>2. RP!Edge = DOMAIN NodeGraph \ AbsorbedByMemory /\ DOMAIN NodeGraph = {r \in Results : Uses(r) # {}}
  BY DEF RP!Edge, Fns!Restrict, NodeGraph
<1>3. RP!Edge \in SUBSET Results
  BY <1>2
<1>4. IsFiniteSet(RP!Edge)
  BY <1>1, <1>3, ResultsFinite, FS_Subset
<1>5. ASSUME NEW v \in RP!Edge
      PROVE  /\ wires[v] = <<RP!Producer(v), RP!Consumer(v)>>
             /\ RP!Producer(v) = Maker(v)
             /\ \E u \in Uses(v) : RP!Consumer(v) = u[1]
  <2> DEFINE q == CHOOSE u \in Uses(v) : TRUE
  <2>1. wires[v] = <<Maker(v), q[1]>> /\ q \in Uses(v)
    BY <1>2 DEF Fns!Restrict, NodeGraph
  <2>2. RP!Producer(v) = wires[v][1] /\ RP!Consumer(v) = wires[v][2]
    BY DEF RP!Producer, RP!Consumer
  <2> HIDE DEF q
  <2>3. RP!Producer(v) = Maker(v) /\ RP!Consumer(v) = q[1]
    BY <2>1, <2>2
  <2>4. wires[v] = <<RP!Producer(v), RP!Consumer(v)>>
    BY <2>1, <2>3
  <2> QED BY <2>1, <2>3, <2>4
<1>6. \A v \in RP!Edge : wires[v] \in RP!Node \X RP!Node
  <2> SUFFICES ASSUME NEW v \in RP!Edge PROVE wires[v] \in RP!Node \X RP!Node
    OBVIOUS
  <2>1. wires[v][1] \in RP!Node /\ wires[v][2] \in RP!Node
    BY DEF RP!Node, RP!Edge
  <2>2. wires[v] = <<wires[v][1], wires[v][2]>>
    BY <1>5 DEF RP!Producer, RP!Consumer
  <2> QED BY <2>1, <2>2
<1>7. wires \in [RP!Edge -> RP!Node \X RP!Node]
  <2>1. wires = [v \in RP!Edge |-> wires[v]]
    BY <1>2 DEF RP!Edge, Fns!Restrict
  <2> QED BY <1>6, <2>1
<1> QED BY <1>2, <1>3, <1>4, <1>5, <1>7

-----------------------------------------------------------------------------
(* Rule 2 puts no link on a channel that is gone either, unless a cycle    *)
(* has no header.                                                          *)

LEMMA CutKept ==
  ASSUME WellTyped, Graphed, ~Unheaded, NEW E \in RP!Live, NEW e \in RP!Preferred(E)
  PROVE  e \in RP!Edge /\ e \notin AbsorbedByMemory \union DeadValues
<1>1. Syntax /\ SSA
  BY DEF WellTyped
<1>2. /\ IsFiniteSet(RP!Edge) /\ RP!Edge \subseteq Results
      /\ \A v \in RP!Edge : /\ v \notin AbsorbedByMemory
                            /\ RP!Producer(v) = Maker(v)
                            /\ \E u \in Uses(v) : RP!Consumer(v) = u[1]
  BY WiresAre DEF Graphed
<1>3. RP!Bare \in SUBSET RP!Edge /\ RP!IsFiniteSet(RP!Bare)
  <2>1. RP!Bare \in SUBSET RP!Edge
    BY DEF RP!Bare
  <2> QED BY <1>2, <2>1, FS_Subset, SameFinite
<1>4. E \in RP!Components(RP!Bare) /\ E # {}
  BY DEF RP!Live
<1>5. E \subseteq RP!Edge /\ RP!Endless(E)
  BY <1>3, <1>4, RP!LiveIsEndless
<1>6. \A v \in E : \E w \in E : RP!Consumer(w) = RP!Producer(v)
  BY <1>3, <1>4, RP!LivePredecessor
<1>7. e \in E
  BY DEF RP!Preferred
<1>8. ASSUME e \in DeadValues
      PROVE  FALSE
  <2>1. PICK n \in Skipped : e = Out(n)[1]
    BY <1>8 DEF DeadValues
  <2>2. \A m \in Node : Typed(m)
    BY DEF Graphed, Resolved
  <2>3. \/ \E s : Folds(n, s)
        \/ \E c : Folds(c, n)
        \/ \E R : Buried(n, R)
    BY <2>2, SkippedAre DEF Graphed
  <2>4. n \in Node /\ RP!Producer(e) = n
    BY <1>2, <1>5, <1>7, <2>1, <2>2, <2>3, DeadMade DEF Graphed
  <2>5. PICK f \in E : RP!Consumer(f) = n
    BY <1>6, <1>7, <2>4
  <2>6. PICK u \in Uses(f) : n = u[1]
    BY <1>2, <1>5, <2>5
  <2>7. u[2] \in DOMAIN In(n) /\ In(n)[u[2]] = f
    BY <2>6, UseIs
  <2>8. CASE \E c : Folds(c, n)
    BY <2>7, <2>8 DEF Folds
  <2>9. CASE \E s : Folds(n, s)
    <3>1. PICK s : Folds(n, s)
      BY <2>9
    <3>2. f = In(n)[1] /\ RP!Producer(f) = s
      BY <1>2, <1>5, <2>7, <3>1 DEF Folds
    <3>3. PICK g \in E : RP!Consumer(g) = s
      BY <1>6, <3>2
    <3>4. PICK w \in Uses(g) : s = w[1]
      BY <1>2, <1>5, <3>3
    <3>5. w[2] \in DOMAIN In(s)
      BY <3>4, UseIs
    <3> QED BY <3>1, <3>5 DEF Folds
  <2>10. CASE \E R : Buried(n, R)
    <3>1. RP!Consumer(e) \notin Headers
      <4>1. PICK R : Buried(n, R)
        BY <2>10
      <4>2. PICK x \in Uses(e) : RP!Consumer(e) = x[1]
        BY <1>2, <1>5, <1>7
      <4>3. x[1] \in Fusable
        BY <2>1, <4>1, <4>2 DEF Buried, Graphed, Partition
      <4> QED BY <4>2, <4>3, FusableShape
    <3>2. \A v \in E : RP!Consumer(v) \notin Headers
      BY <3>1 DEF RP!Preferred
    <3>3. ASSUME NEW v \in E
          PROVE  \E x \in Uses(v) : x[1] \notin Headers /\ Fns!Range(Out(x[1])) \intersect E # {}
      <4>1. PICK x \in Uses(v) : RP!Consumer(v) = x[1]
        BY <1>2, <1>5
      <4>2. PICK w \in E : RP!Producer(w) = RP!Consumer(v)
        BY <1>5 DEF RP!Endless
      <4>3. w \in Results /\ Maker(w) = x[1]
        BY <1>2, <1>5, <4>1, <4>2
      <4>4. w \in Fns!Range(Out(x[1]))
        BY <4>3, MakerMakes DEF Fns!Range
      <4> QED BY <3>2, <4>1, <4>4
    <3>4. E \in SUBSET Results
      BY <1>2, <1>5
    <3> QED BY <1>4, <3>3, <3>4 DEF Unheaded
  <2> QED BY <2>3, <2>8, <2>9, <2>10
<1> QED BY <1>2, <1>5, <1>7, <1>8

-----------------------------------------------------------------------------
(* What holds between the stages.                                          *)

GraphPart ==
  /\ at \notin {"arguments", "widths"} => WidthsDone
  /\ at \notin {"arguments", "widths", "memory"} =>
       /\ ~MemRefused
       /\ edges = NodeGraph
       /\ wires = Fns!Restrict(NodeGraph, DOMAIN NodeGraph \ AbsorbedByMemory)
  /\ at \notin {"arguments", "widths", "memory", "fusion"} => (prog.fuse => ~FusionRefused)

RingPart ==
  /\ at \in {"arguments", "widths", "memory", "fusion", "links"} => ringpc = "cut" /\ round = 0
  /\ at \in {"cut", "depths"} => RP!IInv

\* "check it rather than trust the argument that it does": the argument.
LeakPart == at = "cut" => TokenViolations # {} \/ Unheaded \/ Leaked = {}

CompInv == /\ WellTyped /\ WInv /\ FusionInv
           /\ GraphPart /\ RingPart /\ LeakPart
           /\ RefusedForCause

LEMMA CompGraphed ==
  ASSUME CompInv, at \notin {"arguments", "widths", "memory", "fusion"}
  PROVE  Graphed
<1>1. Resolved
  BY EndSettles DEF CompInv, GraphPart, Resolved
<1> QED BY <1>1 DEF CompInv, GraphPart, Graphed, FusionInv

LEMMA FoldFrame ==
  ASSUME prog' = prog
  PROVE  \A R : Unfolded(R)' = Unfolded(R) /\ ExtInputs(R)' = ExtInputs(R)
<1>1. Fusable' = Fusable
  BY ProgFrame DEF Fusable
<1>2. \A n : Port(n)' = Port(n)
  BY DEF Port, Op
<1>3. \A c : Absorbable(c)' = Absorbable(c)
  BY <1>1, <1>2, ProgFrame, UsesFrame DEF Absorbable, NoNode
<1>4. AbsorbedConstants' = AbsorbedConstants
  BY <1>3, ProgFrame DEF AbsorbedConstants
<1>5. Folded' = Folded
  BY <1>4, ProgFrame, UsesFrame DEF Folded
<1>6. \A R : Unfolded(R)' = Unfolded(R)
  <2> TAKE R
  <2>1. {p \in R \X (1..3) : p[2] \in Port(p[1]) /\ Maker(In(p[1])[p[2]]) \notin R}'
          = {p \in R \X (1..3) : p[2] \in Port(p[1]) /\ Maker(In(p[1])[p[2]]) \notin R}
    BY <1>2, ProgFrame, UsesFrame
  <2> QED BY <1>5, <2>1 DEF Unfolded
<1>7. \A R : ExtInputs(R)' = ExtInputs(R)
  BY <1>2, <1>5, <1>6, ProgFrame, UsesFrame DEF ExtInputs
<1> QED BY <1>6, <1>7

\* A step that leaves the function, its widths and its regions alone.
FrontSame == UNCHANGED <<prog, widths, fusion>>

LEMMA FrontFrame ==
  ASSUME FrontSame
  PROVE  /\ WellTyped' = WellTyped /\ (WidthsDone' <=> WidthsDone) /\ (MemRefused' <=> MemRefused)
         /\ NodeGraph' = NodeGraph /\ AbsorbedByMemory' = AbsorbedByMemory
         /\ (FusionRefused' <=> FusionRefused) /\ prog' = prog
         /\ TokenViolations' = TokenViolations /\ (Unheaded' <=> Unheaded)
         /\ (Underivable' <=> Underivable)
         /\ Node' = Node /\ \A n : NoRule(n)' <=> NoRule(n)
         /\ DeadValues' = DeadValues /\ MeasurabilitySites' = MeasurabilitySites
         /\ Headers' = Headers
<1>1. prog' = prog /\ ch' = ch /\ pending' = pending /\ deferred' = deferred /\ regions' = regions
  BY DEF FrontSame, widths, fusion
<1>2. NodeGraph' = NodeGraph
  BY <1>1 DEF NodeGraph, Uses, Maker, Results, Node, In, Out, NoNode, Fns!Range
<1>3. FusionRefused' <=> FusionRefused
  BY <1>1, FusionFrame, ProgFrame DEF FusionRefused
<1>4. Underivable' <=> Underivable
  BY <1>1, ProgFrame DEF Underivable
<1>5. Headers' = Headers
  BY <1>1, ProgFrame DEF Headers
<1>6. MeasurabilitySites' = MeasurabilitySites
  <2>1. Bearing' = Bearing
    BY <1>1, ProgFrame DEF Bearing
  <2>2. \A R : ExtInputs(R)' = ExtInputs(R)
    BY <1>1, FoldFrame
  <2>3. BearingInputs' = BearingInputs
    BY <1>1, <2>1, <2>2, ProgFrame DEF BearingInputs
  <2> QED BY <1>1, <2>3, ProgFrame, UsesFrame DEF MeasurabilitySites, NoNode
<1>7. WidthsDone' <=> WidthsDone
  BY <1>1 DEF WidthsDone
<1> QED BY <1>1, <1>2, <1>3, <1>4, <1>5, <1>6, <1>7, TypedFrame, MemoryFrame, UsesFrame, ProgFrame, DeadFrame

\* What such a step leaves to show of the front stages' invariants.
LEMMA FrontKept ==
  ASSUME CompInv, FrontSame
  PROVE  WellTyped' /\ WInv' /\ FusionInv'
<1>1. prog' = prog /\ UNCHANGED widths /\ UNCHANGED fusion
  BY DEF FrontSame
<1> QED BY <1>1, FrontFrame, WidthsStutter, FusionStutter DEF CompInv

\* The two passes, in a step that takes none of theirs.
LEMMA RingKept ==
  ASSUME RP!IInv, FrontSame, UNCHANGED storage
  PROVE  RP!IInv'
<1>1. UNCHANGED RP!vars
  BY FrontFrame DEF storage, RP!vars, RP!input
<1> QED BY <1>1, RP!StutterStep

\* Storage, in a step that leaves it alone.
LEMMA LeakFrame ==
  ASSUME FrontSame, depth' = depth
  PROVE  Leaked' = Leaked
<1>1. linked' = linked
  BY DEF linked, Ring!linked, Ring!Channel
<1> QED BY <1>1, FrontFrame DEF Leaked

LEMMA CauseKept ==
  ASSUME RefusedForCause, FrontSame, at' = at, state' = state
  PROVE  RefusedForCause'
BY FrontFrame DEF RefusedForCause

LEMMA CompStutter ==
  ASSUME CompInv, UNCHANGED vars
  PROVE  CompInv'
<1>1. FrontSame /\ UNCHANGED storage /\ at' = at /\ state' = state
  BY DEF vars, FrontSame
<1>2. edges' = edges /\ wires' = wires /\ ringpc' = ringpc /\ round' = round /\ depth' = depth
  BY <1>1 DEF storage
<1>3. GraphPart'
  BY <1>1, <1>2, FrontFrame DEF CompInv, GraphPart
<1>4. RingPart'
  BY <1>1, <1>2, RingKept DEF CompInv, RingPart
<1>5. LeakPart'
  BY <1>1, <1>2, FrontFrame, LeakFrame DEF CompInv, LeakPart
<1>6. RefusedForCause'
  BY <1>1, CauseKept DEF CompInv
<1> QED BY <1>1, <1>3, <1>4, <1>5, <1>6, FrontKept DEF CompInv

-----------------------------------------------------------------------------
(* The stages, one at a time.                                              *)

LEMMA CompBegin ==
  ASSUME WellTyped, StagesInit
  PROVE  CompInv
<1>1. WidthsInit /\ FusionInit /\ StorageInit /\ at = "arguments" /\ state = "running"
  BY DEF StagesInit
<1>2. WInv /\ FusionInv
  BY <1>1, WidthsBegin, FusionBegin
<1>3. GraphPart /\ RingPart /\ LeakPart /\ RefusedForCause
  BY <1>1 DEF GraphPart, RingPart, LeakPart, RefusedForCause, StorageInit
<1> QED BY <1>2, <1>3 DEF CompInv

LEMMA ArgumentsKeep ==
  ASSUME CompInv, Arguments
  PROVE  CompInv'
<1>1. /\ FrontSame /\ UNCHANGED storage /\ at = "arguments"
      /\ \/ at' = "arguments"
         \/ at' = "widths" /\ state' = "running"
  BY DEF Arguments, Running, Pass, FrontSame
<1>2. ringpc' = ringpc /\ round' = round
  BY <1>1 DEF storage
<1>3. GraphPart' /\ RingPart' /\ LeakPart'
  BY <1>1, <1>2 DEF CompInv, GraphPart, RingPart, LeakPart
<1>4. RefusedForCause'
  BY <1>1 DEF RefusedForCause
<1> QED BY <1>1, <1>3, <1>4, FrontKept DEF CompInv

LEMMA WidthStepKeeps ==
  ASSUME CompInv, WidthStep
  PROVE  CompInv'
<1>1. /\ Resolve \/ Defer \/ Sweep
      /\ prog' = prog /\ UNCHANGED fusion /\ UNCHANGED storage
      /\ at = "widths" /\ at' = "widths" /\ state' = "running"
  BY DEF WidthStep, Running
<1>2. WInv'
  BY <1>1, ResolveStep, DeferStep, SweepStep DEF CompInv
<1>3. FusionInv'
  BY <1>1, FusionStutter DEF CompInv
<1>4. ringpc' = ringpc /\ round' = round
  BY <1>1 DEF storage
<1>5. GraphPart' /\ RingPart' /\ LeakPart'
  BY <1>1, <1>4 DEF CompInv, GraphPart, RingPart, LeakPart
<1>6. RefusedForCause'
  BY <1>1 DEF RefusedForCause
<1> QED BY <1>1, <1>2, <1>3, <1>5, <1>6, TypedFrame DEF CompInv

LEMMA WidthsEndKeeps ==
  ASSUME CompInv, WidthsEnd
  PROVE  CompInv'
<1>1. /\ FrontSame /\ UNCHANGED storage /\ at = "widths"
      /\ \/ WidthsRefused /\ at' = "widths" /\ state' = "refused"
         \/ WidthsDone /\ at' = "memory" /\ state' = "running"
  BY DEF WidthsEnd, Running, Pass, FrontSame
<1>2. ringpc' = ringpc /\ round' = round
  BY <1>1 DEF storage
<1>3. GraphPart' /\ RingPart' /\ LeakPart'
  BY <1>1, <1>2, FrontFrame DEF CompInv, GraphPart, RingPart, LeakPart
<1>4. RefusedForCause'
  <2>1. CASE WidthsRefused /\ at' = "widths" /\ state' = "refused"
    <3>1. Underivable \/ \E n \in Node : NoRule(n)
      BY <2>1, EndRefuses DEF CompInv
    <3>2. (Underivable \/ \E n \in Node : NoRule(n))'
      BY <1>1, <3>1, FrontFrame
    <3> QED BY <2>1, <3>2 DEF RefusedForCause
  <2>2. CASE state' = "running"
    BY <2>2 DEF RefusedForCause
  <2> QED BY <1>1, <2>1, <2>2
<1> QED BY <1>1, <1>3, <1>4, FrontKept DEF CompInv

LEMMA MemoryKeeps ==
  ASSUME CompInv, ResolveMemory
  PROVE  CompInv'
<1>1. /\ FrontSame /\ at = "memory" /\ state = "running"
      /\ \/ MemRefused /\ UNCHANGED storage /\ at' = "memory" /\ state' = "refused"
         \/ ~MemRefused /\ BuildGraph /\ state' = "running"
            /\ at' = IF prog.fuse THEN "fusion" ELSE "links"
  BY DEF ResolveMemory, Running, Pass, FrontSame
<1>2. ringpc' = ringpc /\ round' = round
  BY <1>1 DEF storage, BuildGraph
<1>3. prog' = prog /\ WidthsDone
  BY <1>1 DEF FrontSame, CompInv, GraphPart
<1>4. GraphPart'
  <2>1. CASE at' = "memory"
    BY <1>1, <1>3, <2>1, FrontFrame DEF GraphPart
  <2>2. CASE at' # "memory"
    <3>1. /\ ~MemRefused /\ edges' = NodeGraph
          /\ wires' = Fns!Restrict(NodeGraph, DOMAIN NodeGraph \ AbsorbedByMemory)
          /\ at' = IF prog.fuse THEN "fusion" ELSE "links"
      BY <1>1, <2>2 DEF BuildGraph
    <3> QED BY <1>1, <1>3, <3>1, FrontFrame DEF GraphPart
  <2> QED BY <2>1, <2>2
<1>5. RingPart' /\ LeakPart'
  BY <1>1, <1>2 DEF CompInv, RingPart, LeakPart
<1>6. RefusedForCause'
  BY <1>1 DEF RefusedForCause
<1> QED BY <1>1, <1>4, <1>5, <1>6, FrontKept DEF CompInv

LEMMA FuseKeeps ==
  ASSUME CompInv, Fuse
  PROVE  CompInv'
<1>1. /\ prog' = prog /\ UNCHANGED widths /\ UNCHANGED storage
      /\ at = "fusion" /\ at' = "fusion" /\ state' = "running"
      /\ \E e \in joins : Union(e)
  BY DEF Fuse, Running
<1>2. WInv' /\ FusionInv'
  BY <1>1, WidthsStutter, UnionStep DEF CompInv
<1>3. edges' = edges /\ wires' = wires /\ ringpc' = ringpc /\ round' = round
  BY <1>1 DEF storage
<1>4. GraphPart'
  <2>1. WidthsDone' <=> WidthsDone
    BY <1>1 DEF widths, WidthsDone
  <2>2. NodeGraph' = NodeGraph
    BY <1>1 DEF NodeGraph, Uses, Maker, Results, Node, In, Out, NoNode, Fns!Range
  <2> QED BY <1>1, <1>3, <2>1, <2>2, MemoryFrame DEF CompInv, GraphPart
<1>5. RingPart' /\ LeakPart' /\ RefusedForCause'
  BY <1>1, <1>3 DEF CompInv, RingPart, LeakPart, RefusedForCause
<1> QED BY <1>1, <1>2, <1>4, <1>5, TypedFrame DEF CompInv

LEMMA FuseEndKeeps ==
  ASSUME CompInv, FuseEnd
  PROVE  CompInv'
<1>1. /\ FrontSame /\ UNCHANGED storage /\ at = "fusion"
      /\ \/ FusionRefused /\ at' = "fusion" /\ state' = "refused"
         \/ ~FusionRefused /\ at' = "links" /\ state' = "running"
  BY DEF FuseEnd, Running, Pass, FrontSame
<1>2. edges' = edges /\ wires' = wires /\ ringpc' = ringpc /\ round' = round
  BY <1>1 DEF storage
<1>3. GraphPart' /\ RingPart' /\ LeakPart'
  BY <1>1, <1>2, FrontFrame DEF CompInv, GraphPart, RingPart, LeakPart
<1>4. RefusedForCause'
  <2>1. CASE FusionRefused /\ at' = "fusion" /\ state' = "refused"
    <3>1. TokenViolations # {} \/ Unheaded
      BY <2>1, FusionRefuses DEF CompInv
    <3> QED BY <1>1, <2>1, <3>1, FrontFrame DEF RefusedForCause
  <2>2. CASE state' = "running"
    BY <2>2 DEF RefusedForCause
  <2> QED BY <1>1, <2>1, <2>2
<1> QED BY <1>1, <1>3, <1>4, FrontKept DEF CompInv

LEMMA RingBegin == RP!Begin => RP!IInv
BY RP!BeginInv

LEMMA RingBeginAfter == (RP!Begin => RP!IInv)'
BY RingBegin, PTL

LEMMA LinkSitesKeep ==
  ASSUME CompInv, LinkSites
  PROVE  CompInv'
<1>1. /\ FrontSame /\ edges' = edges /\ wires' = wires /\ ringpc' = ringpc /\ round' = round
      /\ at = "links" /\ at' = "cut" /\ state' = "running"
      /\ rings' = Ring!SimpleCycles(UNION Ring!Components(DOMAIN wires))
      /\ depth' = [v \in Value |-> IF v \in MeasurabilitySites THEN 1 ELSE 0]
  BY DEF LinkSites, Running, Pass, LinkRuleOne, FrontSame
<1>2. WellTyped /\ Graphed /\ ringpc = "cut" /\ round = 0
  BY <1>1, CompGraphed DEF CompInv, RingPart
<1>3. /\ IsFiniteSet(RP!Edge) /\ RP!Edge \subseteq Results
      /\ wires \in [RP!Edge -> RP!Node \X RP!Node]
  BY <1>2, WiresAre DEF Graphed
<1>4. rings' = RP!SimpleCycles(RP!Edge)
  BY <1>1, <1>3, SameRing, SameFinite, RP!CyclesOfComponents
<1>5. RP!Edge' = RP!Edge /\ RP!Node' = RP!Node /\ RP!SimpleCycles(RP!Edge)' = RP!SimpleCycles(RP!Edge)
  BY <1>1 DEF RP!Edge, RP!Node, RP!SimpleCycles, RP!Endless, RP!Producer, RP!Consumer
<1>6. RP!Begin'
  <2>1. RP!Channel' = Value
    BY <1>1 DEF RP!Channel
  <2>2. RP!Edge \subseteq Value
    BY <1>3 DEF Value
  <2>3. depth' \in [Value -> 0..1]
    BY <1>1
  <2> QED BY <1>1, <1>2, <1>3, <1>4, <1>5, <2>1, <2>2, <2>3, SameFinite DEF RP!Begin
<1>7. RingPart'
  BY <1>1, <1>6, RingBeginAfter DEF RingPart
<1>8. LeakPart'
  <2> SUFFICES ASSUME TokenViolations = {} PROVE Leaked' = {}
    BY <1>1, FrontFrame DEF LeakPart
  <2>1. linked' \subseteq MeasurabilitySites
    BY <1>1 DEF linked, Ring!linked, Ring!Channel
  <2>2. \A v \in MeasurabilitySites : v \notin AbsorbedByMemory \union DeadValues
    BY <1>2, RuleOneKept DEF Graphed
  <2> QED BY <1>1, <2>1, <2>2, FrontFrame DEF Leaked
<1>9. GraphPart'
  BY <1>1, FrontFrame DEF CompInv, GraphPart
<1>10. RefusedForCause'
  BY <1>1 DEF RefusedForCause
<1> QED BY <1>1, <1>7, <1>8, <1>9, <1>10, FrontKept DEF CompInv

\* A pass changes nothing but the depths, where it is and how often it went round.
LEMMA RingStep ==
  ASSUME CompInv, FrontSame, edges' = edges, at \in {"cut", "depths"},
         Ring!Cut \/ Ring!CutDone \/ Ring!Deepen \/ Ring!DeepenStop,
         at' \in {"cut", "depths"} \/ at' = "pad"
  PROVE  RP!IInv' /\ wires' = wires /\ GraphPart'
<1>1. RP!IInv'
  BY SameRing, RP!Step DEF CompInv, RingPart, RP!Next
<1>2. wires' = wires
  BY DEF Ring!Cut, Ring!CutDone, Ring!Deepen, Ring!DeepenStop, Ring!input
<1>3. GraphPart'
  BY <1>2, FrontFrame DEF CompInv, GraphPart
<1> QED BY <1>1, <1>2, <1>3

LEMMA CutKeeps ==
  ASSUME CompInv, CutCycle
  PROVE  CompInv'
<1>1. /\ FrontSame /\ edges' = edges /\ at = "cut" /\ at' = "cut" /\ state' = "running"
      /\ Ring!Cut
  BY DEF CutCycle, Running, FrontSame
<1>2. RP!IInv' /\ GraphPart'
  BY <1>1, RingStep
<1>3. RingPart'
  BY <1>1, <1>2 DEF RingPart
<1>4. LeakPart'
  <2> SUFFICES ASSUME TokenViolations = {}, ~Unheaded PROVE Leaked' = {}
    BY <1>1, FrontFrame DEF LeakPart
  <2>1. Leaked = {} /\ WellTyped /\ Graphed
    BY <1>1, CompGraphed DEF CompInv, LeakPart
  <2>2. PICK picks \in RP!Sets!Choices({RP!Preferred(E) : E \in RP!Live}) :
          depth' = [e \in DOMAIN depth |-> IF e \in picks THEN 1 ELSE depth[e]]
    BY <1>1, SameRing DEF RP!Cut, RP!Channel
  <2>3. \A e \in picks : e \notin AbsorbedByMemory \union DeadValues
    <3>1. PICK f \in [{RP!Preferred(E) : E \in RP!Live} -> UNION {RP!Preferred(E) : E \in RP!Live}] :
            /\ \A T \in {RP!Preferred(E) : E \in RP!Live} : f[T] \in T
            /\ picks = RP!Sets!Range(f)
      BY <2>2 DEF RP!Sets!Choices
    <3>2. ASSUME NEW e \in picks
          PROVE  \E E \in RP!Live : e \in RP!Preferred(E)
      BY <3>1 DEF RP!Sets!Range
    <3> QED BY <2>1, <3>2, CutKept
  <2>4. linked' \subseteq linked \union picks
    BY <2>2 DEF linked, Ring!linked, Ring!Channel
  <2> QED BY <1>1, <2>1, <2>3, <2>4, FrontFrame DEF Leaked
<1>5. RefusedForCause'
  BY <1>1 DEF RefusedForCause
<1> QED BY <1>1, <1>2, <1>3, <1>4, <1>5, FrontKept DEF CompInv

LEMMA CutEndKeeps ==
  ASSUME CompInv, CutEnd
  PROVE  CompInv'
<1>1. /\ FrontSame /\ edges' = edges /\ at = "cut" /\ Ring!CutDone
      /\ \/ Leaked # {} /\ at' = "cut" /\ state' = "refused"
         \/ at' = "depths" /\ state' = "running"
  BY DEF CutEnd, Running, Pass, FrontSame
<1>2. RP!IInv' /\ GraphPart'
  BY <1>1, RingStep
<1>3. RingPart'
  BY <1>1, <1>2 DEF RingPart
<1>4. Leaked' = Leaked
  BY <1>1, LeakFrame DEF Ring!CutDone
<1>5. LeakPart'
  BY <1>1, <1>4, FrontFrame DEF CompInv, LeakPart
<1>6. RefusedForCause'
  <2>1. CASE Leaked # {} /\ at' = "cut"
    <3>1. TokenViolations # {} \/ Unheaded
      BY <1>1, <2>1 DEF CompInv, LeakPart
    <3> QED BY <1>1, <2>1, <3>1, FrontFrame DEF RefusedForCause
  <2>2. CASE state' = "running"
    BY <2>2 DEF RefusedForCause
  <2> QED BY <1>1, <2>1, <2>2
<1> QED BY <1>1, <1>2, <1>3, <1>5, <1>6, FrontKept DEF CompInv

LEMMA DeepenKeeps ==
  ASSUME CompInv, DeepenLink
  PROVE  CompInv'
<1>1. /\ FrontSame /\ edges' = edges /\ at = "depths" /\ at' = "depths" /\ state' = "running"
      /\ Ring!Deepen
  BY DEF DeepenLink, Running, FrontSame
<1>2. RP!IInv' /\ GraphPart'
  BY <1>1, RingStep
<1>3. RingPart' /\ LeakPart' /\ RefusedForCause'
  BY <1>1, <1>2 DEF RingPart, LeakPart, RefusedForCause
<1> QED BY <1>1, <1>2, <1>3, FrontKept DEF CompInv

\* Neither of ring_depths' errors is raised.
LEMMA DepthsEndKeeps ==
  ASSUME CompInv, DepthsEnd
  PROVE  CompInv'
<1>1. /\ FrontSame /\ edges' = edges /\ at = "depths" /\ Ring!DeepenStop
      /\ \/ ringpc' = "refused" /\ at' = "depths"
         \/ at' = "pad" /\ state' = "running"
  BY DEF DepthsEnd, Running, Pass, FrontSame
<1>2. RP!IInv' /\ GraphPart'
  BY <1>1, RingStep
<1>3. ringpc' # "refused"
  BY <1>2 DEF RP!IInv, RP!DeepenInv, RP!EveryRingLive
<1>4. RingPart' /\ LeakPart' /\ RefusedForCause'
  BY <1>1, <1>3 DEF RingPart, LeakPart, RefusedForCause
<1> QED BY <1>1, <1>2, <1>4, FrontKept DEF CompInv

\* The stages after these only read what is proved here.
LEMMA TailKeeps ==
  ASSUME CompInv, PadRings \/ LowerNodes \/ Ports
  PROVE  CompInv'
<1>1. /\ FrontSame /\ edges' = edges /\ wires' = wires
      /\ at \in {"pad", "lower", "ports"} /\ at' \in {"pad", "lower", "ports"}
  BY DEF PadRings, LowerNodes, Ports, Running, Pass, FrontSame, storage
<1>2. GraphPart'
  BY <1>1, FrontFrame DEF CompInv, GraphPart
<1>3. RingPart' /\ LeakPart' /\ RefusedForCause'
  BY <1>1 DEF RingPart, LeakPart, RefusedForCause
<1> QED BY <1>1, <1>2, <1>3, FrontKept DEF CompInv

LEMMA CompStep == CompInv /\ [Next]_vars => CompInv'
BY ArgumentsKeep, WidthStepKeeps, WidthsEndKeeps, MemoryKeeps, FuseKeeps, FuseEndKeeps,
   LinkSitesKeep, CutKeeps, CutEndKeeps, DeepenKeeps, DepthsEndKeeps, TailKeeps, CompStutter
   DEF Next

LEMMA CompSettles == CompInv => WidthsSettled
BY EndSettles DEF CompInv, GraphPart, WidthsSettled

(* Of any function the front end can have parsed, however its nodes are    *)
(* ordered: the widths found are the program's, and a refusal has a cause. *)
THEOREM AnyFunction ==
  WellTyped /\ StagesInit /\ [][Next]_vars => [](WidthsSettled /\ RefusedForCause)
<1>1. CompInv => WidthsSettled /\ RefusedForCause
  BY CompSettles DEF CompInv
<1>2. WellTyped /\ StagesInit => CompInv
  BY CompBegin
<1> QED BY <1>1, <1>2, CompStep, PTL

(* _resolve_widths finds the types the front end gave, on every kernel.    *)
THEOREM WidthsCorrect == Spec => []WidthsSettled
<1>1. Init => WellTyped /\ StagesInit
  BY DEF Init
<1> QED BY <1>1, AnyFunction, PTL DEF Spec

(* And none of the errors __init__ checks for "rather than trust the       *)
(* argument" is met without the cause it names.                            *)
THEOREM RefusalsCorrect == Spec => []RefusedForCause
<1>1. Init => WellTyped /\ StagesInit
  BY DEF Init
<1> QED BY <1>1, AnyFunction, PTL DEF Spec

-----------------------------------------------------------------------------
(* Ways along the wires, and the stages on them.                           *)

\* The channels of S lead from a to b and nowhere else.
Way(S, a, b) == /\ S \subseteq RP!Edge
                /\ a = b \/ \E e \in S : RP!Producer(e) = a
                /\ \A e \in S : \/ RP!Consumer(e) = b
                                \/ \E f \in S : RP!Producer(f) = RP!Consumer(e)

LEMMA WaysJoin ==
  ASSUME NEW S, NEW T, NEW a, NEW b, NEW c, Way(S, a, b), Way(T, b, c)
  PROVE  Way(S \union T, a, c)
BY DEF Way

LEMMA WaysClose ==
  ASSUME NEW S, NEW T, NEW a, NEW b, Way(S, a, b), Way(T, b, a),
         NEW v \in T, RP!Producer(v) = b
  PROVE  S \union T \subseteq RP!Edge /\ RP!Endless(S \union T)
BY DEF Way, RP!Endless

\* What ring_depths leaves.
Floor == RP!Shape /\ ringpc = "done" /\ RP!EveryRingLive

\* Its floor is on whatever a token can go round in: there is a simple cycle in it.
LEMMA EndlessFloor ==
  ASSUME Floor, NEW C \in SUBSET RP!Edge, RP!Endless(C)
  PROVE  RP!Stages(C) \in Nat /\ RP!Stages(C) >= RP!RingMinStages
<1>1. RP!IsFiniteSet(RP!Edge) /\ rings = RP!SimpleCycles(RP!Edge)
  BY DEF Floor, RP!Shape
<1>2. RP!IsFiniteSet(C)
  BY <1>1, SameFinite, FS_Subset
<1> DEFINE T == {D \in SUBSET C : RP!Endless(D)}
<1>3. PICK D \in T : \A B \in T : B \subseteq D => B = D
  <2>1. T \in SUBSET SUBSET C /\ T # {}
    OBVIOUS
  <2> HIDE DEF T
  <2> QED BY <1>2, <2>1, RP!SmallestSubset
<1>4. D \in rings
  <2>1. D \in SUBSET RP!Edge /\ RP!Endless(D)
    OBVIOUS
  <2>2. ASSUME NEW B \in SUBSET RP!Edge, RP!Endless(B), B \subseteq D
        PROVE  B = D
    BY <1>3, <2>2
  <2> HIDE DEF T
  <2> QED BY <1>1, <2>1, <2>2 DEF RP!SimpleCycles
<1>5. RP!Stages(D) >= RP!RingMinStages
  BY <1>4 DEF Floor, RP!EveryRingLive
<1>6. RP!Stages(C) \in Nat /\ RP!Stages(D) \in Nat /\ RP!Stages(D) <= RP!Stages(C)
  <2>1. D \in SUBSET C
    OBVIOUS
  <2> HIDE DEF T
  <2> QED BY <2>1, RP!SubStages DEF Floor
<1> QED BY <1>5, <1>6 DEF RP!RingMinStages

LEMMA UnionStages ==
  ASSUME RP!Shape, NEW S \in SUBSET RP!Edge, NEW T \in SUBSET RP!Edge
  PROVE  /\ RP!Stages(S) \in Nat /\ RP!Stages(T) \in Nat /\ RP!Stages(S \union T) \in Nat
         /\ RP!Stages(S \union T) <= RP!Stages(S) + RP!Stages(T)
<1>1. IsFiniteSet(S) /\ IsFiniteSet(T)
  <2>1. IsFiniteSet(RP!Edge)
    BY SameFinite DEF RP!Shape
  <2> QED BY <2>1, FS_Subset
<1>2. (\A e \in S : depth[e] \in Nat) /\ (\A e \in T : depth[e] \in Nat)
  BY RP!DepthNat
<1>3. RP!On(depth, S \union T) = RP!On(depth, S) \union RP!On(depth, T)
  BY DEF RP!On
<1>4. \A C : RP!Stages(C) = Cardinality(RP!On(depth, C))
  BY DEF RP!Stages, RP!StagesOn, RP!On, Cardinality, RP!Cardinality
<1>5. /\ IsFiniteSet(RP!On(depth, S)) /\ Cardinality(RP!On(depth, S)) \in Nat
      /\ IsFiniteSet(RP!On(depth, T)) /\ Cardinality(RP!On(depth, T)) \in Nat
  <2>1. \A C : RP!Cardinality(C) = Cardinality(C)
    BY DEF RP!Cardinality, Cardinality
  <2> QED BY <1>1, <1>2, <2>1, SameFinite, RP!OnFinite
<1> DEFINE A == RP!On(depth, S)
           B == RP!On(depth, T)
<1> HIDE DEF A, B
<1>6. /\ IsFiniteSet(A \union B)
      /\ Cardinality(A \union B) = Cardinality(A) + Cardinality(B) - Cardinality(A \intersect B)
  BY <1>5, FS_Union DEF A, B
<1>7. Cardinality(A \intersect B) \in Nat
  <2>1. IsFiniteSet(A) /\ A \intersect B \in SUBSET A
    BY <1>5 DEF A
  <2> QED BY <2>1, FS_Subset, FS_CardinalityType
<1>8. Cardinality(A \union B) \in Nat
  BY <1>6, FS_CardinalityType
<1>9. RP!Stages(S) = Cardinality(A) /\ RP!Stages(T) = Cardinality(B)
      /\ RP!Stages(S \union T) = Cardinality(A \union B)
  BY <1>3, <1>4 DEF A, B
<1>10. Cardinality(A) \in Nat /\ Cardinality(B) \in Nat
  BY <1>5 DEF A, B
<1> QED BY <1>6, <1>7, <1>8, <1>9, <1>10

\* A channel, with channels that have no storage.
LEMMA OneStages ==
  ASSUME RP!Shape, NEW v \in RP!Edge, NEW I \in SUBSET RP!Edge, \A e \in I : depth[e] = 0
  PROVE  RP!Stages(I \union {v}) \in Nat /\ RP!Stages(I \union {v}) <= depth[v]
<1>1. \A C : RP!Stages(C) = Cardinality(RP!On(depth, C))
  BY DEF RP!Stages, RP!StagesOn, RP!On, Cardinality, RP!Cardinality
<1>2. RP!On(depth, I) = {} /\ RP!On(depth, {}) = {}
  BY DEF RP!On
<1>3. RP!Stages(I) = 0 /\ RP!Stages({}) = 0
  BY <1>1, <1>2, FS_EmptySet
<1>4. depth[v] \in Nat
  BY RP!DepthNat
<1>5. RP!Stages({} \union {v}) = RP!Stages({}) + depth[v]
  BY RP!OneMore
<1>6. RP!Stages(I \union {v}) \in Nat /\ RP!Stages(I \union {v}) <= RP!Stages(I) + RP!Stages({v})
  BY UnionStages
<1>7. {} \union {v} = {v}
  OBVIOUS
<1> QED BY <1>3, <1>4, <1>5, <1>6, <1>7

-----------------------------------------------------------------------------
(* The cells at the ends of a channel, in the graph.                       *)

\* The channels fusion buried in region R.
Within(R) == {Out(n)[1] : n \in R \ {Anchor(R)}}

\* From an operation of a region to the one whose cell it became part of there is
\* a way, on channels that are gone.
LEMMA WithinWay ==
  ASSUME WellTyped, Graphed, TokenViolations = {}, prog.fuse, NEW R \in regions, NEW m \in R
  PROVE  Way(Within(R), m, Anchor(R)) /\ Within(R) \subseteq DeadValues
<1>1. Syntax
  BY DEF WellTyped
<1>2. /\ \A v \in RP!Edge : RP!Producer(v) = Maker(v) /\ \E u \in Uses(v) : RP!Consumer(v) = u[1]
      /\ RP!Edge = {r \in Results : Uses(r) # {}} \ AbsorbedByMemory
  <2>1. RP!Edge = {r \in Results : Uses(r) # {}} \ AbsorbedByMemory
    BY DEF Graphed, RP!Edge, Fns!Restrict, NodeGraph
  <2> QED BY <2>1, WiresAre DEF Graphed
<1>3. R \subseteq Fusable
  BY DEF Graphed, Partition
<1>4. ASSUME NEW n \in R \ {Anchor(R)}
      PROVE  /\ Out(n)[1] \in RP!Edge /\ RP!Producer(Out(n)[1]) = n
             /\ RP!Consumer(Out(n)[1]) \in R
  <2>1. Buried(n, R)
    BY InteriorBuried DEF Graphed
  <2>2. n \in Node /\ Out(n)[1] \in Results /\ Maker(Out(n)[1]) = n
    BY <1>3, FusableShape
  <2>3. PICK u \in Uses(Out(n)[1]) : u[1] \in R
    BY <2>1 DEF Buried
  <2>4. Op(u[1]) \notin {"mem_controller", "load"}
    BY <1>3, <2>3 DEF Fusable, FusableOps, DelayBearing
  <2>5. Out(n)[1] \notin AbsorbedByMemory
    BY <2>3, <2>4, AbsorbedReaders DEF Graphed, Resolved
  <2>6. Out(n)[1] \in RP!Edge
    BY <1>2, <2>2, <2>3, <2>5
  <2> QED BY <1>2, <2>1, <2>2, <2>6 DEF Buried
<1>5. Within(R) \subseteq RP!Edge
  BY <1>4 DEF Within
<1>6. m = Anchor(R) \/ \E e \in Within(R) : RP!Producer(e) = m
  BY <1>4 DEF Within
<1>7. ASSUME NEW e \in Within(R)
      PROVE  RP!Consumer(e) = Anchor(R) \/ \E f \in Within(R) : RP!Producer(f) = RP!Consumer(e)
  BY <1>4 DEF Within
<1>8. Within(R) \subseteq DeadValues
  BY DEF Within, DeadValues, Skipped, Interior
<1> QED BY <1>5, <1>6, <1>7, <1>8 DEF Way

\* The two cells channel v joins: that of the operation that makes it, and that of
\* the one that reads it or of the region this is in.
Joins(v) ==
  /\ v \in RP!Edge /\ joined[v][1] = RP!Producer(v)
  /\ \/ joined[v][2] = RP!Consumer(v)
     \/ prog.fuse /\ \E R \in regions : RP!Consumer(v) \in R /\ joined[v][2] = Anchor(R)

LEMMA JoinedWay ==
  ASSUME WellTyped, Graphed, TokenViolations = {}, Leaked = {}, RP!Shape, NEW v, Joins(v)
  PROVE  \E T \in SUBSET RP!Edge :
           /\ Way(T, joined[v][1], joined[v][2])
           /\ v \in T /\ RP!Producer(v) = joined[v][1]
           /\ RP!Stages(T) \in Nat /\ RP!Stages(T) <= depth[v]
<1> DEFINE c == RP!Consumer(v)
<1>1. v \in RP!Edge /\ joined[v][1] = RP!Producer(v)
  BY DEF Joins
<1>2. \E I \in SUBSET RP!Edge : Way(I, c, joined[v][2]) /\ \A e \in I : depth[e] = 0
  <2>1. CASE joined[v][2] = c
    <3>1. Way({}, c, joined[v][2])
      BY <2>1 DEF Way
    <3> QED BY <3>1
  <2>2. CASE prog.fuse /\ \E R \in regions : c \in R /\ joined[v][2] = Anchor(R)
    <3>1. PICK R \in regions : c \in R /\ joined[v][2] = Anchor(R)
      BY <2>2
    <3>2. Way(Within(R), c, Anchor(R)) /\ Within(R) \subseteq DeadValues
      BY <2>2, <3>1, WithinWay
    <3>3. Within(R) \in SUBSET RP!Edge
      BY <3>2 DEF Way
    <3>4. ASSUME NEW e \in Within(R) PROVE depth[e] = 0
      <4>1. e \notin linked /\ e \in RP!Edge
        BY <3>2, <3>3 DEF Leaked
      <4>2. depth[e] \in Nat /\ e \in DOMAIN depth
        BY <4>1, RP!DepthNat DEF RP!Shape, RP!TypeOK, RP!Channel
      <4> QED BY <4>1, <4>2 DEF linked, Ring!linked, Ring!Channel
    <3> QED BY <3>1, <3>2, <3>3, <3>4
  <2> QED BY <2>1, <2>2 DEF Joins
<1>3. PICK I \in SUBSET RP!Edge : Way(I, c, joined[v][2]) /\ \A e \in I : depth[e] = 0
  BY <1>2
<1>4. Way({v}, RP!Producer(v), c)
  BY <1>1 DEF Way
<1>5. Way(I \union {v}, RP!Producer(v), joined[v][2])
  <2>1. Way({v} \union I, RP!Producer(v), joined[v][2])
    BY <1>3, <1>4, WaysJoin
  <2>2. {v} \union I = I \union {v}
    OBVIOUS
  <2> QED BY <2>1, <2>2
<1>6. RP!Stages(I \union {v}) \in Nat /\ RP!Stages(I \union {v}) <= depth[v]
  BY <1>1, <1>3, OneStages
<1>7. I \union {v} \in SUBSET RP!Edge /\ v \in I \union {v}
  BY <1>1
<1> HIDE DEF c
<1> QED BY <1>1, <1>5, <1>6, <1>7

-----------------------------------------------------------------------------
(* The cells a walk gets to.                                               *)

\* One channel further, while the stages are under the floor.
Further(reached) ==
  reached \union {<<joined[w[2]][2], w[1][2] + depth[w[2]]>> :
                     w \in {x \in reached \X DOMAIN joined :
                              /\ joined[x[2]][1] = x[1][1]
                              /\ x[1][2] + depth[x[2]] < Ring!RingMinStages}}

\* grown, as Grown defines it for a walk from n, for the first k steps.
WalkGrown(grown, n, k) ==
  grown = [i \in 0..k |->
             IF i = 0 THEN {<<{<<n, 0>>}, {<<n, 0>>}>>}
             ELSE UNION {{<<{x : x \in p[1] \union T}, {x : x \in T \ p[1]}>> :
                            T \in {{x : x \in Further(p[2])}}} : p \in grown[i-1]}]

LEMMA WalkGrownExists ==
  ASSUME NEW n, NEW k \in Nat
  PROVE  \E grown : WalkGrown(grown, n, k)
<1> DEFINE Start == {<<{<<n, 0>>}, {<<n, 0>>}>>}
           Then(G) == UNION {{<<{x : x \in p[1] \union T}, {x : x \in T \ p[1]}>> :
                                T \in {{x : x \in Further(p[2])}}} : p \in G}
           Is(g, j) == g = [i \in 0..j |-> IF i = 0 THEN Start ELSE Then(g[i-1])]
           T0 == {j \in Nat : ~ \E g : Is(g, j)}
<1>a. \A g : Is(g, k) => WalkGrown(g, n, k)
  BY DEF WalkGrown
<1> HIDE DEF Then, Start
<1>b. ASSUME T0 = {} PROVE \E g : Is(g, k)
  <2>1. k \notin T0
    BY <1>b
  <2> HIDE DEF Is
  <2> QED BY <2>1
<1> SUFFICES ASSUME T0 # {} PROVE FALSE
  <2> HIDE DEF Is, T0
  <2> QED BY <1>a, <1>b
<1>0. T0 \in SUBSET Nat
  OBVIOUS
<1>1. PICK j \in T0 : \A i \in T0 : j <= i
  <2> HIDE DEF T0
  <2> QED BY <1>0, LeastNat
<1>2. CASE j = 0
  <2>1. Is([i \in 0..0 |-> Start], 0)
    OBVIOUS
  <2> QED BY <1>2, <2>1
<1>3. CASE j # 0
  <2>1. j - 1 \in Nat /\ j - 1 \notin T0
    <3> HIDE DEF T0
    <3>1. j \in Nat /\ ~(j <= j - 1)
      BY <1>0, <1>1
    <3> QED BY <3>1, <1>1, <1>3
  <2>2. PICK f : Is(f, j - 1)
    BY <2>1
  <2> DEFINE g == [i \in 0..j |-> IF i < j THEN f[i] ELSE Then(f[j - 1])]
  <2>3. \A i \in 0..j : g[i] = IF i = 0 THEN Start ELSE Then(g[i - 1])
    <3> SUFFICES ASSUME NEW i \in 0..j
                 PROVE  g[i] = IF i = 0 THEN Start ELSE Then(g[i - 1])
      OBVIOUS
    <3>1. \A x \in 0..j-1 : f[x] = IF x = 0 THEN Start ELSE Then(f[x - 1])
      BY <2>2
    <3>2. CASE i = 0
      BY <3>1, <3>2, <1>3, <2>1
    <3>3. CASE i # 0 /\ i < j
      <4>1. i \in 0..j-1 /\ i - 1 \in 0..j /\ i - 1 < j
        BY <3>3, <2>1
      <4>2. g[i] = f[i] /\ g[i - 1] = f[i - 1]
        BY <4>1, <3>3
      <4> QED BY <4>1, <4>2, <3>1, <3>3
    <3>4. CASE i = j
      <4>1. j - 1 \in 0..j /\ j - 1 < j /\ j \in 0..j /\ ~(j < j)
        BY <2>1
      <4>2. g[j] = Then(f[j - 1]) /\ g[j - 1] = f[j - 1]
        BY <4>1
      <4> QED BY <4>2, <3>4, <1>3
    <3> QED BY <3>2, <3>3, <3>4
  <2>4. Is(g, j)
    <3> HIDE DEF g
    <3>1. g = [i \in 0..j |-> g[i]]
      BY DEF g
    <3> QED BY <3>1, <2>3
  <2> QED BY <2>4, <1>1
<1> QED BY <1>2, <1>3

\* There is a way from cell n to cell w[1] with no more than w[2] stages on it.
Walked(n, w) == /\ w[2] \in Nat
                /\ \E S \in SUBSET RP!Edge :
                     Way(S, n, w[1]) /\ RP!Stages(S) \in Nat /\ RP!Stages(S) <= w[2]

AllJoin == \A v \in DOMAIN joined : Joins(v)

LEMMA FurtherWalked ==
  ASSUME WellTyped, Graphed, TokenViolations = {}, Leaked = {}, RP!Shape, AllJoin,
         NEW n, NEW P, \A w \in P : Walked(n, w)
  PROVE  \A w \in Further(P) : Walked(n, w)
<1> SUFFICES ASSUME NEW w \in P, NEW v \in DOMAIN joined, joined[v][1] = w[1]
             PROVE  Walked(n, <<joined[v][2], w[2] + depth[v]>>)
  BY DEF Further
<1>1. Joins(v) /\ v \in RP!Edge
  BY DEF AllJoin, Joins
<1>2. PICK S \in SUBSET RP!Edge : Way(S, n, w[1]) /\ RP!Stages(S) \in Nat /\ RP!Stages(S) <= w[2]
  BY DEF Walked
<1>3. PICK T \in SUBSET RP!Edge : /\ Way(T, joined[v][1], joined[v][2])
                                  /\ RP!Stages(T) \in Nat /\ RP!Stages(T) <= depth[v]
  BY <1>1, JoinedWay
<1>4. Way(S \union T, n, joined[v][2])
  BY <1>2, <1>3, WaysJoin
<1>5. RP!Stages(S \union T) \in Nat /\ RP!Stages(S \union T) <= RP!Stages(S) + RP!Stages(T)
  BY UnionStages
<1>6. w[2] \in Nat /\ depth[v] \in Nat
  BY <1>1, RP!DepthNat DEF Walked
<1>7. RP!Stages(S \union T) <= w[2] + depth[v] /\ w[2] + depth[v] \in Nat
  BY <1>2, <1>3, <1>5, <1>6
<1>8. S \union T \in SUBSET RP!Edge
  OBVIOUS
<1> QED BY <1>4, <1>5, <1>7, <1>8 DEF Walked

LEMMA StartWalked ==
  ASSUME RP!Shape, NEW n
  PROVE  Walked(n, <<n, 0>>)
<1>1. Way({}, n, n)
  BY DEF Way
<1>2. RP!Stages({}) = 0
  <2>1. RP!On(depth, {}) = {}
    BY DEF RP!On
  <2> QED BY <2>1, FS_EmptySet DEF RP!Stages, RP!StagesOn, RP!On, Cardinality, RP!Cardinality
<1> QED BY <1>1, <1>2 DEF Walked

LEMMA WalkWalked ==
  ASSUME WellTyped, Graphed, TokenViolations = {}, Leaked = {}, RP!Shape, AllJoin, NEW n
  PROVE  \A w \in Walk(n) : Walked(n, w)
<1> DEFINE k == Len(prog.nodes)
           grown == CHOOSE g : WalkGrown(g, n, k)
           Good(i) == \A p \in grown[i] : \A w \in p[1] \union p[2] : Walked(n, w)
           T0 == {i \in 0..k : ~Good(i)}
<1>0. k \in Nat
  BY DEF WellTyped, Syntax
<1>1. WalkGrown(grown, n, k)
  <2> HIDE DEF k
  <2> QED BY <1>0, WalkGrownExists
<1>2. Walk(n) = UNION {p[1] : p \in grown[k]}
  BY DEF Walk, Grown, WalkGrown, Further
<1> HIDE DEF grown, k
<1>3. Good(0)
  <2>1. grown[0] = {<<{<<n, 0>>}, {<<n, 0>>}>>}
    BY <1>0, <1>1 DEF WalkGrown
  <2> QED BY <2>1, StartWalked
<1>4. ASSUME NEW i \in 0..k, i # 0, Good(i - 1) PROVE Good(i)
  <2>1. grown[i] = UNION {{<<{x : x \in p[1] \union T}, {x : x \in T \ p[1]}>> :
                            T \in {{x : x \in Further(p[2])}}} : p \in grown[i-1]}
    BY <1>0, <1>1, <1>4 DEF WalkGrown
  <2> SUFFICES ASSUME NEW q \in grown[i], NEW w \in q[1] \union q[2]
               PROVE  Walked(n, w)
    OBVIOUS
  <2>2. PICK p \in grown[i-1] :
          q \in {<<{x : x \in p[1] \union T}, {x : x \in T \ p[1]}>> :
                   T \in {{x : x \in Further(p[2])}}}
    BY <2>1
  <2>3. w \in p[1] \union Further(p[2])
    BY <2>2
  <2>4. \A x \in p[1] \union p[2] : Walked(n, x)
    BY <1>4
  <2>5. \A x \in Further(p[2]) : Walked(n, x)
    BY <2>4, FurtherWalked
  <2> QED BY <2>3, <2>4, <2>5
<1> HIDE DEF Good
<1>5. T0 = {}
  <2> SUFFICES ASSUME T0 # {} PROVE FALSE
    OBVIOUS
  <2>1. T0 \in SUBSET Nat
    BY <1>0
  <2>2. PICK j \in T0 : \A i \in T0 : j <= i
    <3> HIDE DEF T0
    <3> QED BY <2>1, LeastNat
  <2>3. j # 0 /\ j - 1 \in 0..k /\ j \in 0..k /\ ~(j <= j - 1)
    BY <1>0, <1>3
  <2>4. Good(j - 1)
    BY <2>2, <2>3
  <2> QED BY <1>4, <2>3, <2>4
<1>6. Good(k)
  BY <1>0, <1>5
<1> QED BY <1>2, <1>6 DEF Good

\* No walk back to where a channel starts is short.
LEMMA NoneShort ==
  ASSUME WellTyped, Graphed, TokenViolations = {}, Leaked = {}, Floor, AllJoin,
         NEW v \in DOMAIN joined, NEW w \in Walk(joined[v][2]), w[1] = joined[v][1]
  PROVE  w[2] + depth[v] >= Ring!RingMinStages
<1> DEFINE n == joined[v][2]
<1>1. RP!Shape /\ Joins(v) /\ v \in RP!Edge
  BY DEF Floor, AllJoin, Joins
<1>2. Walked(n, w)
  BY <1>1, WalkWalked
<1>3. PICK S \in SUBSET RP!Edge : Way(S, n, w[1]) /\ RP!Stages(S) \in Nat /\ RP!Stages(S) <= w[2]
  BY <1>2 DEF Walked
<1>4. PICK T \in SUBSET RP!Edge :
        /\ Way(T, w[1], n) /\ v \in T /\ RP!Producer(v) = w[1]
        /\ RP!Stages(T) \in Nat /\ RP!Stages(T) <= depth[v]
  BY <1>1, JoinedWay
<1> HIDE DEF n
<1>5. S \union T \in SUBSET RP!Edge /\ RP!Endless(S \union T)
  BY <1>3, <1>4, WaysClose
<1>6. RP!Stages(S \union T) \in Nat /\ RP!Stages(S \union T) >= RP!RingMinStages
  BY <1>5, EndlessFloor
<1>7. RP!Stages(S \union T) <= RP!Stages(S) + RP!Stages(T)
  BY <1>1, UnionStages
<1>8. w[2] \in Nat /\ depth[v] \in Nat
  BY <1>1, <1>2, RP!DepthNat DEF Walked
<1> QED BY <1>3, <1>4, <1>6, <1>7, <1>8 DEF RP!RingMinStages, Ring!RingMinStages

-----------------------------------------------------------------------------
(* The wiring of the cells follows the graph.                              *)

LEMMA OperandsFinite ==
  ASSUME Syntax
  PROVE  IsFiniteSet(Operand)
<1> DEFINE f == [n \in Node |-> Fns!Range(In(n))]
<1>1. ASSUME NEW n \in Node
      PROVE  IsFiniteSet(f[n])
  <2>1. IsFiniteSet(DOMAIN In(n))
    BY NodeShape, FS_Interval
  <2>2. In(n) \in Surjection(DOMAIN In(n), Fns!Range(In(n)))
    BY NodeShape DEF Surjection, Fns!Range
  <2> QED BY <2>1, <2>2, FS_Surjection
<1>2. Operand = UNION {f[n] : n \in Node}
  BY DEF Operand
<1>3. f = [n \in Node |-> f[n]]
  OBVIOUS
<1> HIDE DEF f
<1> QED BY <1>1, <1>2, <1>3, NodeFinite, FiniteUnion

\* A finite set as a list has nothing else in it.
LEMMA Listed ==
  ASSUME NEW S, IsFiniteSet(S), NEW k \in DOMAIN Seqs!SetToSeq(S)
  PROVE  Seqs!SetToSeq(S)[k] \in S
<1>1. \E f \in [1..Cardinality(S) -> S] : Seqs!IsInjective(f)
  <2>1. PICK f \in Bijection(1..Cardinality(S), S) : TRUE
    BY FS_CardinalityType DEF ExistsBijection
  <2> QED BY <2>1 DEF Bijection, Injection, IsInjective, Seqs!IsInjective
<1>2. Seqs!SetToSeq(S) \in [1..Cardinality(S) -> S]
  <2>1. Seqs!Cardinality(S) = Cardinality(S)
    BY DEF Seqs!Cardinality, Cardinality
  <2> QED BY <1>1, <2>1 DEF Seqs!SetToSeq
<1> QED BY <1>2

\* The operands of a region, each of one of its operations.
LEMMA ExtAre ==
  ASSUME WellTyped, Partition, NEW R \in regions, NEW v \in ExtInputs(R)
  PROVE  \E m \in R : \E r \in DOMAIN In(m) : v = In(m)[r]
<1>1. R \subseteq Fusable
  BY DEF Partition
<1>2. PICK p \in R \X (1..3) : p[2] \in Port(p[1]) /\ v = In(p[1])[p[2]]
  BY DEF ExtInputs
<1>3. p[1] \in R /\ p[2] \in DOMAIN In(p[1])
  BY <1>1, <1>2, FusableShape
<1> QED BY <1>2, <1>3

LEMMA ExtFinite ==
  ASSUME WellTyped, Partition, NEW R \in regions
  PROVE  IsFiniteSet(ExtInputs(R))
<1>1. ASSUME NEW v \in ExtInputs(R) PROVE v \in Operand
  <2>1. PICK m \in R : \E r \in DOMAIN In(m) : v = In(m)[r]
    BY ExtAre
  <2>2. m \in Node
    BY FusableShape DEF Partition
  <2> QED BY <2>1, <2>2, OperandOf
<1>2. ExtInputs(R) \in SUBSET Operand
  BY <1>1
<1> QED BY <1>2, OperandsFinite, FS_Subset DEF WellTyped

LEMMA AnchorTakes ==
  ASSUME WellTyped, Partition, ~FusionRefused, NEW R \in regions
  PROVE  /\ Anchor(R) \in R /\ RegionOf(Anchor(R)) = R
         /\ \A k \in DOMAIN Seqs!SetToSeq(ExtInputs(R)) : \E m \in R : \E r \in DOMAIN In(m) :
              Seqs!SetToSeq(ExtInputs(R))[k] = In(m)[r]
<1>1. R \subseteq Fusable
  BY DEF Partition
<1>2. Anchor(R) \in R
  <2>1. Cardinality(Sinks(R)) # 0
    BY DEF FusionRefused
  <2>2. Sinks(R) # {}
    BY <2>1, FS_EmptySet
  <2> QED BY <2>2 DEF Anchor, Sinks
<1>3. RegionOf(Anchor(R)) = R
  <2>1. RegionOf(Anchor(R)) \in regions /\ Anchor(R) \in RegionOf(Anchor(R))
    BY <1>1, <1>2, RegionIs
  <2> QED BY <1>2, <2>1 DEF Partition
<1>4. \A k \in DOMAIN Seqs!SetToSeq(ExtInputs(R)) : Seqs!SetToSeq(ExtInputs(R))[k] \in ExtInputs(R)
  BY ExtFinite, Listed
<1> QED BY <1>2, <1>3, <1>4, ExtAre

\* What a cell drives is a result of its operation; of a load, what it read.
LEMMA GivesAre ==
  ASSUME WellTyped, Resolved, NEW n \in Node, NEW k \in DOMAIN Gives(n)
  PROVE  /\ Op(n) # "store"
         /\ \E r \in DOMAIN Out(n) : Gives(n)[k] = Out(n)[r] /\ (Op(n) = "load" => r = 2)
<1>1. Syntax /\ Typed(n)
  BY DEF WellTyped, Resolved
<1>2. CASE Op(n) = "load"
  <2>1. Len(Out(n)) = 2
    BY <1>1, <1>2 DEF Typed, Makes, FusableOps, DelayBearing
  <2>2. 2 \in DOMAIN Out(n)
    BY <1>1, <2>1, NodeShape
  <2>3. Gives(n) = <<Out(n)[2]>>
    BY <1>2 DEF Gives
  <2> QED BY <1>2, <2>2, <2>3
<1>3. CASE Op(n) = "store"
  <2>1. Gives(n) = <<>>
    BY <1>3 DEF Gives
  <2> QED BY <2>1
<1>4. CASE Op(n) = "mem_controller"
  <2>1. Len(Out(n)) = Len(Append(Sig(n), Control))
    BY <1>1, <1>4 DEF Typed, Makes, FusableOps, DelayBearing
  <2>2. Len(Out(n)) \in Nat /\ Len(Out(n)) >= 1 /\ DOMAIN Out(n) = 1..Len(Out(n))
    BY <1>1, <2>1, NodeShape
  <2>3. Gives(n) = <<Out(n)[Len(Out(n))]>>
    BY <1>4 DEF Gives, Seqs!Last
  <2>4. k = 1 /\ Len(Out(n)) \in DOMAIN Out(n)
    BY <2>2, <2>3
  <2> QED BY <1>4, <2>3, <2>4
<1>5. CASE Op(n) \notin {"load", "store", "mem_controller"}
  <2>1. Gives(n) = Out(n)
    BY <1>5 DEF Gives
  <2> QED BY <1>5, <2>1
<1> QED BY <1>2, <1>3, <1>4, <1>5

\* What it acknowledges is an operand of it, of a load the address, or one of its
\* region.
LEMMA TakesAre ==
  ASSUME WellTyped, Graphed, ~LoweringRefused, NEW n \in Lowered, NEW k \in DOMAIN Takes(n)
  PROVE  \/ \E r \in DOMAIN In(n) : Takes(n)[k] = In(n)[r] /\ (Op(n) = "load" => r = 1)
         \/ /\ prog.fuse
            /\ \E R \in regions : /\ n = Anchor(R)
                                  /\ \E m \in R : \E r \in DOMAIN In(m) : Takes(n)[k] = In(m)[r]
<1>1. Syntax /\ n \in Node
  BY DEF WellTyped, Lowered
<1>2. CASE n \in Anchors
  <2>1. PICK R \in regions : prog.fuse /\ n = Anchor(R)
    BY <1>2 DEF Anchors
  <2>2. Takes(n) = Seqs!SetToSeq(ExtInputs(R))
    <3>1. n \in R /\ RegionOf(n) = R
      BY <2>1, AnchorTakes DEF Graphed
    <3>2. Op(n) \notin {"load", "mem_controller"}
      BY <3>1 DEF Graphed, Partition, Fusable, FusableOps, DelayBearing
    <3> QED BY <1>2, <3>1, <3>2 DEF Takes
  <2>3. \E m \in R : \E r \in DOMAIN In(m) : Takes(n)[k] = In(m)[r]
    BY <2>1, <2>2, AnchorTakes DEF Graphed
  <2> QED BY <2>1, <2>3
<1>3. CASE n \notin Anchors /\ Op(n) = "load"
  <2>1. Len(In(n)) = 2
    BY <1>3 DEF LoweringRefused, Unlowerable
  <2>2. 1 \in DOMAIN In(n)
    BY <1>1, <2>1, NodeShape
  <2>3. Takes(n) = <<In(n)[1]>>
    BY <1>3 DEF Takes
  <2> QED BY <2>2, <2>3
<1>4. CASE n \notin Anchors /\ Op(n) = "mem_controller"
  <2>1. ~ControllerRefused(n)
    BY <1>1, <1>4 DEF Graphed, MemRefused, Controller
  <2>2. Len(In(n)) \in Nat /\ Len(In(n)) >= 3 /\ DOMAIN In(n) = 1..Len(In(n))
    BY <1>1, <2>1, NodeShape DEF ControllerRefused
  <2>3. Takes(n) = <<In(n)[2], In(n)[Len(In(n))]>>
    BY <1>4 DEF Takes, Seqs!Last
  <2>4. 2 \in DOMAIN In(n) /\ Len(In(n)) \in DOMAIN In(n)
    BY <2>2
  <2>5. Takes(n)[k] = In(n)[2] \/ Takes(n)[k] = In(n)[Len(In(n))]
    BY <2>3
  <2> QED BY <1>4, <2>4, <2>5
<1>5. CASE n \notin Anchors /\ Op(n) \notin {"load", "mem_controller"}
  <2>1. Takes(n) = In(n)
    BY <1>5 DEF Takes
  <2> QED BY <1>5, <2>1
<1> QED BY <1>2, <1>3, <1>4, <1>5

\* So a channel with a cell at either end is one of the graph.
LEMMA EndsAre ==
  ASSUME WellTyped, Graphed, TokenViolations = {}, ~LoweringRefused,
         NEW x \in Lowered, NEW k \in DOMAIN Gives(x),
         NEW y \in Lowered, NEW l \in DOMAIN Takes(y), NEW v, v = Gives(x)[k], v = Takes(y)[l]
  PROVE  /\ v \in RP!Edge /\ x = RP!Producer(v)
         /\ \/ y = RP!Consumer(v)
            \/ prog.fuse /\ \E R \in regions : RP!Consumer(v) \in R /\ y = Anchor(R)
<1>1. Syntax /\ SSA /\ x \in Node /\ y \in Node /\ Resolved /\ Partition /\ ~MemRefused
  BY DEF WellTyped, Lowered, Graphed
<1>2. /\ Op(x) # "store"
      /\ \E r \in DOMAIN Out(x) : v = Out(x)[r] /\ (Op(x) = "load" => r = 2)
  BY <1>1, GivesAre
<1>3. PICK r \in DOMAIN Out(x) : v = Out(x)[r] /\ (Op(x) = "load" => r = 2)
  BY <1>2
<1>u. ASSUME NEW n \in Node, NEW j \in DOMAIN Out(n), Out(n)[j] = v
      PROVE  n = x /\ j = r
  BY <1>1, <1>3, <1>u DEF SSA
<1>4. Maker(v) = x /\ v \in Results /\ v \in Value
  BY <1>1, <1>3, MadeBy, ResultOf
<1>5. \E m : /\ \E i \in DOMAIN In(m) : v = In(m)[i] /\ (Op(m) = "load" => i = 1)
             /\ m \in Node
             /\ \/ y = m
                \/ prog.fuse /\ \E R \in regions : m \in R /\ y = Anchor(R)
  <2>1. CASE \E i \in DOMAIN In(y) : v = In(y)[i] /\ (Op(y) = "load" => i = 1)
    BY <1>1, <2>1
  <2>2. CASE /\ prog.fuse
             /\ \E R \in regions : /\ y = Anchor(R)
                                   /\ \E m \in R : \E i \in DOMAIN In(m) : v = In(m)[i]
    <3>1. PICK R \in regions : /\ y = Anchor(R)
                               /\ \E m \in R : \E i \in DOMAIN In(m) : v = In(m)[i]
      BY <2>2
    <3>2. PICK m \in R : \E i \in DOMAIN In(m) : v = In(m)[i]
      BY <3>1
    <3>3. m \in Node /\ Op(m) # "load"
      BY <1>1 DEF Partition, Fusable, FusableOps, DelayBearing
    <3> QED BY <2>2, <3>1, <3>2, <3>3
  <2> QED BY <2>1, <2>2, TakesAre
<1>6. PICK m : /\ \E i \in DOMAIN In(m) : v = In(m)[i] /\ (Op(m) = "load" => i = 1)
               /\ m \in Node
               /\ \/ y = m
                  \/ prog.fuse /\ \E R \in regions : m \in R /\ y = Anchor(R)
  BY <1>5
<1>7. PICK i \in DOMAIN In(m) : v = In(m)[i] /\ (Op(m) = "load" => i = 1)
  BY <1>6
<1>8. Uses(v) = {<<m, i>>}
  <2>1. <<m, i>> \in Uses(v)
    BY <1>6, <1>7, UsedThere
  <2> QED BY <1>1, <1>4, <2>1, OneReader
<1>9. ASSUME v \in AbsorbedByMemory PROVE FALSE
  <2>1. PICK c \in Controller :
          \/ \E n \in Fns!Range(Accessors(c)) : v = Out(n)[1]
          \/ \E n \in Stores(c) : v = Out(n)[2]
          \/ \E n \in Loads(c) : v = In(n)[2]
    BY <1>9 DEF AbsorbedByMemory
  <2>2. ASSUME NEW n \in Fns!Range(Accessors(c))
        PROVE  n \in Node /\ Op(n) \in {"load", "store"} /\ {1, 2} \subseteq DOMAIN Out(n)
    <3>1. n \in Node /\ Op(n) \in {"load", "store"}
      BY <1>1, <2>2, AccessorsAre
    <3>2. Len(Out(n)) = 2
      BY <1>1, <3>1 DEF Resolved, Typed, Makes, FusableOps, DelayBearing
    <3> QED BY <1>1, <3>1, <3>2, NodeShape
  <2>3. CASE \E n \in Fns!Range(Accessors(c)) : v = Out(n)[1]
    <3>1. PICK n \in Fns!Range(Accessors(c)) : v = Out(n)[1]
      BY <2>3
    <3>2. n = x /\ r = 1
      BY <1>u, <2>2, <3>1
    <3> QED BY <1>2, <1>3, <2>2, <3>2
  <2>4. CASE \E n \in Stores(c) : v = Out(n)[2]
    <3>1. PICK n \in Stores(c) : v = Out(n)[2]
      BY <2>4
    <3>2. Op(n) = "store" /\ n \in Fns!Range(Accessors(c))
      BY DEF Stores
    <3>3. n = x
      BY <1>u, <2>2, <3>1, <3>2
    <3> QED BY <1>2, <3>2, <3>3
  <2>5. CASE \E n \in Loads(c) : v = In(n)[2]
    <3>1. PICK n \in Loads(c) : v = In(n)[2]
      BY <2>5
    <3>2. n \in Node /\ Op(n) = "load"
      BY <2>2 DEF Loads
    <3>3. Len(In(n)) = 2
      BY <1>1, <3>1 DEF MemRefused, ControllerRefused, Unclaimed
    <3>4. 2 \in DOMAIN In(n)
      BY <1>1, <3>2, <3>3, NodeShape
    <3>5. <<n, 2>> \in Uses(v)
      BY <3>1, <3>2, <3>4, UsedThere
    <3>6. n = m /\ i = 2
      BY <1>8, <3>5
    <3> QED BY <1>7, <3>2, <3>6
  <2> QED BY <2>1, <2>3, <2>4, <2>5
<1>10. v \in RP!Edge
  BY <1>4, <1>8, <1>9 DEF Graphed, RP!Edge, Fns!Restrict, NodeGraph
<1>11. RP!Producer(v) = x /\ RP!Consumer(v) = m
  <2>1. RP!Producer(v) = Maker(v) /\ \E u \in Uses(v) : RP!Consumer(v) = u[1]
    BY <1>10, WiresAre DEF Graphed
  <2> QED BY <1>4, <1>8, <2>1
<1> QED BY <1>6, <1>10, <1>11

\* What is written of a net: who drives it, and who acknowledges it.
LEMMA WiredAre ==
  ASSUME Lower
  PROVE  /\ drives' = [x \in UNION {{n} \X DOMAIN Gives(n) : n \in Lowered} |-> Up(Gives(x[1])[x[2]])]
         /\ takes' = [x \in UNION {{n} \X DOMAIN Takes(n) : n \in Lowered} |-> Down(Takes(x[1])[x[2]])]
<1>1. drives' = [x \in UNION {{n} \X DOMAIN Gives(n) : n \in Lowered} |-> Up(Gives(x[1])[x[2]])]
  <2> DEFINE p == [n \in Lowered |-> Gives(n)]
  <2>1. drives' = [x \in UNION {{n} \X DOMAIN p[n] : n \in Lowered} |-> Up(p[x[1]][x[2]])]
    BY DEF Lower, Wiring
  <2>2. \A n \in Lowered : p[n] = Gives(n)
    OBVIOUS
  <2> HIDE DEF p
  <2>3. UNION {{n} \X DOMAIN p[n] : n \in Lowered} = UNION {{n} \X DOMAIN Gives(n) : n \in Lowered}
    BY <2>2
  <2>4. \A x \in UNION {{n} \X DOMAIN Gives(n) : n \in Lowered} : p[x[1]] = Gives(x[1])
    BY <2>2
  <2> QED BY <2>1, <2>3, <2>4
<1>2. takes' = [x \in UNION {{n} \X DOMAIN Takes(n) : n \in Lowered} |-> Down(Takes(x[1])[x[2]])]
  <2> DEFINE p == [n \in Lowered |-> Takes(n)]
  <2>1. takes' = [x \in UNION {{n} \X DOMAIN p[n] : n \in Lowered} |-> Down(p[x[1]][x[2]])]
    BY DEF Lower, Wiring
  <2>2. \A n \in Lowered : p[n] = Takes(n)
    OBVIOUS
  <2> HIDE DEF p
  <2>3. UNION {{n} \X DOMAIN p[n] : n \in Lowered} = UNION {{n} \X DOMAIN Takes(n) : n \in Lowered}
    BY <2>2
  <2>4. \A x \in UNION {{n} \X DOMAIN Takes(n) : n \in Lowered} : p[x[1]] = Takes(x[1])
    BY <2>2
  <2> QED BY <2>1, <2>3, <2>4
<1> QED BY <1>1, <1>2

LEMMA WiringIs ==
  ASSUME WellTyped, Lower
  PROVE  \A v \in DOMAIN joined' :
           \E x, y \in Lowered : /\ joined'[v][1] = x /\ joined'[v][2] = y
                                 /\ \E k \in DOMAIN Gives(x) : Gives(x)[k] = v
                                 /\ \E k \in DOMAIN Takes(y) : Takes(y)[k] = v
<1> DEFINE from(v) == {x \in DOMAIN drives' : drives'[x] = Up(v)}
           to(v)   == {x \in DOMAIN takes' : takes'[x] = Down(v)}
<1> SUFFICES ASSUME NEW v \in DOMAIN joined'
             PROVE  \E x, y \in Lowered : /\ joined'[v][1] = x /\ joined'[v][2] = y
                                          /\ \E k \in DOMAIN Gives(x) : Gives(x)[k] = v
                                          /\ \E k \in DOMAIN Takes(y) : Takes(y)[k] = v
  OBVIOUS
<1>1. joined' = [w \in {u \in Value : from(u) # {} /\ to(u) # {}} |->
                   <<(CHOOSE z \in from(w) : TRUE)[1], (CHOOSE z \in to(w) : TRUE)[1]>>]
  BY DEF Lower
<1>4. PICK x \in from(v) : joined'[v][1] = x[1]
  <2> HIDE DEF from, to
  <2>1. from(v) # {} /\ joined'[v][1] = (CHOOSE z \in from(v) : TRUE)[1]
    BY <1>1
  <2> QED BY <2>1
<1>5. PICK y \in to(v) : joined'[v][2] = y[1]
  <2> HIDE DEF from, to
  <2>1. to(v) # {} /\ joined'[v][2] = (CHOOSE z \in to(v) : TRUE)[1]
    BY <1>1
  <2> QED BY <2>1
<1>6. x[1] \in Lowered /\ x[2] \in DOMAIN Gives(x[1]) /\ Up(Gives(x[1])[x[2]]) = Up(v)
  BY WiredAre
<1>7. y[1] \in Lowered /\ y[2] \in DOMAIN Takes(y[1]) /\ Down(Takes(y[1])[y[2]]) = Down(v)
  BY WiredAre
<1>8. Gives(x[1])[x[2]] = v /\ Takes(y[1])[y[2]] = v
  BY <1>6, <1>7 DEF Up, Down
<1> QED BY <1>4, <1>5, <1>6, <1>7, <1>8

LEMMA LowerJoins ==
  ASSUME WellTyped, Graphed, TokenViolations = {}, ~LoweringRefused, Lower
  PROVE  \A v \in DOMAIN joined' :
           /\ v \in RP!Edge /\ joined'[v][1] = RP!Producer(v)
           /\ \/ joined'[v][2] = RP!Consumer(v)
              \/ prog.fuse /\ \E R \in regions : RP!Consumer(v) \in R /\ joined'[v][2] = Anchor(R)
<1> TAKE v \in DOMAIN joined'
<1>1. PICK x \in Lowered, y \in Lowered :
        /\ joined'[v][1] = x /\ joined'[v][2] = y
        /\ \E k \in DOMAIN Gives(x) : Gives(x)[k] = v
        /\ \E k \in DOMAIN Takes(y) : Takes(y)[k] = v
  BY WiringIs
<1>2. PICK k \in DOMAIN Gives(x) : Gives(x)[k] = v
  BY <1>1
<1>3. PICK l \in DOMAIN Takes(y) : Takes(y)[l] = v
  BY <1>1
<1>4. /\ v \in RP!Edge /\ x = RP!Producer(v)
      /\ \/ y = RP!Consumer(v)
         \/ prog.fuse /\ \E R \in regions : RP!Consumer(v) \in R /\ y = Anchor(R)
  BY <1>2, <1>3, EndsAre
<1> QED BY <1>1, <1>4

-----------------------------------------------------------------------------
(* What the stages after the cut hand on.                                  *)

FloorInv == /\ at \in {"cut", "depths", "pad", "lower", "ports"} => DOMAIN depth = Value
            /\ at \in {"depths", "pad", "lower", "ports"} => Leaked = {}
            /\ at \in {"pad", "lower", "ports"} => Floor
            /\ at = "ports" /\ TokenViolations = {} => AllJoin

LEMMA FloorFrame ==
  ASSUME FrontSame, UNCHANGED storage
  PROVE  /\ Floor' <=> Floor
         /\ Leaked' = Leaked /\ Value' = Value /\ depth' = depth
         /\ RP!Edge' = RP!Edge
         /\ \A v : RP!Producer(v)' = RP!Producer(v) /\ RP!Consumer(v)' = RP!Consumer(v)
         /\ \A R : Anchor(R)' = Anchor(R)
         /\ joined' = joined => (AllJoin' <=> AllJoin)
<1>1. /\ edges' = edges /\ wires' = wires /\ rings' = rings /\ depth' = depth /\ ringpc' = ringpc
      /\ round' = round /\ prog' = prog /\ regions' = regions
  BY DEF storage, FrontSame, fusion
<1>2. RP!Edge' = RP!Edge /\ RP!Node' = RP!Node /\ RP!Channel' = RP!Channel /\ RP!Rounds' = RP!Rounds
      /\ \A v : RP!Producer(v)' = RP!Producer(v) /\ RP!Consumer(v)' = RP!Consumer(v)
      /\ RP!SimpleCycles(RP!Edge)' = RP!SimpleCycles(RP!Edge)
  BY <1>1 DEF RP!Edge, RP!Node, RP!Channel, RP!Rounds, RP!Producer, RP!Consumer, RP!SimpleCycles, RP!Endless
<1>3. Floor' <=> Floor
  <2>1. RP!TypeOK' <=> RP!TypeOK
    BY <1>1, <1>2 DEF RP!TypeOK
  <2>2. RP!Shape' <=> RP!Shape
    BY <1>1, <1>2, <2>1 DEF RP!Shape
  <2>3. RP!EveryRingLive' <=> RP!EveryRingLive
    BY <1>1 DEF RP!EveryRingLive, RP!Stages, RP!StagesOn
  <2> QED BY <1>1, <2>2, <2>3 DEF Floor
<1>4. \A R : Anchor(R)' = Anchor(R)
  BY <1>1 DEF Anchor, Sinks, Uses, Node, Out, In
<1>5. joined' = joined => (AllJoin' <=> AllJoin)
  BY <1>1, <1>2, <1>4 DEF AllJoin, Joins
<1>6. Leaked' = Leaked /\ Value' = Value
  BY <1>1, LeakFrame, ProgFrame
<1> QED BY <1>1, <1>2, <1>3, <1>4, <1>5, <1>6

LEMMA FloorBegin ==
  ASSUME StagesInit
  PROVE  FloorInv
BY DEF StagesInit, FloorInv

\* Before the links there is nothing to show, and then they are on values.
LEMMA FrontFloors ==
  ASSUME CompInv, \/ Arguments \/ WidthStep \/ WidthsEnd \/ ResolveMemory
                  \/ Fuse \/ FuseEnd \/ LinkSites
  PROVE  FloorInv'
<1>1. CASE LinkSites
  <2>1. prog' = prog /\ at' = "cut" /\ DOMAIN depth' = Value
    BY <1>1 DEF LinkSites, Running, Pass, LinkRuleOne
  <2> QED BY <2>1, ProgFrame DEF FloorInv
<1>2. CASE ~LinkSites
  <2>1. at' \in {"arguments", "widths", "memory", "fusion", "links"}
    BY <1>2 DEF Arguments, WidthStep, WidthsEnd, ResolveMemory, Fuse, FuseEnd, Running, Pass
  <2> QED BY <2>1 DEF FloorInv
<1> QED BY <1>1, <1>2

LEMMA CutFloors ==
  ASSUME CompInv, FloorInv, CutCycle \/ CutEnd
  PROVE  FloorInv'
<1>1. FrontSame /\ at = "cut" /\ DOMAIN depth = Value
  BY DEF CutCycle, CutEnd, Running, FrontSame, FloorInv
<1>2. Value' = Value
  BY <1>1, ProgFrame DEF FrontSame
<1>3. CASE CutCycle
  <2>1. at' = "cut" /\ DOMAIN depth' = Value
    BY <1>1, <1>3 DEF CutCycle, Ring!Cut, Ring!Channel
  <2> QED BY <1>2, <2>1 DEF FloorInv
<1>4. CASE CutEnd
  <2>1. depth' = depth
    BY <1>4 DEF CutEnd, Ring!CutDone
  <2>2. at' = "cut" \/ (at' = "depths" /\ Leaked = {})
    BY <1>1, <1>4 DEF CutEnd, Pass
  <2> QED BY <1>1, <1>2, <2>1, <2>2, LeakFrame DEF FloorInv
<1> QED BY <1>3, <1>4

\* A link is deepened where there is one.
LEMMA DeepenLinked == DeepenLink => linked' \subseteq linked
<1> SUFFICES ASSUME DeepenLink PROVE linked' \subseteq linked
  OBVIOUS
<1>1. PICK C, e :
        /\ e \in Ring!Preferred(C \intersect Ring!linked)
        /\ depth' = [depth EXCEPT ![e] = @ + Ring!Missing(C)]
  BY DEF DeepenLink, Ring!Deepen
<1>2. e \in linked
  BY <1>1 DEF Ring!Preferred, linked
<1> QED BY <1>1, <1>2 DEF linked, Ring!linked, Ring!Channel

LEMMA DeepenFloors ==
  ASSUME CompInv, FloorInv, DeepenLink
  PROVE  FloorInv'
<1>1. /\ FrontSame /\ at = "depths" /\ at' = "depths" /\ Ring!Deepen
      /\ DOMAIN depth = Value /\ Leaked = {}
  BY DEF DeepenLink, Running, FrontSame, FloorInv
<1>2. Value' = Value
  BY <1>1, ProgFrame DEF FrontSame
<1>3. DOMAIN depth' = DOMAIN depth
  BY <1>1 DEF Ring!Deepen
<1>4. Leaked' = {}
  BY <1>1, DeepenLinked, FrontFrame DEF Leaked
<1> QED BY <1>1, <1>2, <1>3, <1>4 DEF FloorInv

LEMMA DepthsFloor ==
  ASSUME CompInv, FloorInv, DepthsEnd
  PROVE  FloorInv'
<1>1. /\ FrontSame /\ edges' = edges /\ at = "depths" /\ Ring!DeepenStop
      /\ DOMAIN depth = Value /\ Leaked = {}
      /\ at' = "depths" \/ at' = "pad"
  BY DEF DepthsEnd, Running, Pass, FrontSame, FloorInv
<1>2. Value' = Value /\ depth' = depth
  BY <1>1, ProgFrame DEF FrontSame, Ring!DeepenStop
<1>3. RP!IInv'
  BY <1>1, RingStep
<1>4. ringpc' \in {"done", "refused"}
  BY <1>1 DEF Ring!DeepenStop
<1>5. Floor'
  BY <1>3, <1>4 DEF RP!IInv, RP!DeepenInv, RP!EveryRingLive, Floor
<1>6. Leaked' = {}
  BY <1>1, <1>2, LeakFrame
<1> QED BY <1>1, <1>2, <1>5, <1>6 DEF FloorInv

\* More stages on a link leave it the only kind of channel that has any.
LEMMA PadDepths ==
  ASSUME CompInv, FloorInv, PadRings
  PROVE  /\ depth' \in [Value -> Nat] /\ linked' \subseteq linked
         /\ \A v \in Value : depth[v] <= depth'[v]
<1>1. FrontSame /\ at = "pad" /\ RingPad /\ DOMAIN depth = Value /\ Floor
  BY DEF PadRings, Running, FrontSame, FloorInv
<1>2. PICK entry \in SUBSET linked :
        /\ entry # {} => prog.ringPad > 0
        /\ depth' = [v \in Value |-> depth[v] + IF v \in entry THEN prog.ringPad ELSE 0]
  <2> DEFINE cyclic == UNION {Fns!Range(edges[v]) : v \in UNION Whole!Components(DOMAIN edges)}
             entry  == {v \in linked \intersect DOMAIN edges :
                            /\ prog.ringPad > 0
                            /\ Fns!Range(edges[v]) \subseteq cyclic
                            /\ edges[v][2] \in Headers}
  <2>1. depth' = [v \in Value |-> depth[v] + IF v \in entry THEN prog.ringPad ELSE 0]
    BY <1>1 DEF RingPad
  <2>2. entry \in SUBSET linked /\ (entry # {} => prog.ringPad > 0)
    OBVIOUS
  <2> HIDE DEF entry
  <2> QED BY <2>1, <2>2
<1>3. Value' = Value /\ prog.ringPad \in Int
  BY <1>1, ProgFrame DEF FrontSame, CompInv, WellTyped, Syntax
<1>4. RP!Shape /\ RP!Channel = Value /\ depth \in [Value -> Nat]
  BY <1>1 DEF Floor, RP!Shape, RP!TypeOK, RP!Channel
<1>5. \A v \in Value : depth'[v] \in Nat /\ depth[v] <= depth'[v] /\ (depth'[v] > 0 => depth[v] > 0)
  <2> TAKE v \in Value
  <2>1. depth[v] \in Nat
    BY <1>4
  <2>2. CASE v \in entry
    <3>1. depth[v] > 0 /\ prog.ringPad > 0
      BY <1>2, <2>2 DEF linked, Ring!linked
    <3>2. depth'[v] = depth[v] + prog.ringPad
      BY <1>2, <2>2
    <3> QED BY <1>3, <2>1, <3>1, <3>2
  <2>3. CASE v \notin entry
    <3>1. depth'[v] = depth[v] + 0
      BY <1>2, <2>3
    <3> QED BY <2>1, <3>1
  <2> QED BY <2>2, <2>3
<1>6. DOMAIN depth' = Value
  BY <1>2
<1>7. linked' \subseteq linked
  BY <1>1, <1>5, <1>6 DEF linked, Ring!linked, Ring!Channel
<1> QED BY <1>2, <1>5, <1>6, <1>7

LEMMA PadFloors ==
  ASSUME CompInv, FloorInv, PadRings
  PROVE  FloorInv'
<1>1. /\ FrontSame /\ at = "pad" /\ at' = "lower"
      /\ DOMAIN depth = Value /\ Leaked = {} /\ Floor
      /\ wires' = wires /\ rings' = rings /\ ringpc' = ringpc /\ round' = round
  BY DEF PadRings, Running, Pass, FrontSame, FloorInv
<1>2. Value' = Value
  BY <1>1, ProgFrame DEF FrontSame
<1>3. RP!Shape /\ RP!Channel = Value
  BY <1>1 DEF Floor, RP!Channel
<1>4. depth' \in [RP!Channel -> Nat] /\ \A v \in RP!Channel : depth[v] <= depth'[v]
  BY <1>3, PadDepths
<1>5. UNCHANGED RP!input
  BY <1>1, FrontFrame DEF RP!input
<1>6. RP!Shape'
  <2>1. ringpc' \in {"cut", "deepen", "done", "refused"} /\ round' \in 0..RP!Rounds
    BY <1>1, <1>3 DEF RP!Shape, RP!TypeOK
  <2> QED BY <1>3, <1>4, <1>5, <2>1, RP!ShapeStep
<1>7. RP!EveryRingLive'
  <2>1. ASSUME NEW C \in rings
        PROVE  RP!Stages(C)' >= RP!RingMinStages
    <3>1. RP!Stages(C) <= RP!Stages(C)' /\ RP!Stages(C)' \in Nat
      BY <1>3, <1>4, <1>5, RP!StagesGrow
    <3>2. RP!Stages(C) >= RP!RingMinStages /\ RP!Stages(C) \in Nat
      BY <1>1, <1>3, RP!StagesNat DEF Floor, RP!EveryRingLive
    <3> QED BY <3>1, <3>2 DEF RP!RingMinStages
  <2> QED BY <1>1, <2>1 DEF Floor, RP!EveryRingLive
<1>8. Floor'
  BY <1>1, <1>6, <1>7 DEF Floor
<1>9. Leaked' = {}
  BY <1>1, PadDepths, FrontFrame DEF Leaked
<1>10. DOMAIN depth' = Value
  BY PadDepths
<1> QED BY <1>1, <1>2, <1>8, <1>9, <1>10 DEF FloorInv

LEMMA LowerFloors ==
  ASSUME CompInv, FloorInv, LowerNodes
  PROVE  FloorInv'
<1>1. /\ FrontSame /\ UNCHANGED storage /\ at = "lower"
      /\ DOMAIN depth = Value /\ Leaked = {} /\ Floor
      /\ \/ at' = "lower"
         \/ at' = "ports" /\ ~LoweringRefused /\ Lower
  BY DEF LowerNodes, Running, Pass, FrontSame, FloorInv
<1>2. DOMAIN depth' = Value' /\ Leaked' = {} /\ Floor'
  BY <1>1, FloorFrame
<1>3. ASSUME at' = "ports", TokenViolations' = {}
      PROVE  AllJoin'
  <2>1. TokenViolations = {} /\ WellTyped /\ Graphed /\ ~LoweringRefused /\ Lower
    BY <1>1, <1>3, FrontFrame, CompGraphed DEF CompInv
  <2>2. \A v \in DOMAIN joined' :
           /\ v \in RP!Edge /\ joined'[v][1] = RP!Producer(v)
           /\ \/ joined'[v][2] = RP!Consumer(v)
              \/ prog.fuse /\ \E R \in regions : RP!Consumer(v) \in R /\ joined'[v][2] = Anchor(R)
    BY <2>1, LowerJoins
  <2>3. regions' = regions /\ prog' = prog
    BY <1>1 DEF FrontSame, fusion
  <2> QED BY <1>1, <2>2, <2>3, FloorFrame DEF AllJoin, Joins
<1> QED BY <1>1, <1>2, <1>3 DEF FloorInv

LEMMA LastFloors ==
  ASSUME CompInv, FloorInv, Ports \/ UNCHANGED vars
  PROVE  FloorInv'
<1>1. FrontSame /\ UNCHANGED storage /\ at' = at /\ joined' = joined
  BY DEF Ports, vars, FrontSame, netlist
<1>2. TokenViolations' = TokenViolations
  BY <1>1, FrontFrame
<1> QED BY <1>1, <1>2, FloorFrame DEF FloorInv

LEMMA FloorStep == CompInv /\ FloorInv /\ [Next]_vars => FloorInv'
BY FrontFloors, CutFloors, DeepenFloors, DepthsFloor, PadFloors, LowerFloors, LastFloors DEF Next

LEMMA FloorHolds ==
  ASSUME CompInv, FloorInv
  PROVE  NoShortRing
<1> SUFFICES ASSUME Emitting, TokenViolations = {}, NEW v \in DOMAIN joined,
                    NEW w \in Walk(joined[v][2]), w[1] = joined[v][1]
             PROVE  w[2] + depth[v] >= Ring!RingMinStages
  BY DEF NoShortRing
<1>1. at = "ports"
  BY DEF Emitting, Running
<1>2. WellTyped /\ Graphed /\ Leaked = {} /\ Floor /\ AllJoin
  BY <1>1, CompGraphed DEF CompInv, FloorInv
<1> QED BY <1>2, NoneShort

-----------------------------------------------------------------------------
(* Selects.  A link on a data channel is in front of a cell with a delay   *)
(* of its own, or on a select and padded: there is nothing it could make   *)
(* late that is sampled.                                                   *)

\* What a cell computes, or has merged, comes with a delay; the rest is wire.
Delaying(n) == Op(n) \in DelayBearing \/ (Op(n) \in {"merge", "control_merge"} /\ Len(In(n)) >= 2)

Shielded(v) == ch[v] # Control => \A u \in Uses(v) : Delaying(u[1])

SiteInv == /\ at = "cut" => MeasurabilitySites \intersect Value \subseteq linked
           /\ at \in {"cut", "depths", "pad", "lower", "ports"} /\ TokenViolations = {} /\ ~BareData
                => \A v \in linked : Shielded(v)

LEMMA SiteFrame ==
  ASSUME FrontSame
  PROVE  /\ BareData' <=> BareData
         /\ \A v : Shielded(v)' <=> Shielded(v)
         /\ Value' = Value /\ MeasurabilitySites' = MeasurabilitySites
         /\ TokenViolations' = TokenViolations
<1>1. prog' = prog /\ ch' = ch
  BY DEF FrontSame, widths
<1>2. /\ MeasurabilitySites' = MeasurabilitySites /\ AbsorbedByMemory' = AbsorbedByMemory
      /\ TokenViolations' = TokenViolations
  BY FrontFrame
<1>3. /\ Results' = Results /\ Value' = Value
      /\ \A v : Uses(v)' = Uses(v)
      /\ \A n : Op(n)' = Op(n) /\ In(n)' = In(n) /\ Out(n)' = Out(n)
  BY <1>1, ProgFrame, UsesFrame
<1>4. \A n : Delaying(n)' <=> Delaying(n)
  BY <1>3 DEF Delaying
<1>5. BareData' <=> BareData
  <2>1. \A V : Circular(V)' <=> Circular(V)
    BY <1>3 DEF Circular
  <2> QED BY <1>1, <1>2, <1>3, <2>1 DEF BareData
<1>6. \A v : Shielded(v)' <=> Shielded(v)
  BY <1>1, <1>3, <1>4 DEF Shielded
<1> QED BY <1>2, <1>3, <1>5, <1>6

\* Where rule 1 puts a link.
LEMMA RuleOneShields ==
  ASSUME WellTyped, Partition, TokenViolations = {}, NEW v \in Value, v \in MeasurabilitySites
  PROVE  \A u \in Uses(v) : Delaying(u[1])
<1>1. v \in BearingInputs /\ Syntax
  BY DEF MeasurabilitySites, WellTyped
<1>2. \E u \in Uses(v) : Delaying(u[1])
  <2>1. CASE \E u \in Uses(v) : u[1] \in Bearing
    <3>1. \A n \in Bearing : Delaying(n)
      BY DEF Bearing, Delaying, DelayBearing
    <3> QED BY <2>1, <3>1
  <2>2. CASE \E R \in regions : \E u \in Uses(v) : u[1] \in R
    <3>1. \A R \in regions : \A n \in R : Delaying(n)
      BY DEF Partition, Fusable, FusableOps, Delaying
    <3> QED BY <2>2, <3>1
  <2> QED BY <1>1, <2>1, <2>2, BearingReader
<1>3. \E u \in Uses(v) : Uses(v) = {u}
  BY <1>1, OneReader
<1> QED BY <1>2, <1>3

\* Where rule 2 does.
LEMMA RuleTwoShields ==
  ASSUME WellTyped, Graphed, ~BareData, MeasurabilitySites \intersect Value \subseteq linked,
         NEW E \in RP!Live, NEW e \in RP!Preferred(E)
  PROVE  Shielded(e)
<1>1. /\ IsFiniteSet(RP!Edge) /\ RP!Edge \subseteq Results
      /\ \A v \in RP!Edge : /\ v \notin AbsorbedByMemory
                            /\ RP!Producer(v) = Maker(v)
                            /\ \E u \in Uses(v) : RP!Consumer(v) = u[1]
  BY WiresAre DEF Graphed, WellTyped
<1>2. RP!Bare \in SUBSET RP!Edge /\ RP!IsFiniteSet(RP!Bare)
  <2>1. RP!Bare \in SUBSET RP!Edge
    BY DEF RP!Bare
  <2> QED BY <1>1, <2>1, FS_Subset, SameFinite
<1>3. E \in RP!Components(RP!Bare) /\ E # {}
  BY DEF RP!Live
<1>4. E \subseteq RP!Bare /\ RP!Endless(E)
  BY <1>2, <1>3, RP!LiveIsEndless
<1>5. \A v \in E : \E w \in E : RP!Consumer(w) = RP!Producer(v)
  BY <1>2, <1>3, RP!LivePredecessor
<1>6. E \in SUBSET (Results \ (MeasurabilitySites \union AbsorbedByMemory))
  <2>1. linked = RP!linked
    BY SameRing
  <2>2. \A v \in E : v \in RP!Edge /\ v \notin linked
    BY <1>4, <2>1 DEF RP!Bare
  <2>3. \A v \in E : v \in Value
    BY <1>1, <2>2 DEF Value
  <2> QED BY <1>1, <2>2, <2>3
<1>7. ASSUME NEW v \in E
      PROVE  \E u \in Uses(v) : Fns!Range(Out(u[1])) \intersect E # {}
  <2>1. v \in RP!Edge /\ E \subseteq RP!Edge
    BY <1>2, <1>4
  <2>2. PICK u \in Uses(v) : RP!Consumer(v) = u[1]
    BY <1>1, <2>1
  <2>3. PICK w \in E : RP!Producer(w) = RP!Consumer(v)
    BY <1>4 DEF RP!Endless
  <2>4. w \in Results /\ Maker(w) = u[1]
    BY <1>1, <2>1, <2>2, <2>3
  <2>5. w \in Fns!Range(Out(u[1]))
    BY <2>4, MakerMakes DEF Fns!Range
  <2> QED BY <2>5
<1>8. ASSUME NEW v \in E
      PROVE  \E w \in E : \E u \in Uses(w) : v \in Fns!Range(Out(u[1]))
  <2>1. v \in RP!Edge /\ E \subseteq RP!Edge
    BY <1>2, <1>4
  <2>2. PICK w \in E : RP!Consumer(w) = RP!Producer(v)
    BY <1>5
  <2>3. PICK u \in Uses(w) : RP!Consumer(w) = u[1]
    BY <1>1, <2>1
  <2>4. v \in Results /\ Maker(v) = u[1]
    BY <1>1, <2>1, <2>2, <2>3
  <2>5. v \in Fns!Range(Out(u[1]))
    BY <2>4, MakerMakes DEF Fns!Range
  <2> QED BY <2>5
<1>9. e \in E
  BY DEF RP!Preferred
<1>10. Circular(E)
  BY <1>7, <1>8 DEF Circular
<1>11. \A v \in E : ch[v] = Control
  BY <1>6, <1>10 DEF BareData
<1> QED BY <1>9, <1>11 DEF Shielded

LEMMA FrontSites ==
  ASSUME CompInv, \/ Arguments \/ WidthStep \/ WidthsEnd \/ ResolveMemory
                  \/ Fuse \/ FuseEnd \/ LinkSites
  PROVE  SiteInv'
<1>1. CASE LinkSites
  <2>1. /\ FrontSame /\ at = "links"
        /\ depth' = [v \in Value |-> IF v \in MeasurabilitySites THEN 1 ELSE 0]
    BY <1>1 DEF LinkSites, Running, Pass, LinkRuleOne, FrontSame
  <2>2. linked' = MeasurabilitySites \intersect Value
    BY <2>1 DEF linked, Ring!linked, Ring!Channel
  <2>3. WellTyped /\ Partition
    BY <2>1, CompGraphed DEF CompInv, Graphed
  <2>4. TokenViolations = {} => \A v \in linked' : Shielded(v)
    BY <2>2, <2>3, RuleOneShields DEF Shielded
  <2> QED BY <2>1, <2>2, <2>4, SiteFrame DEF SiteInv
<1>2. CASE ~LinkSites
  <2>1. at' \in {"arguments", "widths", "memory", "fusion", "links"}
    BY <1>2 DEF Arguments, WidthStep, WidthsEnd, ResolveMemory, Fuse, FuseEnd, Running, Pass
  <2> QED BY <2>1 DEF SiteInv
<1> QED BY <1>1, <1>2

LEMMA CutSites ==
  ASSUME CompInv, FloorInv, SiteInv, CutCycle
  PROVE  SiteInv'
<1>1. FrontSame /\ at = "cut" /\ at' = "cut" /\ Ring!Cut
  BY DEF CutCycle, Running, FrontSame
<1>2. WellTyped /\ Graphed /\ MeasurabilitySites \intersect Value \subseteq linked
  BY <1>1, CompGraphed DEF CompInv, SiteInv
<1>d. DOMAIN depth = Value
  BY <1>1 DEF FloorInv
<1>3. PICK picks \in RP!Sets!Choices({RP!Preferred(E) : E \in RP!Live}) :
        depth' = [e \in Value |-> IF e \in picks THEN 1 ELSE depth[e]]
  <2> QED BY <1>1, <1>d, SameRing DEF RP!Cut, RP!Channel
<1>4. linked \subseteq linked' /\ linked' \subseteq linked \union picks
  BY <1>3, <1>d DEF linked, Ring!linked, Ring!Channel
<1>5. ~BareData => \A e \in picks : Shielded(e)
  <2>1. PICK f \in [{RP!Preferred(E) : E \in RP!Live} -> UNION {RP!Preferred(E) : E \in RP!Live}] :
          /\ \A T \in {RP!Preferred(E) : E \in RP!Live} : f[T] \in T
          /\ picks = RP!Sets!Range(f)
    BY <1>3 DEF RP!Sets!Choices
  <2>2. ASSUME NEW e \in picks
        PROVE  \E E \in RP!Live : e \in RP!Preferred(E)
    BY <2>1 DEF RP!Sets!Range
  <2> QED BY <1>2, <2>2, RuleTwoShields
<1> QED BY <1>1, <1>2, <1>4, <1>5, SiteFrame DEF SiteInv

\* After that no channel gets its first link.
LEMMA LaterSites ==
  ASSUME CompInv, FloorInv, SiteInv, \/ CutEnd \/ DeepenLink \/ DepthsEnd \/ PadRings
                                     \/ LowerNodes \/ Ports \/ UNCHANGED vars
  PROVE  SiteInv'
<1>1. CASE CutEnd \/ DepthsEnd \/ LowerNodes \/ Ports \/ UNCHANGED vars
  <2>1. FrontSame /\ depth' = depth
    BY <1>1 DEF CutEnd, DepthsEnd, LowerNodes, Ports, vars, storage, FrontSame,
                Ring!CutDone, Ring!DeepenStop
  <2>2. linked' = linked
    BY <2>1 DEF linked, Ring!linked, Ring!Channel
  <2>3. /\ at' = "cut" => at = "cut"
        /\ at' = at \/ at \in {"cut", "depths", "pad", "lower", "ports"}
    BY <1>1 DEF CutEnd, DepthsEnd, LowerNodes, Ports, vars, Running, Pass
  <2> QED BY <2>1, <2>2, <2>3, SiteFrame DEF SiteInv
<1>2. CASE DeepenLink \/ PadRings
  <2>1. FrontSame /\ at \in {"depths", "pad"} /\ at' # "cut"
    BY <1>2 DEF DeepenLink, PadRings, FrontSame, Running, Pass
  <2>2. linked' \subseteq linked
    BY <1>2, DeepenLinked, PadDepths
  <2> QED BY <2>1, <2>2, SiteFrame DEF SiteInv
<1> QED BY <1>1, <1>2

LEMMA SiteStep == CompInv /\ FloorInv /\ SiteInv /\ [Next]_vars => SiteInv'
BY FrontSites, CutSites, LaterSites DEF Next

\* What a cell hands on undelayed it has from a cell that delays nothing.
LEMMA ThroughIs ==
  ASSUME Graphed, NEW v \in Results, NEW u \in Through(v)
  PROVE  \E x \in Uses(u) : ~Delaying(x[1])
<1> DEFINE n == Maker(v)
<1>1. n \in Node /\ Typed(n)
  BY MakerMakes DEF Graphed, Resolved
<1>2. CASE Op(n) \in {"fork", "lazy_fork", "br", "trunci", "extui", "extsi"}
  <2>1. u = In(n)[1] /\ ~Delaying(n)
    BY <1>2 DEF Through, Delaying, DelayBearing
  <2>2. 1 \in DOMAIN In(n)
    <3>1. Alike(n, 1) \/ Len(In(n)) = 1
      BY <1>1, <1>2 DEF Typed, FusableOps, DelayBearing
    <3> QED BY <1>1, <3>1, NodeShape DEF Alike
  <2> QED BY <1>1, <2>1, <2>2, UsedThere
<1>3. CASE Op(n) = "cond_br"
  <2>1. u = In(n)[2] /\ ~Delaying(n)
    BY <1>3 DEF Through, Delaying, DelayBearing
  <2>2. 2 \in DOMAIN In(n)
    BY <1>1, <1>3 DEF Typed, Alike, FusableOps, DelayBearing
  <2> QED BY <1>1, <2>1, <2>2, UsedThere
<1>4. CASE Op(n) \in {"merge", "control_merge"}
  <2>1. u = In(n)[1] /\ Len(In(n)) = 1
    BY <1>4 DEF Through
  <2>2. ~Delaying(n)
    BY <1>4, <2>1 DEF Delaying, DelayBearing
  <2>3. 1 \in DOMAIN In(n)
    BY <1>1, <2>1, NodeShape
  <2> QED BY <1>1, <2>1, <2>2, <2>3, UsedThere
<1>5. Op(n) \in {"fork", "lazy_fork", "br", "trunci", "extui", "extsi", "cond_br",
                 "merge", "control_merge"}
  BY DEF Through
<1> QED BY <1>2, <1>3, <1>4, <1>5

\* The links whose data comes after the request, and what is as late as V.
Early == {v \in linked : /\ ch[v] # Control
                         /\ v \notin DOMAIN prog.pads
                         /\ Pad(v) < SelectPad * depth[v]}

Behind(V) == V \union {v \in Results : Through(v) \intersect V # {}}

\* A search for what is behind the early links, as Trailing does it.
Searched(g, k) ==
  g = [i \in 0..k |->
         IF i = 0 THEN {<<Early, Early>>}
         ELSE UNION {{<<{x : x \in p[1] \union T}, {x : x \in T \ p[1]}>> :
                        T \in {{x : x \in Behind(p[2])}}} : p \in g[i-1]}]

\* It ends where it began if nothing is.
LEMMA NothingBehind ==
  ASSUME Behind(Early) = Early, Len(prog.nodes) \in Nat
  PROVE  Trailing = Early
<1> DEFINE k == Len(prog.nodes)
           At(i) == IF i = 0 THEN {<<Early, Early>>} ELSE {<<Early, {}>>}
           Then(G) == UNION {{<<{x : x \in p[1] \union T}, {x : x \in T \ p[1]}>> :
                                T \in {{x : x \in Behind(p[2])}}} : p \in G}
           w == [i \in 0..k |-> At(i)]
           g == CHOOSE f : Searched(f, k)
           T0 == {i \in 0..k : g[i] # At(i)}
<1>1. Behind({}) = {}
  BY DEF Behind
<1>2. \A i \in Nat : i # 0 => Then(At(i - 1)) = At(i)
  <2>1. ASSUME NEW A, NEW B
        PROVE  Then({<<A, B>>}) = {<<A \union Behind(B), Behind(B) \ A>>}
    <3>1. /\ {x : x \in Behind(B)} = Behind(B)
          /\ {x : x \in A \union Behind(B)} = A \union Behind(B)
          /\ {x : x \in Behind(B) \ A} = Behind(B) \ A
      OBVIOUS
    <3> QED BY <3>1
  <2>2. /\ Then({<<Early, Early>>}) = {<<Early \union Early, Early \ Early>>}
        /\ Then({<<Early, {}>>}) = {<<Early \union {}, {} \ Early>>}
    <3> HIDE DEF Then
    <3> QED BY <1>1, <2>1
  <2>3. Early \union Early = Early /\ Early \ Early = {} /\ Early \union {} = Early /\ {} \ Early = {}
    OBVIOUS
  <2> HIDE DEF Then
  <2> QED BY <2>2, <2>3
<1>3. \A f : Searched(f, k) <=> f = [i \in 0..k |-> IF i = 0 THEN {<<Early, Early>>} ELSE Then(f[i-1])]
  BY DEF Searched
<1>4. Trailing = UNION {p[1] : p \in g[k]}
  BY DEF Trailing, Grown, Searched, Behind, Early
<1> HIDE DEF Then, k
<1>k. k \in Nat
  BY DEF k
<1>5. Searched(w, k)
  <2>1. \A i \in 0..k : w[i] = IF i = 0 THEN {<<Early, Early>>} ELSE Then(w[i - 1])
    <3> SUFFICES ASSUME NEW i \in 0..k
                 PROVE  w[i] = IF i = 0 THEN {<<Early, Early>>} ELSE Then(w[i - 1])
      OBVIOUS
    <3>1. w[i] = At(i) /\ i \in Nat /\ (i # 0 => w[i - 1] = At(i - 1))
      BY <1>k
    <3> HIDE DEF w
    <3> QED BY <3>1, <1>2
  <2>2. w = [i \in 0..k |-> w[i]]
    OBVIOUS
  <2> HIDE DEF w
  <2> QED BY <1>3, <2>1, <2>2
<1>6. Searched(g, k)
  <2> HIDE DEF w
  <2> QED BY <1>5
<1> HIDE DEF g
<1>7. g[0] = At(0) /\ \A i \in 0..k : i # 0 => g[i] = Then(g[i - 1])
  BY <1>3, <1>6, <1>k
<1> HIDE DEF At
<1>8. T0 = {}
  <2> SUFFICES ASSUME T0 # {} PROVE FALSE
    OBVIOUS
  <2>1. T0 \in SUBSET Nat
    BY <1>k
  <2>2. PICK j \in T0 : \A i \in T0 : j <= i
    <3> HIDE DEF T0
    <3> QED BY <2>1, LeastNat
  <2>3. j # 0 /\ j \in 0..k /\ j - 1 \in 0..k /\ ~(j <= j - 1)
    BY <1>7, <2>2, <1>k
  <2>4. g[j - 1] = At(j - 1)
    BY <2>2, <2>3
  <2>5. g[j] = At(j)
    BY <2>3, <2>4, <1>2, <1>7
  <2> QED BY <2>2, <2>5
<1>9. g[k] = At(k)
  BY <1>8, <1>k
<1>10. \A S : UNION {p[1] : p \in {<<Early, S>>}} = Early
  <2> TAKE S
  <2>1. {p[1] : p \in {<<Early, S>>}} = {Early}
    OBVIOUS
  <2> QED BY <2>1
<1>11. At(k) = {<<Early, Early>>} \/ At(k) = {<<Early, {}>>}
  BY DEF At
<1> QED BY <1>4, <1>9, <1>10, <1>11

LEMMA SitesHold ==
  ASSUME CompInv, FloorInv, SiteInv
  PROVE  SelectsSettled
<1> SUFFICES ASSUME Emitting, TokenViolations = {}, ~BareData
             PROVE  Selects \intersect Trailing = {}
  BY DEF SelectsSettled
<1>1. at = "ports"
  BY DEF Emitting, Running
<1>2. WellTyped /\ Graphed /\ \A v \in linked : Shielded(v)
  BY <1>1, CompGraphed DEF CompInv, SiteInv
<1>3. Behind(Early) = Early
  <2>1. \A v \in Results : \A u \in Through(v) : u \notin Early
    BY <1>2, ThroughIs DEF Early, Shielded
  <2> QED BY <2>1 DEF Behind
<1>4. Len(prog.nodes) \in Nat
  BY <1>2 DEF WellTyped, Syntax
<1>5. ASSUME NEW v \in Selects, v \in Early PROVE FALSE
  <2>1. Pad(v) = SelectPad * depth[v] /\ depth[v] \in Nat
    BY <1>1, <1>5 DEF Pad, Early, FloorInv, Floor, RP!Shape, RP!TypeOK, linked, Ring!linked,
                      Ring!Channel, RP!Channel
  <2> QED BY <1>5, <2>1, PadAssumption DEF Early
<1> QED BY <1>3, <1>4, <1>5, NothingBehind

(* Of any function the front end can have parsed: no ring of the cells the *)
(* netlist joins has fewer stages than it needs to live, whatever fusion   *)
(* made one cell of and memory wiring took away, and no select is sampled  *)
(* behind a link that is not padded for it.                                *)
THEOREM AnyNetlist == WellTyped /\ StagesInit /\ [][Next]_vars => []StorageSound
<1> DEFINE I == CompInv /\ FloorInv /\ SiteInv
<1>1. WellTyped /\ StagesInit => I
  BY CompBegin, FloorBegin DEF SiteInv, StagesInit
<1>2. I /\ [Next]_vars => I'
  BY CompStep, FloorStep, SiteStep
<1>3. I => StorageSound
  BY FloorHolds, SitesHold DEF StorageSound
<1> HIDE DEF I
<1> QED BY <1>1, <1>2, <1>3, PTL

(* The stages and the pads of every kernel: what link_sites, ring_depths   *)
(* and emit_links decided on operations is right for the cells.            *)
THEOREM StorageCorrect == Spec => []StorageSound
<1>1. Init => WellTyped /\ StagesInit
  BY DEF Init
<1> QED BY <1>1, AnyNetlist, PTL DEF Spec

-----------------------------------------------------------------------------
(* Who is at the ends of a net.                                            *)

\* A finite set as a list has nothing in it twice.
LEMMA ListedOnce ==
  ASSUME NEW S, IsFiniteSet(S), NEW k \in DOMAIN Seqs!SetToSeq(S), NEW l \in DOMAIN Seqs!SetToSeq(S),
         Seqs!SetToSeq(S)[k] = Seqs!SetToSeq(S)[l]
  PROVE  k = l
<1>1. \E f \in [1..Cardinality(S) -> S] : Seqs!IsInjective(f)
  <2>1. PICK f \in Bijection(1..Cardinality(S), S) : TRUE
    BY FS_CardinalityType DEF ExistsBijection
  <2> QED BY <2>1 DEF Bijection, Injection, IsInjective, Seqs!IsInjective
<1>2. Seqs!IsInjective(Seqs!SetToSeq(S))
  <2>1. Seqs!Cardinality(S) = Cardinality(S)
    BY DEF Seqs!Cardinality, Cardinality
  <2> QED BY <1>1, <2>1 DEF Seqs!SetToSeq
<1> QED BY <1>2 DEF Seqs!IsInjective

LEMMA GivenOnce ==
  ASSUME WellTyped, Resolved, NEW x \in Node, NEW k \in DOMAIN Gives(x),
         NEW y \in Node, NEW l \in DOMAIN Gives(y), Gives(x)[k] = Gives(y)[l]
  PROVE  x = y /\ k = l
<1>1. PICK r \in DOMAIN Out(x) : Gives(x)[k] = Out(x)[r]
  BY GivesAre
<1>2. PICK s \in DOMAIN Out(y) : Gives(y)[l] = Out(y)[s]
  BY GivesAre
<1>3. x = y
  BY <1>1, <1>2 DEF WellTyped, SSA
<1>4. CASE Op(x) \in {"load", "mem_controller"}
  <2>1. DOMAIN Gives(x) = {1}
    BY <1>4 DEF Gives
  <2> QED BY <1>3, <2>1
<1>5. CASE Op(x) = "store"
  BY <1>5, GivesAre
<1>6. CASE Op(x) \notin {"load", "store", "mem_controller"}
  <2>1. Gives(x) = Out(x)
    BY <1>6 DEF Gives
  <2> QED BY <1>3, <2>1 DEF WellTyped, SSA
<1> QED BY <1>3, <1>4, <1>5, <1>6

\* The operation that reads what cell n acknowledges at port k.
ReadsFor(m, i, n) == /\ m \in Node /\ i \in DOMAIN In(m)
                     /\ \/ m = n
                        \/ prog.fuse /\ \E R \in regions : m \in R /\ n = Anchor(R)

LEMMA TakesFor ==
  ASSUME WellTyped, Graphed, ~LoweringRefused, NEW n \in Lowered, NEW k \in DOMAIN Takes(n)
  PROVE  \E m, i : ReadsFor(m, i, n) /\ Takes(n)[k] = In(m)[i]
<1>1. n \in Node /\ \A R \in regions : R \subseteq Node
  BY DEF Lowered, Graphed, Partition, Fusable
<1>2. CASE \E r \in DOMAIN In(n) : Takes(n)[k] = In(n)[r]
  BY <1>1, <1>2 DEF ReadsFor
<1>3. CASE prog.fuse /\ \E R \in regions : /\ n = Anchor(R)
                                           /\ \E m \in R : \E r \in DOMAIN In(m) : Takes(n)[k] = In(m)[r]
  BY <1>1, <1>3 DEF ReadsFor
<1> QED BY <1>2, <1>3, TakesAre

\* An operation is lowered in one cell.
LEMMA OneCell ==
  ASSUME WellTyped, Graphed, NEW x \in Lowered, NEW y \in Lowered, NEW m, NEW i,
         ReadsFor(m, i, x), ReadsFor(m, i, y)
  PROVE  x = y
<1>1. ASSUME NEW R \in regions, NEW z \in Lowered, prog.fuse, z \in R
      PROVE  z = Anchor(R)
  BY <1>1 DEF Lowered, Skipped, Interior
<1>2. \A P, Q \in regions : m \in P /\ m \in Q => P = Q
  BY DEF Graphed, Partition
<1> QED BY <1>1, <1>2 DEF ReadsFor

LEMMA TakenOnce ==
  ASSUME WellTyped, Graphed, TokenViolations = {}, ~LoweringRefused,
         NEW x \in Lowered, NEW k \in DOMAIN Takes(x),
         NEW y \in Lowered, NEW l \in DOMAIN Takes(y),
         Takes(x)[k] = Takes(y)[l], Takes(x)[k] \in Value
  PROVE  x = y /\ k = l
<1> DEFINE v == Takes(x)[k]
<1>1. Syntax /\ x \in Node
  BY DEF WellTyped, Lowered
<1>2. PICK u \in Uses(v) : Uses(v) = {u}
  BY <1>1, OneReader
<1>3. PICK m, i : ReadsFor(m, i, x) /\ v = In(m)[i]
  BY TakesFor
<1>4. PICK n, j : ReadsFor(n, j, y) /\ v = In(n)[j]
  BY TakesFor
<1>5. m = n /\ i = j
  <2>1. <<m, i>> \in Uses(v)
    BY <1>3, UsedThere DEF ReadsFor
  <2>2. <<n, j>> \in Uses(v)
    BY <1>4, UsedThere DEF ReadsFor
  <2> QED BY <1>2, <2>1, <2>2
<1>6. x = y
  BY <1>3, <1>4, <1>5, OneCell
<1>7. ASSUME NEW p \in DOMAIN In(x), NEW q \in DOMAIN In(x), In(x)[p] = v, In(x)[q] = v
      PROVE  p = q
  <2>1. <<x, p>> \in Uses(v) /\ <<x, q>> \in Uses(v)
    BY <1>1, <1>7, UsedThere
  <2> QED BY <1>2, <2>1
<1> HIDE DEF v
<1>v. v = Takes(x)[k] /\ v = Takes(x)[l] /\ l \in DOMAIN Takes(x)
  BY <1>6 DEF v
<1>8. CASE x \in Anchors
  <2>1. PICK R \in regions : prog.fuse /\ x = Anchor(R)
    BY <1>8 DEF Anchors
  <2>2. Takes(x) = Seqs!SetToSeq(ExtInputs(R))
    <3>1. x \in R /\ RegionOf(x) = R
      BY <2>1, AnchorTakes DEF Graphed
    <3>2. Op(x) \notin {"load", "mem_controller"}
      BY <3>1 DEF Graphed, Partition, Fusable, FusableOps, DelayBearing
    <3> QED BY <1>8, <3>1, <3>2 DEF Takes
  <2>3. IsFiniteSet(ExtInputs(R))
    BY ExtFinite DEF Graphed
  <2> QED BY <1>6, <1>v, <2>2, <2>3, ListedOnce
<1>9. CASE x \notin Anchors /\ Op(x) = "load"
  <2>1. DOMAIN Takes(x) = {1}
    BY <1>9 DEF Takes
  <2> QED BY <1>6, <1>v, <2>1
<1>10. CASE x \notin Anchors /\ Op(x) = "mem_controller"
  <2>1. ~ControllerRefused(x)
    BY <1>1, <1>10 DEF Graphed, MemRefused, Controller
  <2>2. Len(In(x)) \in Nat /\ Len(In(x)) >= 3 /\ DOMAIN In(x) = 1..Len(In(x))
    BY <1>1, <2>1, NodeShape DEF ControllerRefused
  <2>3. Takes(x) = <<In(x)[2], In(x)[Len(In(x))]>>
    BY <1>10 DEF Takes, Seqs!Last
  <2>4. 2 \in DOMAIN In(x) /\ Len(In(x)) \in DOMAIN In(x) /\ Len(In(x)) # 2
    BY <2>2
  <2>5. ~(In(x)[2] = v /\ In(x)[Len(In(x))] = v)
    BY <1>7, <2>4
  <2>6. k \in {1, 2} /\ l \in {1, 2} /\ Takes(x)[1] = In(x)[2] /\ Takes(x)[2] = In(x)[Len(In(x))]
    BY <1>v, <2>3
  <2> QED BY <1>6, <1>v, <2>5, <2>6
<1>11. CASE x \notin Anchors /\ Op(x) \notin {"load", "mem_controller"}
  <2>1. Takes(x) = In(x)
    BY <1>11 DEF Takes
  <2> QED BY <1>6, <1>7, <1>v, <2>1
<1> QED BY <1>8, <1>9, <1>10, <1>11
=============================================================================
