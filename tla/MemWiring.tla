------------------------------ MODULE MemWiring ------------------------------
(***************************************************************************)
(* Emitter._resolve_mem_accessors: which loads and stores belong to which  *)
(* memory controller, in what order, and which values on the way between   *)
(* them are wires inside a station and no channels at all.                 *)
(***************************************************************************)
EXTENDS Handshake

\* A memref's address width, and mem.check: one RAM has RamWords words.
RamWords == 1024
AddressWidth(elements) == CHOOSE a \in 1..elements :
                            2^a >= elements /\ \A b \in 1..a-1 : 2^b < elements
TooDeep(v) == 2^AddressWidth(prog.shape[v][1]) > RamWords \/ prog.shape[v][2] < 1

Controller == {n \in Node : Op(n) = "mem_controller"}

\* The operands between memref, memStart and ctrlEnd.
Group(m) == SubSeq(In(m), 3, Len(In(m)) - 1)

\* Their producers, first come first, constants (store counts) left out.
Accessors(m) ==
  LET makers == [k \in DOMAIN Group(m) |-> Maker(Group(m)[k])]
      fresh  == {k \in DOMAIN makers : Op(makers[k]) # "constant"
                                       /\ \A j \in 1..k-1 : makers[j] # makers[k]}
  IN  [k \in 1..Cardinality(fresh) |-> makers[Nth(fresh, k)]]

Accesses(n, m) == n \in Fns!Range(Accessors(m))

Arbitrated(m) == Len(Accessors(m)) = 2

Readbacks(m) == Fns!Range(Seqs!Front(Out(m)))

Loads(m) == {n \in Fns!Range(Accessors(m)) : Op(n) = "load"}
Stores(m) == {n \in Fns!Range(Accessors(m)) : Op(n) = "store"}

\* Mutant: a chain may start with a load.
UnorderedNever(m) == FALSE

\* "the first accessor in program order is not 'store'": its z_req has a
\* reader already and cannot be the second one's token as well.
Unordered(m) == Arbitrated(m) /\ Op(Accessors(m)[1]) # "store"

MisGrouped(m) == \E v \in Fns!Range(Group(m)) :
                   Maker(v) = NoNode \/ Op(Maker(v)) \notin {"constant", "load", "store"}

\* A load reads back from its own controller, which gives readbacks and its
\* completion, and every readback is claimed.
Unclaimed(m) ==
  \/ \E n \in Loads(m) : \/ Len(In(n)) # 2
                         \/ Maker(In(n)[2]) # m
                         \/ In(n)[2] \notin Readbacks(m)
  \/ \E v \in Readbacks(m) : \A n \in Loads(m) : In(n)[2] # v

ControllerRefused(m) ==
  \/ Len(In(m)) < 3
  \/ In(m)[1] \notin Memref
  \/ MisGrouped(m)
  \/ Len(Accessors(m)) \notin 1..2
  \/ Unordered(m)
  \/ Unclaimed(m)

MemRefused == (\E v \in Memref : TooDeep(v)) \/ \E m \in Controller : ControllerRefused(m)

\* A load's address result and readback, a store's two results: no net exists.
AbsorbedByMemory ==
  UNION {{Out(n)[1] : n \in Fns!Range(Accessors(m))}
           \union {Out(n)[2] : n \in Stores(m)}
           \union {In(n)[2] : n \in Loads(m)} : m \in Controller}

\* The token chain: the second station of an arbitrated port takes the first
\* one's completion.
Token == {<<Accessors(m)[1], Accessors(m)[2]>> : m \in {c \in Controller : Arbitrated(c)}}
=============================================================================
