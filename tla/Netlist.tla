------------------------------ MODULE Netlist ------------------------------
(***************************************************************************)
(* The module emit_func writes, as its wiring: which cell drives, and      *)
(* which acknowledges, every bundle of req, ack and data.  A channel with  *)
(* a link has two bundles, one on each side of it.                         *)
(***************************************************************************)
EXTENDS Storage

\* The producer's side of a channel, and the consumer's.
Up(v)   == <<v, IF v \in linked THEN "u" ELSE "">>
Down(v) == <<v, "">>

Lowered == Node \ Skipped

Anchors == IF prog.fuse THEN {Anchor(R) : R \in regions} ELSE {}

\* Values cell n acknowledges, by port.
Takes(n) == CASE n \in Anchors -> Seqs!SetToSeq(ExtInputs(RegionOf(n)))
              [] Op(n) = "load" -> <<In(n)[1]>>
              [] Op(n) = "mem_controller" -> <<In(n)[2], Seqs!Last(In(n))>>
              [] OTHER -> In(n)

\* Values it drives.
Gives(n) == CASE Op(n) = "load" -> <<Out(n)[2]>>
              [] Op(n) = "store" -> <<>>
              [] Op(n) = "mem_controller" -> <<Seqs!Last(Out(n))>>
              [] OTHER -> Out(n)

VARIABLES drives,   \* drives[<<n, k>>]: the bundle port k of cell n drives
          takes,    \* takes[<<n, k>>]: the one it acknowledges
          joined    \* joined[v]: the cells at the two ends of channel v

netlist == <<drives, takes, joined>>

NetlistInit == drives = <<>> /\ takes = <<>> /\ joined = <<>>

Wiring(ports, end(_)) ==
  [x \in UNION {{n} \X DOMAIN ports[n] : n \in Lowered} |-> end(ports[x[1]][x[2]])]

Lower ==
  /\ drives' = LET p == [n \in Lowered |-> Gives(n)] IN Wiring(p, Up)
  /\ takes' = LET p == [n \in Lowered |-> Takes(n)] IN Wiring(p, Down)
  /\ joined' = LET from(v) == {x \in DOMAIN drives' : drives'[x] = Up(v)}
                   to(v)   == {x \in DOMAIN takes' : takes'[x] = Down(v)}
               IN  [v \in {w \in Value : from(w) # {} /\ to(w) # {}} |->
                      <<(CHOOSE x \in from(v) : TRUE)[1], (CHOOSE x \in to(v) : TRUE)[1]>>]

\* The order token of an arbitrated port, known by its first station.  Only a
\* store drives it: a load's completion is an ordinary channel.
Tok(t) == <<Out(t[1])[1], "tok">>

\* Drivers and acknowledgers of every bundle: cells, links, the bridge from the
\* function's arguments, and the stations at the two ends of a token.
DrivenBy(b) == {x \in DOMAIN drives : drives[x] = b}
                 \union {<<"link", v>> : v \in {l \in linked : Down(l) = b}}
                 \union {<<"arg", v>> : v \in {a \in DOMAIN prog.type : Up(a) = b}}
                 \union {<<"first", t[1]>> : t \in {o \in Token : Op(o[1]) = "store" /\ Tok(o) = b}}

TakenBy(b) == {x \in DOMAIN takes : takes[x] = b}
                \union {<<"link", v>> : v \in {l \in linked : Up(l) = b}}
                \union {<<"second", t[2]>> : t \in {o \in Token : Tok(o) = b}}

Declared == UNION {{Up(v), Down(v)} : v \in Value \ (DeadValues \union AbsorbedByMemory)}
              \union {Tok(t) : t \in Token}

Referenced == Fns!Range(drives) \union Fns!Range(takes)
                \union UNION {{Up(v), Down(v)} : v \in linked}

-----------------------------------------------------------------------------
(* Refusals of the lowering.                                               *)

\* map.Table.lookup: the first entry of bd-config.json whose guard holds.
Unmapped(n) == \/ Op(n) \in {"merge", "control_merge"} /\ Len(In(n)) = 0
               \/ Op(n) = "mux" /\ Len(In(n)) < 3

IndexBits(k) == CHOOSE b \in 1..k : 2^b >= k /\ \A a \in 1..b-1 : 2^a < k

AtLeast1(w) == IF w < 1 THEN 1 ELSE w

Unlowerable(n) ==
  \/ Unmapped(n)
  \/ Op(n) = "buffer"                           \* mapped, but no _op_buffer
  \/ Op(n) \in {"extui", "extsi"} /\ AtLeast1(ch[Out(n)[1]]) <= AtLeast1(ch[In(n)[1]])
  \/ Op(n) = "control_merge" /\ Len(In(n)) > 1 /\ ch[Out(n)[2]] < IndexBits(Len(In(n)))
  \/ Op(n) = "mux" /\ Len(In(n)) > 3 /\ ch[In(n)[1]] < IndexBits(Len(In(n)) - 1)
  \/ Op(n) = "cmpi" /\ prog.nodes[n].pred \notin Predicates
  \/ Op(n) = "end" /\ Len(In(n)) # Len(prog.results)
  \/ Op(n) \in {"load", "store"} /\ (Len(In(n)) # 2 \/ \A m \in Controller : ~Accesses(n, m))
  \/ Op(n) = "mem_controller" /\ Stores(n) # {}  \* no completion counter

\* Skipped nodes are only looked up.
LoweringRefused == (\E n \in Lowered : Unlowerable(n)) \/ \E n \in Skipped : Unmapped(n)

\* Storage asked for on a channel that no longer exists.
Leaked == linked \intersect (AbsorbedByMemory \union DeadValues)

\* --probe: a tap on one side of a channel.  pre asks for the producer's side.
ProbeRefused(v, pre) == \/ v \notin Value
                        \/ pre /\ v \notin linked
                        \/ v \in DeadValues \union AbsorbedByMemory

-----------------------------------------------------------------------------
(* emit_top: the pins of the kernel on the bits of one free-running spine. *)

\* The arguments that are channels, in order: a memref has no port.
RealArgs == LET real == {i \in DOMAIN prog.args : prog.args[i] \notin Memref}
            IN  [k \in 1..Cardinality(real) |-> prog.args[Nth(real, k)]]

Before(k) == LET w[i \in 0..k] == IF i = 0 THEN 0 ELSE w[i-1] + prog.type[RealArgs[i]]
             IN  w[k]

\* Bits given to the request of argument k, to its data, to the acknowledge of
\* result k.
RequestBit(k) == {k - 1}
DataBits(k) == {Len(RealArgs) + b : b \in Before(k - 1)..(Before(k) - 1)}
AckBit(k) == {Len(RealArgs) + Before(Len(RealArgs)) + k - 1}

SpineWidth == Sets!Max({32, Len(RealArgs) + Before(Len(RealArgs)) + Len(prog.results)})

SpinePins == {RequestBit(k) : k \in DOMAIN RealArgs}
               \union {DataBits(k) : k \in DOMAIN RealArgs}
               \union {AckBit(k) : k \in DOMAIN prog.results}
=============================================================================
