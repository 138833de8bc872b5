------------------------------- MODULE Tighten -------------------------------
(***************************************************************************)
(* verify/tighten.py, rule by rule, over the routed netlist: which arcs    *)
(* the logic cannot use, whether storage cuts every cycle, and whether     *)
(* each request, RAM clock, acknowledge and select sampling is late        *)
(* enough, with the length every delay line should have instead.           *)
(***************************************************************************)
EXTENDS DelayGraph

CONSTANTS ClockToOut,   \* T_CO
          HoldNeeded,   \* the largest of T_HOLD
          LinkFallback  \* T_DELAY_RISE_FALLBACK

ASSUME CornerAssumption == ClockToOut \in Nat /\ HoldNeeded \in Nat /\ LinkFallback \in Nat \ {0}

VARIABLES pc,     \* the rule main is at, then "pass", "fail" or "abort"
          audits  \* what the rules found so far

netvars == <<sdf, edge, stops, pc, audits>>

CeilDiv(a, b) == -((-a) \div b)

-----------------------------------------------------------------------------
(* False arcs.                                                             *)

\* The logical inputs of a LUT the packer recorded the pin of.
Recorded(i) == {k \in DOMAIN sdf.lut[i].pin : sdf.lut[i].pin[k] # "?"}

FalseArcs == {a \in DOMAIN sdf.io :
                /\ a[1].inst \in DOMAIN sdf.lut
                /\ \E k \in Recorded(a[1].inst) \ sdf.lut[a[1].inst].uses :
                     sdf.lut[a[1].inst].pin[k] = a[1].port}

-----------------------------------------------------------------------------
(* The things that are found by name.                                      *)

Instances == {p.inst : p \in Pins}
Links(base) == {i \in Instances : i.at = base /\ i.name = "link"}
Parent(base) == Seqs!Front(base)

\* find_chains.
Chains == {i.at : i \in {j \in Instances : j.name = "link"}}
ChainsAs(name) == {b \in Chains : Seqs!Last(b) = name}

PinsOf(i, out) == {p \in Pins : p.inst = i /\ (Output(p) <=> out)}
LineHead(base) == UNION {PinsOf(i, FALSE) : i \in {j \in Links(base) : \A k \in Links(base) : j.n <= k.n}}
LineTail(base) == UNION {PinsOf(i, TRUE) : i \in {j \in Links(base) : \A k \in Links(base) : k.n <= j.n}}

\* An input of the OR, if it has one.
InputOf(or) == IF PinsOf(or, FALSE) = {} THEN PinsOf(or, TRUE)
               ELSE {CHOOSE p \in PinsOf(or, FALSE) : TRUE}

\* Every cell with a request OR, those without a delay line too.
Site(or, base) == [cell |-> or.at, links |-> IF base = <<>> THEN {} ELSE Links(base),
                   head |-> IF base = <<>> THEN InputOf(or) ELSE LineHead(base),
                   tail |-> IF base = <<>> THEN PinsOf(or, TRUE) ELSE LineTail(base)]
Sites == LET ors == {i \in Instances : i.name = "uor"}
         IN  {Site(or, IF \E b \in Chains : Parent(b) = or.at
                       THEN CHOOSE b \in Chains : Parent(b) = or.at ELSE <<>>) : or \in ors}

\* Of the arcs A, the delay that n others come before when sorted by f.
Ranked(f, A, n) ==
  CHOOSE d \in {f[a] : a \in A} : /\ Cardinality({a \in A : f[a] < d}) <= n
                                  /\ n < Cardinality({a \in A : f[a] <= d})

MedianHop == LET hops == {a \in Arcs : edge[a] > 0}
             IN  IF hops = {} THEN 1 ELSE Ranked(edge, hops, Cardinality(hops) \div 2)

\* measure_delay_element: the median arc of a link's LUT and the median hop to
\* the next link, as the files have them; each the mean of the middle two.
LinkCost ==
  LET hops == {a \in DOMAIN sdf.net : /\ a[1].inst.name = "link" /\ a[2].inst.name = "link"
                                      /\ a[1].inst.at = a[2].inst.at}
      luts == {a \in DOMAIN sdf.io : a[1].inst.name = "link"}
      Twice(f, A) == Ranked(f, A, (Cardinality(A) - 1) \div 2) + Ranked(f, A, Cardinality(A) \div 2)
  IN  IF hops = {} \/ luts = {} THEN LinkFallback
      ELSE (Twice(sdf.net, hops) + Twice(sdf.io, luts)) \div 2

\* Mutant: the links a shortfall is worth, rounded down.
LengthShort(n, margin, chain) ==
  IF margin >= 0 THEN n ELSE n + IF n > 0 /\ chain > 0 THEN (-margin * n) \div chain ELSE -margin \div MedianHop

\* How long a line of n links should be: chain is what the n contribute.
Length(n, margin, chain) ==
  LET links(m) == IF n > 0 /\ chain > 0 THEN (m * n) \div chain ELSE m \div MedianHop
  IN  IF margin >= 0 THEN Sets!Max({0, n - links(margin)}) ELSE n - links(margin)

\* What a rule says of one boundary.  want: the length of its line.
Audit(rule, of, n, want, ok) == [rule |-> rule, of |-> of, n |-> n, want |-> want, ok |-> ok]

-----------------------------------------------------------------------------
(* The steps of main.                                                      *)

Prune ==
  /\ pc = "prune"
  /\ \E kept \in {{a : a \in Arcs \ FalseArcs}} :
       IF Cardinality(Storage(kept)) # Cardinality(Storage(Arcs))
       THEN pc' = "abort" /\ UNCHANGED <<edge, stops>>
       ELSE /\ edge' = [a \in kept |-> edge[a]]
            /\ stops' = Storage(kept)
            /\ pc' = "storage"
  /\ UNCHANGED <<sdf, audits>>

\* Declared oscillators are cut open, for the walks back too (the code's backward
\* edges are older; nothing outside listens to one); any other cycle is the end.
CheckStorage ==
  /\ pc = "storage"
  /\ \E loose \in {Loose} :
       LET ring(i) == \E o \in sdf.osc : In(i, o) /\ \E p \in loose : In(p.inst, o)
       IN  IF \E p \in loose : ~ring(p.inst) THEN pc' = "abort" /\ UNCHANGED edge
           ELSE pc' = "A" /\ edge' = [a \in {b \in Arcs : ~ring(b[1].inst)} |-> edge[a]]
  /\ UNCHANGED <<sdf, stops, audits>>

\* The other outputs of a cell: not the line itself, nor what it feeds or is fed by.
Peers(s) ==
  LET after  == UNION {Reaches(t) : t \in s.tail}
      before == {p \in Driver : Reaches(p) \intersect s.head # {}}
  IN  {p \in Driver : /\ Output(p) /\ Len(p.inst.at) >= Len(s.cell) /\ In(p.inst, s.cell)
                      /\ p.inst \notin s.links /\ p \notin after \union before}

RequestMargins(s) ==
  LET M == UNION {Margins(Boundary(s.cell), Peers(s), t, s.cell) : t \in s.tail}
  IN  IF Common(M) # {} THEN Common(M) ELSE M

ChainPs(s, start) ==
  LET early == Walk(start, FALSE, s.cell)
      seen(P) == {early[p].t : p \in P \intersect DOMAIN early}
  IN  IF seen(s.head) = {} THEN 0 ELSE Sets!Max(seen(s.tail)) - Sets!Min(seen(s.head))

RequestAudit(s, w) ==
  LET n == Cardinality(s.links)
      want == Length(n, w.margin, ChainPs(s, w.from))
  IN  Audit("A", s.cell, n, want, want <= n)

RuleA ==
  /\ pc = "A"
  /\ audits' = {RequestAudit(x[1], Worst(x[2])) :
                  x \in {y \in {<<s, RequestMargins(s)>> : s \in Sites} : y[2] # {}}}
  /\ pc' = "B" /\ UNCHANGED <<sdf, edge, stops>>

\* The RAM clock against everything the RAM samples with it.
ClockMargins(ram) ==
  Common(Margins(StartsReaching(Pin(ram, "CLK")),
                 {p \in Driven : p.inst = ram /\ p.port \in DOMAIN SetupTime},
                 Pin(ram, "CLK"), <<>>))

ClockAudit(ram, w) ==
  LET line   == {b \in ChainsAs("usetup") : Parent(b) = ram.at}
      n      == Cardinality(UNION {Links(b) : b \in line})
      early  == Walk(w.from, FALSE, <<>>)
      chain  == IF line = {} THEN 0
                ELSE LET b == CHOOSE b \in line : TRUE
                     IN  early[CHOOSE p \in LineTail(b) : TRUE].t - early[CHOOSE p \in LineHead(b) : TRUE].t
  IN  Audit("B", Append(ram.at, "usetup"), n, Length(n, w.margin, chain), w.margin >= 0)

RuleB ==
  /\ pc = "B"
  /\ audits' = audits \union {ClockAudit(x[1], Worst(x[2])) :
                                x \in {y \in {<<r, ClockMargins(r)>> : r \in sdf.rams} : y[2] # {}}}
  /\ pc' = "C" /\ UNCHANGED <<sdf, edge, stops>>

OwnRams(base) == {r \in sdf.rams : In(r, Parent(base))}

\* How far the end of an acknowledge line trails the clock edge of its RAM.
Trails(base, ram) ==
  LET clk == Pin(ram, "CLK")
      at  == {Walk(s, FALSE, <<>>) : s \in UNION {StartsReaching(h) : h \in LineHead(base)}}
  IN  {x[1][x[2]].t - x[1][clk].t :
         x \in {y \in at \X LineTail(base) : y[2] \in DOMAIN y[1] /\ clk \in DOMAIN y[1]}}

AckAudit(base, trail) ==
  LET n == Cardinality(Links(base))
      margin == trail - ClockToOut
  IN  Audit("C", base, n, IF margin < 0 THEN Length(n, margin, trail)
                          ELSE Sets!Max({1, Length(n, margin, trail)}),
            margin >= 0 /\ 2 * trail >= HoldNeeded)

RuleC ==
  /\ pc = "C"
  /\ LET lines  == ChainsAs("uco")
         alone  == {b \in lines : Cardinality(OwnRams(b)) = 1}
         trails == {<<b, Trails(b, CHOOSE r \in OwnRams(b) : TRUE)>> : b \in alone}
     IN  audits' = audits
           \union {Audit("C", b, Cardinality(Links(b)), 0, FALSE) : b \in lines \ alone}
           \union {AckAudit(x[1], Sets!Min(x[2])) : x \in {y \in trails : y[2] # {}}}
  /\ pc' = "D" /\ UNCHANGED <<sdf, edge, stops>>

-----------------------------------------------------------------------------
(* Rule D.                                                                 *)

\* The pins a logical input of a LUT was packed on.
OnPin(i, k) == IF i \in DOMAIN sdf.lut /\ k \in Recorded(i) THEN {Pin(i, sdf.lut[i].pin[k])} ELSE {}

\* select_consumers: a steer is a "u" with an acknowledge OR, a mux two joins.
Consumer(kind, cell, halves, req, sel) ==
  [kind |-> kind, cell |-> cell,
   gates |-> {[req |-> OnPin(i, req), sel |-> OnPin(i, sel)] : i \in halves}]
Consumers ==
  LET named(cell, names) == {i \in DOMAIN sdf.lut : i.at = cell /\ i.name \in names}
      cells == {i.at : i \in DOMAIN sdf.lut}
  IN  {Consumer("bd_steer", c, named(c, {"u"}), 0, 1) :
         c \in {d \in cells : named(d, {"u"}) # {} /\ named(d, {"uack"}) # {}}}
      \union
      {Consumer("bd_mux", c, named(c, {"uj0", "uj1"}), 1, 2) :
         c \in {d \in cells : named(d, {"uj0"}) # {} /\ named(d, {"uj1"}) # {}}}

Requests(c) == UNION {g.req : g \in c.gates}
Selects(c)  == UNION {g.sel : g \in c.gates}

SelectStarts(c, r) == StartsReaching(r) \union UNION {StartsReaching(s) : s \in Selects(c)}
SelectMargins(c) ==
  UNION {Margins(SelectStarts(c, r), Selects(c), r, <<>>) : r \in Requests(c)}

\* The link a launch is in, if it is in one.
LinkOf(p) == IF \E k \in DOMAIN p.inst.at : p.inst.at[k] \in {"ctl", "lat"}
             THEN Parent(p.inst.at) ELSE <<>>

SelectAudit(c, w) ==
  Audit("D", LinkOf(w.from), 0, IF w.margin < 0 THEN CeilDiv(-w.margin, LinkCost) ELSE 0,
        w.margin >= 0)

\* Without a routed netlist sdf.lut is empty, and there is nobody to look at: the
\* code says so and passes.
RuleD ==
  /\ pc = "D"
  /\ \E all \in {audits \union {SelectAudit(x[1], Worst(x[2])) :
                   x \in {y \in {<<c, SelectMargins(c)>> : c \in Consumers} : y[2] # {}}}} :
       /\ audits' = all
       /\ pc' = IF \A a \in all : a.ok THEN "pass" ELSE "fail"
  /\ UNCHANGED <<sdf, edge, stops>>

Rules == Prune \/ CheckStorage \/ RuleA \/ RuleB \/ RuleC \/ RuleD
==============================================================================
