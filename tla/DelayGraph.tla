----------------------------- MODULE DelayGraph -----------------------------
(***************************************************************************)
(* The routed netlist as verify/tighten.py sees it: pins, delays from pin  *)
(* to pin, which pins are storage, how long a signal takes between two of  *)
(* them, and the margin of one arrival over others.                        *)
(*                                                                         *)
(* An instance is the cell it is inside (a path), its own name there, and  *)
(* a number, which tells apart the links of a delay line and the halves of *)
(* a fractured LUT.                                                        *)
(***************************************************************************)
EXTENDS Integers, FiniteSets, Sequences, TLC, Closures

Sets == INSTANCE FiniteSetsExt
Seqs == INSTANCE SequencesExt

CONSTANTS GuardFloor,   \* "max(0.2*t_data, 200 ps)"
          SetupTime     \* T_SU, by the RAM port it belongs to

ASSUME GuardAssumption == /\ GuardFloor \in Nat
                          /\ \A port \in DOMAIN SetupTime : SetupTime[port] \in Nat

VARIABLES sdf,    \* the routed design: io and net, the delay of each cell arc
                  \* and each route; lut, what a LUT's INIT uses and where the
                  \* packer put it; rams; osc, the declared oscillators
          edge,   \* edge[<<p, q>>]: the delay from pin p to pin q
          stops   \* storage_nodes

Inst(at, name, n) == [at |-> at, name |-> name, n |-> n]
Pin(i, port)      == [inst |-> i, port |-> port]

In(i, cell) == Seqs!IsPrefix(cell, Append(i.at, i.name))

Arcs   == DOMAIN edge
Driver == {a[1] : a \in Arcs}
Driven == {a[2] : a \in Arcs}
Pins   == Driver \union Driven

\* Mutant: a pin is an output when its name says so.
OutputByName(p) == p.port = "O"

\* The SDF's own cell arcs say which way a pin points; the name only decides
\* for a pin that has none.
Output(p) == /\ p \notin {a[1] : a \in DOMAIN sdf.io}
             /\ (p \in {a[2] : a \in DOMAIN sdf.io} \/ p.port = "O")

-----------------------------------------------------------------------------
(* Storage, and cycles without any.                                        *)

\* Arcs between two others; and where arcs lead from some pins.
Between(F) == LET ends == {b[2] : b \in F}
                  starts == {b[1] : b \in F}
              IN  {a \in F : a[1] \in ends /\ a[2] \in starts}
Along(F, P) == {a[2] : a \in {b \in F : b[1] \in P}}

\* state_nodes: the pins on a cycle of the arcs E.
OnCycle(E) ==
  LET core == Iterated(Between, E, Cardinality(E))
      Onward(P) == Along(core, P)
  IN  {p \in {a[1] : a \in core} : p \in Grown(Onward, Onward({p}), Cardinality(core))}

\* Mutant: whatever is on a cycle is storage.
StorageOnCycle(E) == {p \in OnCycle(E) : Output(p)}

\* A LUT whose output feeds an input of its own.
Storage(E) == {a[1] : a \in {b \in E : /\ b[1].inst = b[2].inst
                                       /\ Output(b[1]) /\ ~Output(b[2])}}

\* What is left on a cycle when storage is cut: nothing, or the analysis is void.
Loose == {p \in OnCycle({a \in Arcs : a[1] \notin stops}) : Output(p)}

-----------------------------------------------------------------------------
(* Arrivals: when a signal that is somewhere at a known time gets to       *)
(* everything else along the arcs, not going on through storage; at the    *)
(* latest or at the earliest, and from which pin.  A level is how much     *)
(* storage the signal has gone through before.                             *)

Arrival(t, level, pin) == [t |-> t, from |-> <<level, pin>>]

\* A table of one entry; and f, with what g says of the rest.
One(pin, arrival) == [p \in {pin} |-> arrival]
Over(f, g) == [x \in DOMAIN f \union DOMAIN g |-> IF x \in DOMAIN f THEN f[x] ELSE g[x]]

\* A pass of the loop: what the frontier's pins tell those they drive.
Onto(w, level, longest, arcs) ==
  LET Better(x, y) == IF longest THEN x.t > y.t ELSE x.t < y.t
      taken == {a \in arcs : a[1] \in w.frontier}
      heard == {<<a[2], Arrival(w.at[a[1]].t + edge[a], level, a[1])>> : a \in taken}
      first == {h \in heard : /\ \A g \in heard : g[1] = h[1] => ~Better(g[2], h[2])
                              /\ h[1] \in DOMAIN w.at => Better(h[2], w.at[h[1]])}
      news  == {h[1] : h \in first}
      new   == [q \in news |-> (CHOOSE h \in first : h[1] = q)[2]]
  IN  IF w.frontier = {} THEN w
      ELSE [at |-> Over(new, w.at), frontier |-> news \ stops]

Relax(seeds, level, longest, arcs) ==
  LET Pass(w) == Onto(w, level, longest, arcs)
  IN  Iterated(Pass, [at |-> seeds, frontier |-> DOMAIN seeds], Cardinality(arcs) + 1)

\* walk: from one pin, inside one cell.
Walk(start, longest, cell) ==
  Relax(One(start, Arrival(0, 0, start)), 0, longest, {a \in Arcs : In(a[2].inst, cell)}).at

\* What start reaches, storage included but not passed.
Reaches(start) ==
  LET Onward(P) == {a[2] : a \in {b \in Arcs : b[1] \in P /\ (b[1] = start \/ b[1] \notin stops)}}
  IN  Grown(Onward, {start}, Cardinality(Pins))

\* A tie-off never switches: no timing path starts there.
Constant(p) == p.inst.name = "tie"

\* The pins a pin's signal starts from: storage, and what nothing drives.
Feeding(P, pin) == {a[1] : a \in {b \in Arcs : b[2] \in P /\ (b[2] = pin \/ b[2] \notin stops)}}
StartsReaching(pin) ==
  LET Back(P) == Feeding(P, pin)
  IN  {p \in Grown(Back, {pin}, Cardinality(Pins)) :
         ~Constant(p) /\ ((p # pin /\ p \in stops) \/ p \notin Driven)}

\* The nets that enter a cell, and the storage inside it.
Boundary(cell) == LET inside == {p \in Pins : In(p.inst, cell)}
                  IN  {a[1] : a \in {b \in Arcs : b[2] \in inside /\ b[1] \notin inside}}
                        \union (inside \intersect stops)

-----------------------------------------------------------------------------
(* Margins.                                                                *)

Guard(p, t) == IF p.port \in DOMAIN SetupTime THEN SetupTime[p.port]
               ELSE Sets!Max({t \div 5, GuardFloor})

\* Of the early pin's earliest arrival over the late pins' latest, for every
\* pair of starts.
Margins(starts, late, early, cell) ==
  LET soon == {s \in {[from |-> s, at |-> Walk(s, FALSE, cell)] : s \in starts} :
                 early \in DOMAIN s.at}
      last == {[from |-> s, at |-> Walk(s, TRUE, cell)] : s \in starts}
  IN  {[from   |-> x[1].from, to |-> x[2].from, pin |-> x[3],
        early  |-> x[1].at[early].t, late |-> x[2].at[x[3]].t,
        margin |-> x[1].at[early].t - x[2].at[x[3]].t - Guard(x[3], x[2].at[x[3]].t)] :
         x \in {y \in soon \X last \X late : y[3] \in DOMAIN y[2].at}}

Worst(M) == CHOOSE m \in M : \A n \in M : m.margin <= n.margin

\* check: both sides from one start.  check_bundled: each side from its own.
Common(M) == {m \in M : m.from = m.to}
=============================================================================
