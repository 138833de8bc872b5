------------------------------ MODULE MCTiming ------------------------------
(***************************************************************************)
(* The timing rules on small routed designs, and signals racing through    *)
(* those they accept.  A design is put together from parts, each with its  *)
(* arcs, what is known of its LUTs, and the arcs its LUTs do not use.      *)
(***************************************************************************)
EXTENDS Skew

CONSTANTS Jobs,      \* the designs: see Design
          MaxLinks   \* bound: the longest line one is rebuilt with

VARIABLES job,    \* the design under audit
          truth,  \* the races in it, and the arcs signals really take
          wave,   \* a request and a data signal on their way, or <<>>
          heeded  \* the tool whose report its lines were made longer by

mcvars == <<netvars, pads, job, truth, wave, heeded>>

Rings == {"none", "declared", "undeclared"}
Job == [kind : {"unit"}, n : Nat, d : Nat, apart : BOOLEAN, dsp : BOOLEAN, ring : Rings]
       \union [kind : {"gang"}, n : Nat, m : Nat, d : Nat, ring : Rings]
       \union [kind : {"steer"}, n : Nat, d : Nat, cross : BOOLEAN, ring : Rings]
       \union [kind : {"mux"}, n : Nat, d : Nat, data : BOOLEAN, ring : Rings]

ASSUME JobsAssumption == Jobs \subseteq Job /\ MaxLinks \in Nat

Lut == 124    \* the delay of a LUT, and of the shortest route
Hop == 150

O(i) == Pin(i, "O")
Port(k) == <<"A1", "A2", "A3", "A4">>[k]

Merge(parts) == [io   |-> UNION {p.io : p \in parts}, net  |-> UNION {p.net : p \in parts},
                 luts |-> UNION {p.luts : p \in parts}, dead |-> UNION {p.dead : p \in parts}]

\* A cell: input k comes from in[k] = <<pin, delay>> on the port order[k].
Cell(i, in, order, out, d) ==
  [io   |-> {<<Pin(i, order[k]), Pin(i, out), d>> : k \in DOMAIN in},
   net  |-> {<<in[k][1], Pin(i, order[k]), in[k][2]>> : k \in DOMAIN in},
   luts |-> {}, dead |-> {}]

\* A LUT that ignores the inputs not in uses (counted from 0, as its INIT does).
LutCell(i, in, order, uses) ==
  [Cell(i, in, order, "O", Lut) EXCEPT
     !.luts = {<<i, [uses |-> uses, pin |-> [k \in 0..Len(in)-1 |-> order[k+1]]]>>},
     !.dead = {<<Pin(i, order[k]), O(i)>> : k \in {j \in DOMAIN in : j - 1 \notin uses}}]

Gate(i, in) == LutCell(i, in, [k \in DOMAIN in |-> Port(k)], 0..Len(in)-1)

\* n links from a pin, and the pin they end on.
Line(base, n, from, d) ==
  Merge({Gate(Inst(base, "link", k),
              <<IF k = 1 THEN <<from, d>> ELSE <<O(Inst(base, "link", k-1)), Hop>>>>) : k \in 1..n})
End(base, n, from) == IF n = 0 THEN from ELSE O(Inst(base, "link", n))

\* Something outside that listens.
Sink(name, pin) == Cell(Inst(<<>>, name, 0), <<<<pin, Hop>>>>, <<"A1">>, "O", Lut)

Race(rule, from, early, late) == [rule |-> rule, from |-> from, early |-> early, late |-> late]

-----------------------------------------------------------------------------
(* The designs.                                                            *)

Outside(n) == O(Inst(<<>>, "src", n))

\* A computing cell: request OR, delay line, and the logic the line covers.
\* apart: the operand comes on another net than the request.
Unit(n, d, apart, dsp) ==
  LET or   == Inst(<<"u">>, "uor", 0)
      f    == Inst(<<"u">>, "f", 0)
      out  == Pin(f, IF dsp THEN "P" ELSE "O")
      data == Outside(IF apart THEN 2 ELSE 1)
      line == <<"u", "udly">>
      tail == End(line, n, O(or))
  IN  [part |-> Merge({
         Gate(or, <<<<Outside(1), Hop>>>>), Line(line, n, O(or), Hop), Sink("req", tail), Sink("data", out),
         IF dsp THEN Cell(f, <<<<data, Hop>>>>, <<"A">>, "P", d)
                ELSE Gate(f, <<<<data, d>>>>)}),
       rams |-> {},
       races |-> {Race("A", <<Outside(1), data>>, tail, out)}]

\* The gang of a wide port: two RAMs on one request, which leaves a LUT that
\* shares its site with logic of the payload and ignores the pin it has of it.
Gang(n, m, d) ==
  LET st == Inst(<<"port">>, "st", 0)
      dec == Inst(<<"port">>, "u", 6)
      pay == Inst(<<"port">>, "addr", 0)
      at(k) == <<"umem0", "umem1">>[k]
      buf(k) == Inst(<<at(k)>>, "ubuf", 0)
      ram(k) == Inst(<<at(k)>>, "uram", 0)
      set(k) == <<at(k), "usetup">>
      co(k)  == <<at(k), "uco">>
      far(k) == IF k = 1 THEN Hop ELSE d
  IN  [part |-> Merge({Gate(st, <<<<Outside(1), Hop>>, <<O(st), Hop>>>>), Gate(pay, <<<<O(st), Hop>>>>),
           LutCell(dec, <<<<O(st), Hop>>, <<O(pay), Hop>>>>, <<"A2", "A1">>, {0})} \union
         (UNION {{Line(set(k), n, O(dec), far(k)),
                 Gate(buf(k), <<<<End(set(k), n, O(dec)), Hop>>>>),
                 Cell(ram(k), <<<<O(buf(k)), Hop>>, <<O(pay), d>>>>, <<"CLK", "ADDR">>, "DO", ClockToOut),
                 Line(co(k), m, O(buf(k)), Hop),
                 Sink(at(k), End(co(k), m, O(buf(k))))} : k \in 1..2})),
       rams |-> {ram(1), ram(2)},
       races |-> UNION {{Race("B", <<O(st), O(st)>>, Pin(ram(k), "CLK"), Pin(ram(k), "ADDR")),
                         Race("C", <<O(st), O(st)>>,
                              End(co(k), m, O(buf(k))), Pin(ram(k), "CLK"))} :
                         k \in 1..2}]

\* A link, its latch, logic on the select, and the steer it feeds.  cross: the
\* packer has exchanged the steer's two pins.
Steer(n, d, cross) ==
  LET c    == Inst(<<"lnk", "ctl">>, "u", 0)
      l    == Inst(<<"lnk", "lat">>, "pair", 0)
      cond == Inst(<<>>, "cond", 0)
      line == <<"lnk", "rdly">>
      req  == End(line, n, O(c))
      u(k) == Inst(<<"st">>, "u", k)
      pins == IF cross THEN <<"A2", "A1">> ELSE <<"A1", "A2">>
  IN  [part |-> Merge({
         Gate(c, <<<<Outside(1), Hop>>, <<Outside(2), Hop>>, <<O(c), Hop>>>>),
         LutCell(l, <<<<Outside(3), Hop>>, <<O(c), d>>, <<O(l), Hop>>>>, <<"A3", "A1", "A2">>, 0..2),
         Line(line, n, O(c), Hop), Gate(cond, <<<<O(l), Hop>>>>),
         Gate(Inst(<<"st">>, "uack", 0), <<<<Outside(4), Hop>>, <<Outside(5), Hop>>>>)}
         \union {LutCell(u(k), <<<<req, Hop>>, <<O(cond), Hop>>>>, pins, {0, 1}) : k \in 5..6}
         \union {Sink("br", O(u(k))) : k \in 5..6}),
       rams |-> {},
       races |-> UNION {{Race("D", <<O(c), O(l)>>, Pin(u(k), pins[1]), Pin(u(k), pins[2])),
                         Race("E", <<O(c), O(c)>>, Pin(u(k), pins[1]), Pin(u(k), pins[2]))} : k \in 5..6}]

\* bd_mux, its line n long; d: how far the data is from the multiplexer.  data:
\* its request is raced against its data too, which its channels launch together.
Mux(n, d, data) ==
  LET j(k) == Inst(<<"mux">>, <<"uj0", "uj1">>[k], 0)
      a(k) == Inst(<<"mux">>, <<"uxa", "uya">>[k], 0)
      or   == Inst(<<"mux">>, "uor", 0)
      dat  == Inst(<<"mux">>, "udat", 0)
      line == <<"mux", "udly">>
      tail == End(line, n, O(or))
      s    == Outside(6)
  IN  [part |-> Merge(
         (UNION {{Gate(j(k), <<<<Outside(k), Hop>>, <<Outside(5), 4 * Hop>>, <<s, Hop>>, <<O(j(k)), Hop>>>>),
                 Gate(a(k), <<<<O(j(k)), Hop>>, <<Outside(7), Hop>>, <<O(a(k)), Hop>>>>),
                 Sink("ack", O(a(k)))} : k \in 1..2})
         \union {Gate(or, <<<<O(j(1)), Hop>>, <<O(j(2)), Hop>>>>), Line(line, n, O(or), Hop),
                 Gate(dat, <<<<Outside(3), d>>, <<Outside(4), d>>, <<s, Hop>>>>),
                 Sink("req", tail), Sink("data", O(dat))}),
       rams |-> {},
       races |-> {Race("A", <<O(j(1)), O(j(1))>>, tail, O(a(1)))} \union
                 IF data THEN {Race("A", <<Outside(1), Outside(3)>>, tail, O(dat))} ELSE {}]

\* An oscillator: two gates in a circle, the first with an enable.
Ring(enable) == LET i(k) == Inst(<<"osc">>, "inv", k)
                IN  Merge({Gate(i(1), <<<<O(i(2)), Hop>>, <<enable, Hop>>>>),
                           Gate(i(2), <<<<O(i(1)), Hop>>>>)})

Design(b) ==
  CASE b.kind = "unit"  -> Unit(b.n, b.d, b.apart, b.dsp)
    [] b.kind = "gang"  -> Gang(b.n, b.m, b.d)
    [] b.kind = "steer" -> Steer(b.n, b.d, b.cross)
    [] b.kind = "mux"   -> Mux(b.n, b.d, b.data)

\* What the oscillator's enable hangs on.
Enable(b) == IF b.kind = "steer" THEN O(Inst(<<"lnk", "ctl">>, "u", 0)) ELSE Outside(1)

AsFunction(T) == [a \in {<<t[1], t[2]>> : t \in T} |->
                    (CHOOSE t \in T : t[1] = a[1] /\ t[2] = a[2])[3]]

\* The routed files of a design in a job, and what is true of its signals: they
\* take no dead arc and no storage's own feedback.
FilesOf(b, design, part) ==
  [io   |-> AsFunction(part.io), net |-> AsFunction(part.net),
   lut  |-> [i \in {x[1] : x \in part.luts} |-> (CHOOSE x \in part.luts : x[1] = i)[2]],
   rams |-> design.rams,
   osc  |-> IF b.ring = "declared" THEN {<<"osc">>} ELSE {}]
Truth(design) ==
  [races |-> design.races,
   live  |-> {t \in design.part.io : <<t[1], t[2]>> \notin design.part.dead}
               \union {t \in design.part.net : t[1].inst # t[2].inst}]

Route(b) ==
  \E design \in {Design(b)} :
    \E part \in {IF b.ring = "none" THEN design.part
                 ELSE Merge({design.part, Ring(Enable(b))})} :
      /\ sdf' = FilesOf(b, design, part)
      /\ truth' = Truth(design)

RamSetup == [ADDR |-> 566]
SmallJobs ==
  [kind : {"unit"}, n : 0..3, d : {Lut, 900}, apart : BOOLEAN, dsp : BOOLEAN,
   ring : {"none", "declared", "undeclared"}]
  \union [kind : {"gang"}, n : {1, 4}, m : {3, 9, 12}, d : {Hop, 900}, ring : {"none"}]
  \union [kind : {"steer"}, n : {0, 1, 4}, d : {Hop, 285, 400, 900}, cross : BOOLEAN,
           ring : {"none", "declared", "undeclared"}]
  \union [kind : {"mux"}, n : {1, 4}, d : {Hop, 900}, data : BOOLEAN, ring : {"none"}]

MuxJobs == {b \in SmallJobs : b.kind = "mux"}

-----------------------------------------------------------------------------
(* Signals.                                                                *)

Audited == pc \in {"pass", "clear"}

Launch ==
  /\ Audited /\ wave = <<>>
  /\ \E r \in truth.races :
       /\ (r.rule = "E") <=> (pc = "clear")
       /\ wave' = <<r, <<r.from[1], 0>>, <<r.from[2], 0>>>>
  /\ UNCHANGED <<netvars, pads, job, truth, heeded>>

Request == 2
Data    == 3
Target(k) == IF k = Request THEN wave[1].early ELSE wave[1].late
There(k)  == wave[k][1] = Target(k)

Travel(k) ==
  /\ wave # <<>> /\ ~There(k) /\ (k = Data => There(Request))
  /\ \E a \in truth.live : /\ a[1] = wave[k][1]
                           /\ wave' = [wave EXCEPT ![k] = <<a[2], @[2] + a[3]>>]
  /\ UNCHANGED <<netvars, pads, job, truth, heeded>>

-----------------------------------------------------------------------------
(* A refused design gets the lines it was told to have, and is run again.  *)

Failing == {a \in audits : ~a.ok}
Asked(rule, name) == {a.want : a \in {b \in Failing : b.rule = rule /\ Seqs!Last(b.of) = name}}
Largest(S, else) == IF S = {} THEN else ELSE Sets!Max(S)

Longer ==
  CASE job.kind = "unit"  -> [job EXCEPT !.n = Largest(Asked("A", "u"), @)]
    [] job.kind = "gang"  -> [job EXCEPT !.n = Largest(Asked("B", "usetup"), @),
                                         !.m = Largest(Asked("C", "uco"), @)]
    [] job.kind = "steer" -> [job EXCEPT !.n = @ + Largest(Asked("D", "lnk"), 0)
                                                 + Largest({p.need : p \in pads}, 0)]
    [] job.kind = "mux"   -> [job EXCEPT !.n = Largest(Asked("A", "mux"), @)]

Rebuild ==
  /\ pc \in {"fail", "skewed"} /\ heeded = "none" /\ job.n > 0
  /\ heeded' = IF pc = "fail" THEN "tighten" ELSE "skew"
  /\ \E longer \in {Longer} : /\ longer.n \in 0..MaxLinks
                              /\ longer.kind = "gang" => longer.m \in 0..MaxLinks
                              /\ job' = longer
  /\ pc' = "route" /\ audits' = {} /\ pads' = {}
  /\ UNCHANGED <<sdf, edge, stops, truth, wave>>

\* Place and route: every delay is what it was.
PlaceAndRoute ==
  /\ pc = "route"
  /\ Route(job)
  /\ edge' = Over(sdf'.io, sdf'.net) /\ stops' = {} /\ pc' = "prune"
  /\ UNCHANGED <<audits, pads, job, wave, heeded>>

MCInit == /\ job \in Jobs
          /\ sdf = [io |-> <<>>, net |-> <<>>, lut |-> <<>>, rams |-> {}, osc |-> {}]
          /\ edge = <<>> /\ stops = {} /\ pc = "route" /\ audits = {} /\ pads = {}
          /\ truth = [races |-> {}, live |-> {}] /\ wave = <<>> /\ heeded = "none"

MCNext == \/ Rules /\ UNCHANGED <<pads, job, truth, wave, heeded>>
          \/ DropOscillators /\ UNCHANGED <<job, truth, wave, heeded>>
          \/ RuleE /\ UNCHANGED <<job, truth, wave, heeded>>
          \/ PlaceAndRoute \/ Launch \/ Travel(Request) \/ Travel(Data) \/ Rebuild

MCSpec == MCInit /\ [][MCNext]_mcvars

-----------------------------------------------------------------------------
(* Properties.                                                             *)

\* The pins on the ways signals can take from one to another.
OnWay(from, to) ==
  LET ahead  == {<<a[1], a[2]>> : a \in truth.live}
      behind == {<<a[2], a[1]>> : a \in truth.live}
      Onward(P) == Along(ahead, P)
      Back(P)   == Along(behind, P)
  IN  ({from} \union Grown(Onward, Onward({from}), Cardinality(ahead)))
        \intersect ({to} \union Grown(Back, Back({to}), Cardinality(behind)))

\* A walk inside a cell goes wherever a signal can.
Followed(from, to, cell) ==
  LET way == OnWay(from, to)
  IN  \A a \in truth.live :
        a[1] \in way /\ a[2] \in way =>
          /\ <<a[1], a[2]>> \in Arcs /\ edge[<<a[1], a[2]>>] = a[3]
          /\ In(a[2].inst, cell) /\ a[2] # from
          /\ a[1] = from \/ a[1] \notin stops

\* One of the margins of the race's rule is of its two starts, over its two ends.
LookedAt(r) ==
  LET Walked(cell) == Followed(r.from[1], r.early, cell) /\ Followed(r.from[2], r.late, cell)
      OfStarts(M)  == \E m \in M : m.from = r.from[1] /\ m.to = r.from[2] /\ m.pin = r.late
  IN  CASE r.rule = "E" -> FALSE
        [] r.rule = "A" ->
             \E s \in Sites :
               /\ r.early \in s.tail /\ Walked(s.cell)
               /\ OfStarts(RequestMargins(s)
                             \intersect Margins(Boundary(s.cell), Peers(s), r.early, s.cell))
        [] r.rule = "B" ->
             \E ram \in sdf.rams :
               r.early = Pin(ram, "CLK") /\ Walked(<<>>) /\ OfStarts(ClockMargins(ram))
        [] r.rule = "C" ->
             \E base \in ChainsAs("uco"), ram \in sdf.rams :
               /\ OwnRams(base) = {ram}
               /\ r.early \in LineTail(base) /\ r.late = Pin(ram, "CLK") /\ Walked(<<>>)
               /\ r.from[1] = r.from[2] /\ \E h \in LineHead(base) : r.from[1] \in StartsReaching(h)
               /\ LET at(longest) == Walk(r.from[1], longest, <<>>)
                  IN  /\ {r.early, r.late} \subseteq DOMAIN at(FALSE)
                      /\ at(TRUE)[r.late].t = at(FALSE)[r.late].t
        [] r.rule = "D" ->
             \E c \in Consumers :
               /\ r.early \in Requests(c) /\ Walked(<<>>)
               /\ OfStarts(Margins(SelectStarts(c, r.early), Selects(c), r.early, <<>>))

Races == {r \in truth.races : r.rule # "E"}


\* What rule A does skip: data launched beside a request is paired with it only
\* if nothing else in the cell has a start in common with the request.
Skipped(r) ==
  /\ r.rule = "A" /\ r.from[1] # r.from[2]
  /\ \E s \in Sites : r.early \in s.tail /\ Common(RequestMargins(s)) # {}

\* Nothing else is skipped.
Accounted == pc = "pass" /\ wave = <<>> => \A r \in Races : LookedAt(r) \/ Skipped(r)

\* Of the races it looks at, no two signals that left together arrive out of order.
InOrder ==
  wave # <<>> /\ There(Request) /\ There(Data) /\ LookedAt(wave[1]) =>
    LET t == wave[Request][2]
        u == wave[Data][2]
    IN  CASE wave[1].rule \in {"A", "B", "D"} -> t - u >= Guard(wave[1].late, u)
          [] wave[1].rule = "C" -> t - u >= ClockToOut

\* tighten.py's docstring: what it accepts is a matched delay, a RAM clock, an
\* acknowledge or a request that is late enough, whichever way the signals take
\* through the logic.  Each of these races is run in order and is one it looks
\* at, but for those that rule A skips because a cell has another.
Covered == Accounted /\ InOrder

\* At a gate rule E clears, the request comes after the select even with every
\* delay of its own at its fastest and every one of the select's at its slowest.
RequestLast ==
  wave # <<>> /\ wave[1].rule = "E" /\ There(Request) /\ There(Data) =>
    GuardLo * wave[Request][2] > GuardHi * wave[Data][2]

\* It settles no walk that runs into a cycle without storage.
NeverAround == job.ring = "undeclared" /\ job.kind = "steer" => pc \notin {"clear", "skewed"}

\* skew.py: what it clears is late enough with the scatter of real routes, and it
\* says nothing of a netlist its walks do not come to an end in.
Unskewed == RequestLast /\ NeverAround

\* "a combinational loop with no storage in it ... no delay length makes it
\* safe": only a declared oscillator gets past tighten.py's storage check.
NoLooseCycle == job.ring = "undeclared" => pc \notin {"A", "B", "C", "D", "pass", "fail"}

\* The lengths a report asks for are enough: the tool accepts a design rebuilt
\* with them at the same delays, or rule E asks for no more.
PadsSuffice == /\ heeded = "tighten" => pc # "fail"
               /\ heeded = "skew" => \A p \in pads : p.need = 0
=============================================================================
