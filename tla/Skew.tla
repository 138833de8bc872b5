-------------------------------- MODULE Skew --------------------------------
(***************************************************************************)
(* Rule E (verify/skew.py): at every gate that steers by a select, the     *)
(* request against the select, both measured from the storage that         *)
(* released them and through the storage they cross, with the scatter of   *)
(* real routes on what the two do not share.                               *)
(***************************************************************************)
EXTENDS Tighten

CONSTANTS K,                  \* storage crossings before a path is a lap
          GuardLo, GuardHi    \* the scatter, in thousandths

VARIABLE pads   \* what rule E asks for: [link, need]

\* A storage cell's own feedback is the one arc no walk may take.
Through == {a \in Arcs : ~(a[1] \in stops /\ <<a[2], a[1]>> \in Arcs)}

\* The storage a level's walk reaches the inputs of: where the next one starts.
Seeds(at, level, launch, longest) ==
  LET in   == {a \in Through : a[2] \in stops \ {launch} /\ a[1] \in DOMAIN at}
      v(a) == at[a[1]].t + edge[a]
      best == {a \in in : \A b \in in : b[2] = a[2] =>
                            IF longest THEN v(a) >= v(b) ELSE v(a) <= v(b)}
  IN  [o \in {a[2] : a \in in} |->
         LET a == CHOOSE a \in best : a[2] = o IN Arrival(v(a), level, a[1])]

\* fwd: arrivals from launch, a table for every number of storage cells crossed.
Forward(launch, longest) ==
  LET Deeper(t) == LET k == Len(t) IN
        Append(t, Relax(Seeds(t[k].at, k - 1, launch, longest), k, longest, Through))
  IN  Iterated(Deeper, <<Relax(One(launch, Arrival(0, 0, launch)), 0, longest, Through)>>, K)

Settled(tables) == \A k \in DOMAIN tables : tables[k].frontier = {}

\* at: what the first level that has a pin says of it.
Levels(tables, pin) == {k \in DOMAIN tables : pin \in DOMAIN tables[k].at}
When(tables, pin)   == tables[Sets!Min(Levels(tables, pin))].at[pin].t

\* path_to: the walk an arrival took, from where nothing comes before; none if it
\* never gets there, as when the longest walk came round to the launch itself.
Path(tables, pin) ==
  LET Before(n) == tables[n[1] + 1].at[n[2]].from
      Back(p)   == IF Before(p[1]) = p[1] THEN p ELSE <<Before(p[1])>> \o p
      whole == Iterated(Back, <<<<Sets!Min(Levels(tables, pin)) - 1, pin>>>>, Cardinality(Arcs))
  IN  IF Before(whole[1]) = whole[1] THEN whole ELSE <<>>

\* Mutant: the last pin both are behind, whether or not they took it.
PartingBehind(early, late, req, sel) ==
  LET both == {q \in DOMAIN late[1].at : q \in DOMAIN early[1].at /\ When(early, q) <= When(early, req)}
  IN  Sets!Min({Sets!Max({When(early, q) : q \in both}), When(early, req), When(late, sel)})

\* divergence: when the two walks part.
Parting(early, late, req, sel) ==
  LET p == Path(early, req)
      q == Path(late, sel)
      shared == {n \in DOMAIN p \intersect DOMAIN q : SubSeq(p, 1, n) = SubSeq(q, 1, n)}
  IN  IF shared = {} THEN 0
      ELSE LET last == p[Sets!Max(shared)]
           IN  Sets!Min({early[last[1] + 1].at[last[2]].t, When(early, req), When(late, sel)})

\* back: the pins that reach a pin over at most k storage crossings.
Behind(pin) ==
  LET Back(P) == {a[1] : a \in {b \in Through : b[2] \in P \ stops}}
      Cross(b) == LET k    == Len(b)
                      over == {a[1] : a \in {c \in Through : c[2] \in stops \intersect b[k]}}
                  IN  Append(b, b[k] \union Grown(Back, over, Cardinality(Pins)))
  IN  Iterated(Cross, <<Grown(Back, {pin}, Cardinality(Pins))>>, K)

Distance(behind, p) == Sets!Min({k \in DOMAIN behind : p \in behind[k]})

\* The storage behind both pins, the nearest to the select first; at most four.
Launches(req, sel) ==
  LET r == Behind(req)
      s == Behind(sel)
      Nearer(x, y) == x[1] < y[1] \/ (x[1] = y[1] /\ x[2] < y[2])
      found == Seqs!SetToSortSeq({<<Distance(s, p), Distance(r, p), p>> :
                                    p \in {q \in r[K + 1] \intersect s[K + 1] : q \in stops}}, Nearer)
  IN  {found[n][3] : n \in 1..Sets!Min({4, Len(found)})}

\* The gates: a request and a select on one LUT.
Gates == {g \in UNION {c.gates : c \in Consumers} : g.req # {} /\ g.sel # {}}

Thousandth(x) == IF x >= 0 THEN x \div 1000 ELSE -((-x) \div 1000)

\* A request and a select as seen from one launch, or nothing.
Row(launch, early, late, req, sel) ==
  LET tc == Parting(early, late, req, sel)
      exact == GuardLo * (When(early, req) - tc) - GuardHi * (When(late, sel) - tc)
  IN  IF Levels(early, req) = {} \/ Levels(late, sel) = {} THEN {}
      ELSE {[launch |-> launch, exact |-> exact, guarded |-> Thousandth(exact)]}

Rows(g, tables) ==
  UNION {UNION {Row(t.launch, t.early, t.late, x[1], x[2]) :
                  t \in {u \in tables : u.launch \in Launches(x[1], x[2])}} : x \in g.req \X g.sel}

\* What clears a violation: elements in the request's path, derated as it is.
Need(row) == CeilDiv(-row.guarded * 1000, LinkCost * GuardLo)

\* skew.py works on the netlist as tighten.py prunes it, oscillators dropped whole.
DropOscillators ==
  /\ pc = "storage"
  /\ edge' = [a \in {b \in Arcs : \A o \in sdf.osc : ~In(b[1].inst, o) /\ ~In(b[2].inst, o)}
                |-> edge[a]]
  /\ stops' = Storage(DOMAIN edge')
  /\ pc' = "E" /\ UNCHANGED <<sdf, audits, pads>>

RuleE ==
  /\ pc = "E"
  /\ \E tables \in {{[launch |-> p, early |-> Forward(p, FALSE), late |-> Forward(p, TRUE)] :
                       p \in UNION {UNION {Launches(x[1], x[2]) : x \in g.req \X g.sel} : g \in Gates}}} :
     \E rows \in {{<<g, Rows(g, tables)>> : g \in Gates}} :
       LET worst(R) == CHOOSE r \in R : \A q \in R : r.exact <= q.exact
           bad == {worst(x[2]) : x \in {y \in rows : y[2] # {} /\ worst(y[2]).guarded <= 0}}
           links == {LinkOf(r.launch) : r \in bad} \ {<<>>}
       IN  IF \E t \in tables : ~Settled(t.early) \/ ~Settled(t.late)
           THEN pc' = "abort" /\ UNCHANGED pads
           ELSE /\ pads' = {[link |-> l, need |-> Sets!Max({Need(r) : r \in {q \in bad : LinkOf(q.launch) = l}})] :
                              l \in links}
                /\ pc' = IF bad = {} THEN "clear" ELSE "skewed"
  /\ UNCHANGED <<sdf, edge, stops, audits>>
=============================================================================
