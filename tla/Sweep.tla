-------------------------------- MODULE Sweep ---------------------------------
(***************************************************************************)
(* Ring oscillators on the board and the two scripts that count them:      *)
(* ro_measure.py loads one design and reads its rings in one session;      *)
(* ro_many_measure.py multiplexes a few counters over many groups of       *)
(* rings, one session a group, keeps every session's log on disk, and      *)
(* takes from disk what an earlier sweep completed.  A scan of the JTAG    *)
(* register captures what the previous scan selected and commits a whole   *)
(* control word; hw_server scans too, on its own schedule, with a word     *)
(* nobody chose, unless the port is locked.                                *)
(*                                                                         *)
(* A count is kept as what it is made of: how long, and of which groups.   *)
(***************************************************************************)
EXTENDS Integers, Sequences

CONSTANTS Group,      \* groups of rings (0 .. G - 1)
          Slots,      \* counters (B)
          Repeats,    \* counting windows in a session
          Capacity,   \* what a counter holds
          Deaths,     \* the rings that may not turn in a build of ro_many_top
          MaxWindow,  \* bound: how long a window lasts
          MaxBuilds   \* bound: bitstreams built

\* Groups are numbers; counters are read at the addresses below the constants'.
ASSUME SweepAssumption ==
  /\ 0 \in Group /\ Group \subseteq Nat
  /\ Slots \in 2 .. 8
  /\ {Repeats, Capacity, MaxWindow, MaxBuilds} \subseteq Nat \ {0}
  /\ Deaths \subseteq SUBSET (Group \X (0 .. Slots - 1))

Slot == 0 .. Slots - 1

CONSTANT_ADDR == 8
LIVE_ADDR == 12
ECHO_ADDR == 13
Addr == Slot \union {CONSTANT_ADDR, LIVE_ADDR, ECHO_ADDR}

VARIABLES bit,     \* the bitstream and SDF on disk, of each design
          device,  \* the configured device
          locked,  \* jtag lock
          sweep,   \* the script that is running
          raw,     \* raw/gNN.log
          found    \* what was published

sweepVars == <<bit, device, locked, sweep, raw, found>>

-----------------------------------------------------------------------------
(* The device.                                                             *)

\* "one" is ro_top, whose rings all run and feed a counter each; "many" is
\* ro_many_top.  A ring of dead does not turn in this build.
Designs == {"one", "many"}
Build(d, k, D) == [design |-> d, id |-> k, dead |-> D]
Foreign == Build("other", 0, {})

\* What a counter counted: how often, and rings of which groups.
Empty == [n |-> 0, of |-> {}]
Ticked(c, g) == [n |-> c.n + 1, of |-> c.of \union {g}]

Unloaded(build) == [build |-> build, addr |-> 0, run |-> FALSE, clear |-> FALSE, group |-> 0,
                    count |-> [b \in Slot |-> Empty], over |-> [b \in Slot |-> FALSE]]

SlotsOf(build) == CASE build.design = "one" -> {0} [] build.design = "many" -> Slot [] OTHER -> {}
Selected(d) == IF d.build.design = "many" THEN d.group ELSE 0
Turning(d) == {b \in SlotsOf(d.build) : <<Selected(d), b>> \notin d.build.dead}

\* A counter is clocked by its own ring: it is cleared, and counts, only if that turns.
Committed(d, addr, run, clear, group) ==
    LET e == [d EXCEPT !.addr = addr, !.run = run, !.clear = clear, !.group = group]
        Z == IF clear THEN Turning(e) ELSE {}
    IN  [e EXCEPT !.count = [b \in Slot |-> IF b \in Z THEN Empty ELSE @[b]],
                  !.over  = [b \in Slot |-> b \notin Z /\ @[b]]]

Elapsed(d) ==
    LET Full(b) == d.count[b].n + 1 = Capacity
        Counts  == IF d.run /\ ~d.clear THEN Turning(d) ELSE {}
    IN  [d EXCEPT !.count = [b \in Slot |-> IF b \notin Counts THEN @[b]
                                            ELSE IF Full(b) THEN Empty
                                            ELSE Ticked(@[b], Selected(d))],
                  !.over  = [b \in Slot |-> @[b] \/ (b \in Counts /\ Full(b))]]

\* CAPTURE: the register the last UPDATE selected.  A counter read while it runs
\* is poison.
Captured(d) == [addr |-> d.addr, tag |-> d.build.design \in Designs, build |-> d.build,
                poison |-> d.addr \in Slot /\ d.run,
                over |-> d.addr \in Slot /\ d.over[d.addr],
                count |-> IF d.addr \in Slot THEN d.count[d.addr] ELSE Empty,
                echo |-> IF d.addr = ECHO_ADDR THEN Selected(d) ELSE 0,
                live |-> IF d.addr = LIVE_ADDR THEN Turning(d) ELSE {}]

-----------------------------------------------------------------------------
(* The Tcl a session runs.                                                 *)

\* The scans of a session in order, some of which are the two of an rd: the
\* second brings the word that the first one asked for.
Reads == {"CONST", "ECHO", "SAMPLE", "POISON", "COUNT"}

Follow == [CONST |-> "ECHO", ECHO |-> "SAMPLE", SAMPLE |-> "clear", clear |-> "idle",
           idle |-> "go", go |-> "POISON", POISON |-> "stop", stop |-> "COUNT"]

AddrOf(p) == CASE p.do = "CONST" -> CONSTANT_ADDR
               [] p.do = "ECHO" -> ECHO_ADDR
               [] p.do = "SAMPLE" -> LIVE_ADDR
               [] p.do = "COUNT" -> p.slot
               [] OTHER -> 0

TclStart == [do |-> "CONST", again |-> FALSE, rep |-> 1, slot |-> 0]

\* ro_measure.py has no groups to echo, and reads one counter.
Following(kind, do) == IF kind = "one" /\ do = "CONST" THEN "SAMPLE" ELSE Follow[do]
SlotsRead(kind)     == IF kind = "one" THEN {0} ELSE Slot

Then(kind, p) ==
  CASE p.do \in Reads /\ ~p.again ->
         [p EXCEPT !.again = TRUE]
    [] p.do \in DOMAIN Follow /\ (p.do \in Reads => p.again) ->
         [p EXCEPT !.do = Following(kind, @), !.again = FALSE]
    [] p.do = "COUNT" /\ p.again /\ p.slot + 1 \in SlotsRead(kind) ->
         [p EXCEPT !.slot = @ + 1, !.again = FALSE]
    [] p.do = "COUNT" /\ p.again /\ p.slot + 1 \notin SlotsRead(kind) /\ p.rep < Repeats ->
         [do |-> "clear", again |-> FALSE, rep |-> p.rep + 1, slot |-> 0]
    [] OTHER -> [p EXCEPT !.do = "end", !.again = FALSE]

NoLog == [done |-> FALSE, lines |-> <<>>]
NoSweep == [at |-> "idle"]

SweepInit == /\ bit \in {[d \in Designs |-> Build(d, 1, IF d = "many" THEN D ELSE {})] :
                           D \in Deaths}
             /\ device = Unloaded(Foreign)
             /\ locked = FALSE
             /\ sweep = NoSweep
             /\ raw = [g \in Group |-> NoLog]
             /\ found = <<>>

-----------------------------------------------------------------------------
(* The script.                                                             *)

Begin == /\ sweep.at = "idle"
         /\ \E kind \in Designs, force \in BOOLEAN, todo \in SUBSET Group :
              /\ kind = "one" => todo = {0}
              /\ sweep' = [at |-> "next", kind |-> kind, force |-> force /\ kind = "many",
                        programmed |-> FALSE, todo |-> todo, group |-> 0,
                        pc |-> TclStart, lines |-> <<>>, since |-> 0,
                        logs |-> [g \in Group |-> NoLog]]
         /\ found' = <<>>
         /\ UNCHANGED <<bit, device, locked, raw>>

Cached(g) == sweep.kind = "many" /\ ~sweep.force /\ raw[g].done

FromDisk == /\ sweep.at = "next"
            /\ \E g \in sweep.todo :
                 /\ Cached(g)
                 /\ sweep' = [sweep EXCEPT !.logs[g] = raw[g], !.todo = @ \ {g}]
            /\ UNCHANGED <<bit, device, locked, raw, found>>

\* Configured once, by the first session of the sweep.
Open == /\ sweep.at = "next"
        /\ \E g \in sweep.todo :
             /\ ~Cached(g)
             /\ sweep' = [sweep EXCEPT !.at = IF sweep.programmed THEN "lock" ELSE "fpga",
                                       !.programmed = TRUE, !.group = g, !.todo = @ \ {g}]
        /\ UNCHANGED <<bit, device, locked, raw, found>>

Fpga == /\ sweep.at = "fpga"
        /\ device' = Unloaded(bit[sweep.kind])
        /\ sweep' = [sweep EXCEPT !.at = "lock"]
        /\ UNCHANGED <<bit, locked, raw, found>>

Lock == /\ sweep.at = "lock"
        /\ locked' = TRUE
        /\ sweep' = [sweep EXCEPT !.at = "scan"]
        /\ UNCHANGED <<bit, device, raw, found>>

Line(p) == [what |-> IF p.do = "stop" THEN "WINDOW" ELSE p.do, rep |-> p.rep,
            ask |-> AddrOf(p), word |-> Captured(device),
            lasted |-> IF p.do = "stop" THEN sweep.since ELSE 0]

Scan == /\ sweep.at = "scan" /\ sweep.pc.do # "end"
        /\ LET p == sweep.pc
           IN  /\ p.do = "stop" => sweep.since > 0
               /\ device' = Committed(device, AddrOf(p), p.do \in {"go", "POISON"},
                                      p.do = "clear", sweep.group)
               /\ sweep' = [sweep EXCEPT !.pc = Then(sweep.kind, p),
                                         !.since = IF p.do = "go" THEN 0 ELSE @,
                                         !.lines = IF p.again \/ p.do = "stop"
                                                   THEN Append(@, Line(p)) ELSE @]
        /\ UNCHANGED <<bit, locked, raw, found>>

\* The session is over, at its end or wherever it died; its log is on disk.
\* Nothing reads the lines of a log without its GROUPDONE.
Close(done) ==
    LET log == [done |-> done, lines |-> IF done THEN sweep.lines ELSE <<>>]
    IN  /\ locked' = FALSE
        /\ raw' = IF sweep.kind = "many" THEN [raw EXCEPT ![sweep.group] = log] ELSE raw
        /\ sweep' = [sweep EXCEPT !.at = "next", !.logs[sweep.group] = log, !.group = 0,
                                  !.pc = TclStart, !.lines = <<>>, !.since = 0]
        /\ UNCHANGED <<bit, device, found>>

Done == sweep.at = "scan" /\ sweep.pc.do = "end" /\ Close(TRUE)
Die == sweep.at \in {"fpga", "lock", "scan"} /\ Close(FALSE)

Interrupt == /\ sweep.at # "idle"
             /\ sweep' = NoSweep /\ locked' = FALSE
             /\ UNCHANGED <<bit, device, raw, found>>

-----------------------------------------------------------------------------
(* The verdict.                                                            *)

Of(log, what) == {log.lines[k] : k \in {k \in DOMAIN log.lines : log.lines[k].what = what}}

ConstantsRight(log) == \A l \in Of(log, "CONST") : l.word.tag /\ l.word.addr = CONSTANT_ADDR
EchoRight(log, g) == \A l \in Of(log, "ECHO") : l.word.tag /\ l.word.addr = ECHO_ADDR
                                                   /\ l.word.echo = g
\* Mutant: a counter that did not stay at zero proves that its ring turned.
AliveByCount(log) == TRUE
Alive(log) == \A l \in Of(log, "SAMPLE") : l.word.live = Slot
Poisoned(log) == \A l \in Of(log, "POISON") : l.word.poison
CountsRight(log)  == \A l \in Of(log, "COUNT") :
                        /\ l.word.tag /\ l.word.addr = l.ask
                        /\ ~l.word.over /\ ~l.word.poison /\ l.word.count.n # 0

\* ro_measure.py prints its samples and its poison and goes on.
Believed(kind, log, g) ==
    /\ ConstantsRight(log)
    /\ CountsRight(log)
    /\ kind = "many" => EchoRight(log, g) /\ Alive(log) /\ Poisoned(log)

Complete == {g \in Group : sweep.logs[g].done}

Judge == /\ sweep.at = "next" /\ sweep.todo = {}
         /\ found' = IF Complete # {} /\ \A g \in Complete : Believed(sweep.kind, sweep.logs[g], g)
                     THEN <<[kind |-> sweep.kind, build |-> bit[sweep.kind],
                             logs |-> [g \in Complete |-> sweep.logs[g].lines]]>>
                     ELSE <<>>
         /\ sweep' = NoSweep
         /\ UNCHANGED <<bit, device, locked, raw>>

-----------------------------------------------------------------------------
(* What nobody asked for.                                                  *)

\* Before a session takes the lock: earlier rescans leave nothing these do not.
Rescan == /\ sweep.at = "lock" /\ device.build.design \in Designs
          /\ \E run, clear \in BOOLEAN, g \in Group :
               device' = Committed(device, 0, run, clear, g)
          /\ UNCHANGED <<bit, locked, sweep, raw, found>>

\* Scans take no time; what they wait for, and what is between them, does.
Elapse == /\ device' = Elapsed(device)
          /\ \/ /\ sweep.at = "scan" /\ sweep.pc.do = "stop"
                /\ sweep.since < MaxWindow
                /\ sweep' = [sweep EXCEPT !.since = @ + 1]
             \/ sweep.at = "lock" /\ device' # device /\ UNCHANGED sweep
          /\ UNCHANGED <<bit, locked, raw, found>>

Intrude == /\ sweep.at \in {"idle", "next"} /\ device.build # Foreign
           /\ device' = Unloaded(Foreign)
           /\ UNCHANGED <<bit, locked, sweep, raw, found>>

Rebuild == /\ sweep.at = "idle" /\ bit["many"].id < MaxBuilds
           /\ \E D \in Deaths :
                bit' = [bit EXCEPT !["many"] = Build("many", @.id + 1, D)]
           /\ found' = <<>>
           /\ UNCHANGED <<device, locked, sweep, raw>>

SweepNext == \/ Begin \/ FromDisk \/ Open \/ Fpga \/ Lock \/ Scan \/ Done \/ Die \/ Interrupt
             \/ Judge \/ Rescan \/ Elapse \/ Intrude \/ Rebuild

SweepSpec == SweepInit /\ [][SweepNext]_sweepVars

-----------------------------------------------------------------------------
(* What is published of a group is every count of its session, each of the *)
(* ring it is published for and of nothing else, over exactly the window   *)
(* it is divided by.                                                       *)
CountsTrue ==
    \A k \in DOMAIN found : \A g \in DOMAIN found[k].logs :
       LET log     == [done |-> TRUE, lines |-> found[k].logs[g]]
           counts  == Of(log, "COUNT")
           windows == Of(log, "WINDOW")
       IN  /\ \A b \in SlotsRead(found[k].kind), rep \in 1 .. Repeats :
                \E c \in counts : c.word.addr = b /\ c.rep = rep
           /\ \A c \in counts : c.word.build.design = found[k].kind
           /\ \A c \in counts, w \in windows :
                c.rep = w.rep => c.word.count = [n |-> w.lasted, of |-> {g}]

(* A session that dies takes its own group with it and nothing else: what  *)
(* the others measured is the build whose predictions they are held to.    *)
OwnBuild == \A k \in DOMAIN found : \A g \in DOMAIN found[k].logs :
               \A i \in DOMAIN found[k].logs[g] :
                  found[k].logs[g][i].word.build = found[k].build
===============================================================================
