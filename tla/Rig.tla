--------------------------------- MODULE Rig ---------------------------------
(***************************************************************************)
(* One board on a JTAG cable and the scripts that measure on it: a design  *)
(* is loaded, its sticky latches fill while nobody watches, and hours      *)
(* later a poll reads them and says how long they have been clean.  The    *)
(* board forgets everything when it is loaded; each script remembers, in a *)
(* file, what the board cannot say: when that was, and what it saw since.  *)
(*                                                                         *)
(* Scripts: arb_prot_measure.py (prot), arb_mtbf_measure.py (mtbf) and     *)
(* gcd_measure.py (gcd), run by hand or, the first two, by cron.  A site   *)
(* is an instance with its latches, or a vector of gcd.  Time is in hours: *)
(* a script runs within one, so does what arms a board, and so does the    *)
(* "2 min" of a structurally broken placement.                             *)
(***************************************************************************)
EXTENDS Integers, FiniteSets, Sequences, FiniteSetsExt

CONSTANTS Site,      \* instances (96, 192) or vectors (16)
          MaxNow,    \* bound: hours
          MaxLoads,  \* bound: times the board is programmed
          Windows,   \* counting windows of a full poll (REPEATS)
          Freqs,     \* edges a counter may see in a window
          Modulus    \* what the counter wraps at (2^32)

ASSUME RigAssumption == /\ IsFiniteSet(Site)
                        /\ {MaxNow, MaxLoads, Windows, Modulus} \subseteq Nat \ {0}
                        /\ Freqs \subseteq 1 .. Modulus - 1    \* one wrap a window at most

Script == {"prot", "mtbf", "gcd"}
Job    == {"hand", "cron"}
Never  == -1          \* None, as a time or a rate
Poison == Modulus - 1  \* what a counter shows while it runs

VARIABLES now,    \* the hour
          loads,  \* times the board was programmed
          board,  \* the device
          files,  \* state.json of prot and of mtbf
          job,    \* the scripts that are running
          said    \* what the last report claimed

vars == <<now, loads, board, files, job, said>>

-----------------------------------------------------------------------------
(* The board.                                                              *)

\* good: sites whose latches work, or vectors answered rightly; broken: grant
\* overlaps wider than the filter; fault: what else came out of the placement;
\* pos and neg: the control latches (serv, raw, ok) and the others (viol, flt,
\* err); count and over: a free-running counter.
NoBoard == [design |-> "none", since |-> 0, armed |-> FALSE, good |-> {}, broken |-> {},
            fault |-> "none", freq |-> 1, pos |-> {}, neg |-> {}, count |-> 0, over |-> FALSE]

Faults(d) == {"none", "dead"} \union (CASE d = "mtbf" -> {"raced"}
                                        [] d = "gcd"  -> {"noclear", "compare", "subtract"}
                                        [] OTHER      -> {})

Fresh(d, G, B, f, w) == [NoBoard EXCEPT !.design = d, !.since = now, !.good = G, !.broken = B,
                                        !.fault = f, !.freq = w]

\* A report is a claim about the board as it is then.
Nothing == [by |-> "none"]
Quiet   == said' = Nothing

Live == board.design # "none" /\ board.fault # "dead"

\* The latches are enabled some time after configuration, and the controls set.
Arm == /\ Live /\ ~board.armed
       /\ board' = [board EXCEPT !.armed = TRUE, !.pos = board.good,
                                 !.neg = board.good \intersect board.broken]
       /\ Quiet /\ UNCHANGED <<now, loads, files, job>>

\* The rare event.
Event == /\ board.armed /\ board.design # "gcd"
         /\ \E i \in board.good \ board.neg :
              board' = [board EXCEPT !.neg = @ \union {i}]
         /\ Quiet /\ UNCHANGED <<now, loads, files, job>>

Idle(j) == job[j].at = "idle"

Hour == /\ now < MaxNow
        /\ Live => board.armed
        /\ \A j \in Job : Idle(j)
        /\ now' = now + 1
        /\ Quiet /\ UNCHANGED <<loads, board, files, job>>

\* n windows of counting: the reading after each.
Readings(n) == [k \in 1 .. n |-> (board.count + k * board.freq) % Modulus]
Counted(n)  == [board EXCEPT !.count = (@ + n * board.freq) % Modulus,
                             !.over = @ \/ board.count + n * board.freq >= Modulus]

-----------------------------------------------------------------------------
(* A script starts, perhaps programs the board, and has one session.       *)

NoJob   == [at |-> "idle"]
NoFile  == [exists |-> FALSE, loaded |-> Never, proved |-> {}, rate |-> Never, last |-> Never,
            edges |-> 0, on |-> {}, first |-> [i \in Site |-> Never]]

\* mtbf keeps a run until its file is deleted by hand; prot starts it afresh.
Refused(s, program) ==
    CASE s = "prot" -> ~program /\ ~files.prot.exists
      [] s = "mtbf" -> program <=> files.mtbf.exists
      [] s = "gcd"  -> FALSE

Start(j) == /\ Idle(j)
            /\ \E s \in Script, program \in BOOLEAN :
                 /\ j = "cron" => s # "gcd" /\ ~program
                 /\ ~Refused(s, program)
                 /\ job' = [job EXCEPT ![j] =
                              [at |-> IF program THEN "program" ELSE "session", script |-> s,
                               program |-> program,
                               st |-> IF s = "prot" /\ ~program THEN files.prot ELSE NoFile]]
            /\ Quiet /\ UNCHANGED <<now, loads, board, files>>

\* fpga -f, before the chain is locked.
Program(j) == /\ job[j].at = "program" /\ loads < MaxLoads
              /\ \E G \in SUBSET Site, B \in IF job[j].script = "mtbf" THEN SUBSET Site ELSE {{}},
                    f \in Faults(job[j].script), w \in Freqs :
                   board' = Fresh(job[j].script, G, B, f, w)
              /\ loads' = loads + 1
              /\ job' = [job EXCEPT ![j].at = "session"]
              /\ Quiet /\ UNCHANGED <<now, files>>

\* No DONE in the log, a timeout, a key pressed: nothing is saved.
Lose(j) == /\ ~Idle(j)
           /\ job' = [job EXCEPT ![j] = NoJob]
           /\ Quiet /\ UNCHANGED <<now, loads, board, files>>

Delete == /\ files.mtbf.exists
          /\ files' = [files EXCEPT !.mtbf = NoFile]
          /\ Quiet /\ UNCHANGED <<now, loads, board, job>>

Session(j, s) == /\ job[j].at = "session" /\ job[j].script = s
                 /\ job' = [job EXCEPT ![j] = NoJob]
                 /\ UNCHANGED <<now, loads>>

\* Every design has its TAG: constants read back from another are no constants.
Genuine(s) == board.design = s

-----------------------------------------------------------------------------
(* arb_prot_measure.py                                                     *)

\* SILICON_FACTOR: a count as a rate, in thousandths of an edge per window.
Corrected(d) == (d * 1000000) \div 975

\* Mutant: the counter as it stands.
RateRaw(kept, seen, old) == IF kept = {} THEN old ELSE Corrected(Max({seen[k] : k \in kept}))

\* A window may have no reading, or one taken while the counter ran, which shows
\* as all ones: those are skipped, and so is a count that is all ones.
Kept(seen) == SUBSET {k \in DOMAIN seen : seen[k] # Poison}

\* Each kept window with the one kept before it.
Steps(kept) == {p \in kept \X kept : /\ p[1] < p[2]
                                     /\ \A m \in kept : m <= p[1] \/ m >= p[2]}

\* The first kept window is a baseline read, a counter that went down has wrapped,
\* and a step is taken for one window, whatever was skipped in it.
Rate(kept, seen, old) ==
    LET hz == {Corrected(LET d == seen[p[2]] - seen[p[1]] IN IF d < 0 THEN d + Modulus ELSE d) :
                 p \in Steps(kept)}
    IN  IF hz \subseteq {0} THEN old ELSE Max(hz)

\* A rate was measured, over steps of one window each.
Gapless(kept) == Steps(kept) # {} /\ \A p \in Steps(kept) : p[2] = p[1] + 1

ProtTrusted == Genuine("prot") /\ board.armed /\ Live

\* What is kept: when it was loaded, which sites ever served, the last rate.
ProtFiled(st, kept, seen) == [st EXCEPT !.exists = TRUE,
                                        !.loaded = IF @ = Never THEN now ELSE @,
                                        !.proved = @ \union board.pos,
                                        !.rate = Rate(kept, seen, @)]

\* A bound on the failure rate of the sites that ever served, over all the time.
ProtBound(st, kept) == [by |-> "prot", rate |-> st.rate, full |-> Gapless(kept),
                        bound |-> board.neg \intersect st.proved = {} /\ st.rate # Never,
                        sites |-> st.proved, hours |-> now - st.loaded]

Prot(j) ==
    LET n == IF j = "cron" THEN 1 ELSE Windows   \* --light
    IN  /\ Session(j, "prot")
        /\ board' = IF Live THEN Counted(n) ELSE board
        /\ IF ProtTrusted
           THEN \E kept \in Kept(Readings(n)) :
                  LET st == ProtFiled(job[j].st, kept, Readings(n))
                  IN  files' = [files EXCEPT !.prot = st] /\ said' = ProtBound(st, kept)
           ELSE Quiet /\ UNCHANGED files

-----------------------------------------------------------------------------
(* arb_mtbf_measure.py                                                     *)

\* The mean over the windows of what each leaves in the counter.
WindowRate(n) == MapThenSumSet(LAMBDA k : board.count + k * board.freq, 1 .. n) \div n

\* Constants, the control channel, the stimulus rings, the calibration.
MtbfTrusted(n) == /\ Genuine("mtbf") /\ board.fault # "raced" /\ Live
                  /\ n > 0 => ~Counted(n).over /\ \A k \in 1 .. n : Readings(n)[k] # Poison
                  /\ n = 0 => files.mtbf.rate # Never

\* Exposure grows by the rate of the poll before and the time since it; a bit is
\* first seen when it was not on the poll before.
MtbfFiled(program, n) ==
    LET st  == files.mtbf
        new == program \/ st.loaded = Never
    IN  [st EXCEPT !.exists = TRUE, !.last = now,
                   !.rate = IF n = 0 THEN @ ELSE WindowRate(n),
                   !.loaded = IF new THEN now ELSE @,
                   !.edges = IF new THEN 0 ELSE @ + st.rate * (now - st.last),
                   !.on = board.neg,
                   !.first = [i \in Site |-> IF i \in board.neg \ st.on THEN now ELSE @[i]]]

\* Mutant: a filtered bit is a failure, whenever it set.
StructuralNever(st) == {}

\* Fired within two minutes of the load: a placement, not an event.
Structural(st) == {i \in board.neg : st.first[i] = st.loaded}

\* What the estimate counts, over which sites: those whose raw bit has fired.
MtbfEstimate(st) == [by |-> "mtbf", bound |-> now > st.loaded, hours |-> now - st.loaded,
                     sites |-> board.pos \ Structural(st), late |-> board.neg \ Structural(st),
                     edges |-> st.edges]

Mtbf(j) ==
    LET n  == IF j = "cron" THEN 0 ELSE Windows   \* --light
        st == MtbfFiled(job[j].program, n)
    IN  /\ Session(j, "mtbf")
        /\ Live => board.armed       \* its latches are, before any scan
        /\ board' = IF Live THEN Counted(n) ELSE board
        /\ IF MtbfTrusted(n)
           THEN files' = [files EXCEPT !.mtbf = st] /\ said' = MtbfEstimate(st)
           ELSE Quiet /\ UNCHANGED files

-----------------------------------------------------------------------------
(* gcd_measure.py: clear, prove the clear, let vectors complete, read.     *)

\* padded and plain: the vectors on which the detector of wrong sign decisions and
\* its control, on the unpadded request, fired.  What the control says of the
\* comparator is printed first ...
Control(padded, plain) == CASE padded = {} -> "nothing"
                            [] plain = {}  -> "acquitted"
                            [] OTHER       -> "accused"

\* ... then what report_abs accuses, from the vectors with a negative |a - b| ...
AccusedOfAll(negabs, padded, failing) ==
    CASE padded # {} /\ negabs # {} -> "compare"
      [] padded = {} /\ negabs # {} -> "subtract"
      [] OTHER                      -> "none"

\* ... unless the detector fired on one that came out right.
Accused(negabs, padded, failing) ==
    CASE padded \ failing # {} -> "unreliable"
      [] OTHER                 -> AccusedOfAll(negabs, padded, failing)

\* Mutant: the clear is taken on trust.
ClearedTrusted(left) == TRUE
Cleared(left) == left = {}

\* A fault in bb10 shows on the vectors that ran and did not come out right, if it
\* shows: as wrong sign decisions, which both detectors see, and negative |a - b|,
\* behind one of those if the comparator is at fault.  Either detector may sample
\* an operand that has moved on, on any vector (late, lateplain).
Probes(ran, right) ==
    {p \in [negabs : {{}, ran \ right}, wrong : {{}, ran \ right},
            late : SUBSET ran, lateplain : {{}, ran}] :
       CASE board.fault = "compare"  -> p.negabs \subseteq p.wrong
         [] board.fault = "subtract" -> p.wrong = {}
         [] OTHER                    -> p.wrong = {} /\ p.negabs = {}}

\* Clear, let the vectors in did complete (all of the sweep, or the pinned one),
\* read: the board then, with what the failed clear left in the latches.
Left(S) == IF board.fault = "noclear" THEN S ELSE {}

Swept == {Site} \union {{v} : v \in Site}

Ran(did) == [board EXCEPT !.pos = Left(@) \union (did \intersect board.good),
                          !.neg = Left(@) \union (did \ board.good)]

\* PASS: every vector right, none wrong, and completions in the last window.  Of
\* the probe, what no report can say: whether a decision was wrong, and whether a
\* late sample fell on a vector that came out right.
GcdVerdict(b, did, lapped, probe) ==
    LET failing == b.neg \union (Site \ b.pos)
        padded  == probe.wrong \union probe.late
    IN  [by |-> "gcd", did |-> did, pass |-> failing = {} /\ lapped,
         control |-> Control(padded, probe.wrong \union probe.lateplain),
         accused |-> Accused(probe.negabs, padded, failing),
         wrong |-> probe.wrong # {}, belied |-> probe.late \intersect b.pos # {}]

Gcd(j) ==
    /\ Session(j, "gcd")
    /\ UNCHANGED files
    /\ IF ~Genuine("gcd") \/ ~board.armed
       THEN Quiet /\ UNCHANGED board
       ELSE \E pin \in Swept : \E did \in SUBSET pin :
            \E lapped \in {FALSE, did # {}}, probe \in Probes(pin, did \intersect board.good) :
               /\ board' = Ran(did)
               /\ IF Cleared(Left(board.pos) \union Left(board.neg))
                  THEN said' = GcdVerdict(Ran(did), did, lapped, probe) ELSE Quiet

-----------------------------------------------------------------------------
Init == /\ now = 0 /\ loads = 0
        /\ board = NoBoard
        /\ files = [prot |-> NoFile, mtbf |-> NoFile]
        /\ job = [j \in Job |-> NoJob]
        /\ said = Nothing

Next == \/ Arm \/ Event \/ Hour \/ Delete
        \/ \E j \in Job : Start(j) \/ Program(j) \/ Lose(j) \/ Prot(j) \/ Mtbf(j) \/ Gcd(j)

Spec == Init /\ [][Next]_vars

-----------------------------------------------------------------------------
(* Instance-hours are claimed only of the design the script is for, only   *)
(* of sites whose control latch has set since the board was loaded, and    *)
(* for no longer than that; and a site that its placement makes fire is    *)
(* never counted as an event.                                              *)
MtbfHonest == said.by = "mtbf" =>
                /\ board.design = "mtbf"
                /\ said.sites \subseteq board.pos
                /\ said.bound => said.hours <= now - board.since
                /\ said.late \intersect board.broken = {}

(* The same of prot: what --program says it does is RESTART the exposure.  *)
ProtHonest == said.by = "prot" /\ said.bound =>
                /\ board.design = "prot"
                /\ said.sites \subseteq board.pos
                /\ said.hours <= now - board.since

(* The handshake rate a poll measures is what a window counts, corrected  *)
(* by the silicon factor, wherever the counter stood and wrapped, if no    *)
(* window it skipped lies between two that it kept.                        *)
RateExact == said.by = "prot" /\ said.full => said.rate = Corrected(board.freq)

(* Exposure in edges is no more edges than there were: a window's count    *)
(* makes a rate, whatever the windows before it left in the counter.       *)
EdgesHonest == said.by = "mtbf" => said.edges <= board.freq * (now - board.since)

(* PASS is said only of a run in which every vector completed rightly; no *)
(* acquittal of the comparator, by the control or by the accusation of the *)
(* subtract behind it, is said after a wrong sign decision; and a          *)
(* comparator that decided rightly is accused in the end only by samples   *)
(* that came late, and never late on a vector that came out right.         *)
GcdHonest == said.by = "gcd" =>
    /\ said.pass => said.did = Site /\ Site \subseteq board.good
    /\ said.control = "acquitted" => ~said.wrong
    /\ said.accused = "subtract" => board.fault = "subtract"
    /\ said.accused = "compare" => board.fault = "compare" \/ ~said.belied
=============================================================================
