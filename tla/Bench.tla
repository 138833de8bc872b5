-------------------------------- MODULE Bench --------------------------------
(***************************************************************************)
(* The batch bench cells/hw/gen_bench.py writes around a compiled kernel:  *)
(* a clocked state machine that issues runs to a circuit with no clock,    *)
(* acknowledges its results and folds them into a signature the host can   *)
(* replay.  One action, Tick, is an edge of aclk: every register takes its *)
(* next value from the values before the edge.  The kernel moves between   *)
(* edges, and a flop that samples a wire which moved since the last edge   *)
(* may take either value.                                                  *)
(*                                                                         *)
(* A kernel is one of the two kinds the bench has to drive: "decoupled"    *)
(* stores its operand and lets the input go before it answers, "coupled"   *)
(* (the null control of gen_bench.py) has no storage at all.               *)
(***************************************************************************)
EXTENDS Integers, Sequences, FiniteSets

CONSTANTS MaxRuns,     \* bound: runs in a batch
          MaxBatches,  \* bound: batches the host starts
          MaxWait,     \* res_wait's last value (255)
          Gaps,        \* inter-run gaps the host may program (run_gap)
          Buckets,     \* number of histogram buckets (64)
          MaxGlitch    \* bound: pulses on o_req, in a batch's first run, that are no completion

ASSUME BenchAssumption == /\ {MaxRuns, MaxBatches, MaxWait, Buckets} \subseteq Nat \ {0}
                          /\ Gaps \subseteq Nat
                          /\ MaxGlitch \in Nat

S_IDLE == 0
S_PREP == 1
S_ISSUE == 2
S_WAIT_ACK == 3
S_WAIT_RES == 4
S_ACK == 5
S_RTZ == 6
S_NEXT == 7

None   == 0
Bucket == 0 .. Buckets - 1
Level  == {0, 1}

VARIABLES hpc, start, rst, mode, n, op, gap, batches,          \* the host and its registers
          st, busy, done, setReq, oAck, prep, opB, lfsr,       \* the state machine
          startD, clearing, clr, pending, runs, resWait,
          hold, fallback, sig, ref, mism,                      \* what a batch reports
          latB, pend, bq, v2, bq2, rd, we, hist,               \* the histogram pipeline
          req, iLat, oLat, sA, sR, sQ, moved,                  \* where the two worlds meet
          kind, iAck, oReq, job, glitches,                     \* the kernel
          stD, illTr,                                          \* the detector
          lost,                                                \* history: see Watch
          drawn, seen, tainted                                 \* history

host     == <<hpc, start, rst, mode, n, op, gap, batches>>
fsm      == <<st, busy, done, setReq, oAck, prep, opB, lfsr, startD, clearing, clr, pending,
              runs, resWait>>
report   == <<hold, fallback, sig, ref, mism>>
pipe     == <<latB, pend, bq, v2, bq2, rd, we, hist>>
boundary == <<req, iLat, oLat, sA, sR, sQ, moved>>
kernel   == <<kind, iAck, oReq, job, glitches>>
detector == <<stD, illTr, lost>>
history  == <<drawn, seen, tainted>>
vars     == <<host, fsm, report, pipe, boundary, kernel, detector, history>>

Init == /\ hpc = "idle" /\ start = 0 /\ rst = 0 /\ mode = "uniform" /\ n = 0 /\ op = 1
        /\ gap \in Gaps /\ batches = 0
        /\ st = S_IDLE /\ busy = 0 /\ done = 0 /\ setReq = 0 /\ oAck = 0 /\ prep = 0
        /\ opB = 0 /\ lfsr = 1 /\ startD = 0 /\ clearing = 1 /\ clr = 0 /\ pending = 0
        /\ runs = 0 /\ resWait = 0
        /\ hold = 0 /\ fallback = 0 /\ sig = <<>> /\ ref = None /\ mism = 0
        /\ latB = 0 /\ pend = 0 /\ bq = 0 /\ v2 = 0 /\ bq2 = 0 /\ rd = 0 /\ we = 0
        /\ hist \in [Bucket -> {0}]
        /\ req = 0 /\ iLat = 0 /\ oLat = 0 /\ moved = {}
        /\ sA = <<0, 0>> /\ sR = <<0, 0>> /\ sQ = <<0, 0>>
        /\ kind \in {"coupled", "decoupled"} /\ iAck = 0 /\ oReq = 0 /\ job = None
        /\ glitches = 0
        /\ stD = S_IDLE /\ illTr = 0 /\ lost = FALSE
        /\ drawn = <<>> /\ seen = hist /\ tainted = FALSE

-----------------------------------------------------------------------------
(* Between edges: the kernel.                                              *)

Core == IF busy = 1 THEN opB ELSE op     \* op0_to_core

\* The result bus.  A coupled kernel's is a function of its operands; a
\* decoupled one drives it from its request to its return to zero.
Data == IF kind = "coupled" THEN Core ELSE IF oReq = 1 THEN job ELSE None

\* i_ack rises: it clears the request and sets its latch on the spot.
RaiseAck == /\ iAck' = 1
            /\ req' = 0
            /\ iLat' = 1

CanTake == kind = "decoupled" /\ req = 1 /\ iAck = 0 /\ job = None

Take == /\ CanTake
        /\ RaiseAck
        /\ job' = Core
        /\ moved' = moved \union {"i_ack"}
        /\ UNCHANGED <<host, fsm, report, pipe, oLat, sA, sR, sQ, kind, oReq, glitches,
                       detector, history>>

Taken == /\ kind = "coupled" /\ oReq = 1 /\ oAck = 1 /\ iAck = 0
         /\ RaiseAck
         /\ moved' = moved \union {"i_ack"}
         /\ UNCHANGED <<host, fsm, report, pipe, oLat, sA, sR, sQ, kind, oReq, job, glitches,
                        detector, history>>

LetGo == /\ iAck = 1 /\ req = 0
         /\ kind = "coupled" => oReq = 0
         /\ iAck' = 0
         /\ UNCHANGED <<host, fsm, report, pipe, boundary, kind, oReq, job, glitches,
                        detector, history>>

Answer == /\ oReq = 0
          /\ IF kind = "coupled" THEN req = 1 /\ iAck = 0 ELSE job # None
          /\ oReq' = 1
          /\ oLat' = 1
          /\ moved' = moved \union {"o_req", "o_latch"}
          /\ UNCHANGED <<host, fsm, report, pipe, req, iLat, sA, sR, sQ, kind, iAck, job,
                         glitches, detector, history>>

Return == /\ oReq = 1
          /\ IF kind = "coupled" THEN req = 0 ELSE oAck = 1
          /\ oReq' = 0
          /\ job' = None
          /\ moved' = moved \union {"o_req"}
          /\ UNCHANGED <<host, fsm, report, pipe, req, iLat, oLat, sA, sR, sQ, kind, iAck,
                         glitches, detector, history>>

\* A pulse on o_req that is over before the next edge: only its latch sees it.
Glitch == /\ kind = "decoupled" /\ oReq = 0
          /\ st \in {S_WAIT_ACK, S_WAIT_RES}
          /\ runs = 0 /\ glitches < MaxGlitch
          /\ glitches' = glitches + 1
          /\ oLat' = 1
          /\ moved' = moved \union {"o_latch"}
          /\ UNCHANGED <<host, fsm, report, pipe, req, iLat, sA, sR, sQ, kind, iAck, oReq, job,
                         detector, history>>

-----------------------------------------------------------------------------
(* The boundary at an edge.                                                *)

\* What a flop may take of a wire.
Sampled(wire, w) == IF w \in moved THEN Level ELSE {wire}

\* The two latches are cleared once, as a request is launched, unless the wire
\* that sets them is up; the chains behind them are cleared with them.
Latches == IF st = S_ISSUE
           THEN /\ iLat' = iAck
                /\ oLat' = oReq
           ELSE UNCHANGED <<iLat, oLat>>

Chains == IF st = S_ISSUE
          THEN /\ sA' = <<0, 0>>
               /\ sR' = <<0, 0>>
          ELSE /\ \E a \in Sampled(iLat, "i_ack") : sA' = <<a, sA[1]>>
               /\ \E a \in Sampled(oLat, "o_latch") : sR' = <<a, sR[1]>>

Request == req' = IF iAck = 1 THEN 0 ELSE IF busy = 1 /\ setReq = 1 THEN 1 ELSE req

Boundary == /\ Latches
            /\ Chains
            /\ \E a \in Sampled(oReq, "o_req") : sQ' = <<a, sQ[1]>>
            /\ Request
            /\ moved' = {}

\* The state register is three flops.  If the input that decides a transition
\* is racing the edge, each resolves for itself.
Bit(k, i)      == (k \div i) % 2
Mix(k, l)      == {4 * a + 2 * b + c : a \in {Bit(k, 4), Bit(l, 4)},
                                       b \in {Bit(k, 2), Bit(l, 2)},
                                       c \in {Bit(k, 1), Bit(l, 1)}}
Lands(to, see) == IF see.racing THEN Mix(st, to)
                  ELSE IF see.up THEN {to} ELSE {st}

\* What the state machine looks at while it waits for either side to move.
\* Mutant: the latches themselves, as before the synchronisers.
AcknowledgedRaw == [up |-> iLat = 1 \/ oLat = 1, racing |-> moved # {}]

Acknowledged == [up |-> sA[2] = 1 \/ sR[2] = 1, racing |-> FALSE]

-----------------------------------------------------------------------------
(* The histogram: encode, read, write back, one stage an edge.             *)

Pipeline == /\ bq' = latB
            /\ v2' = pend
            /\ bq2' = bq
            /\ rd' = hist[bq]
            /\ we' = v2
            /\ hist' = IF clearing = 1 THEN [hist EXCEPT ![clr] = 0]
                       ELSE IF we = 1 THEN [hist EXCEPT ![bq2] = rd + 1]
                       ELSE hist

-----------------------------------------------------------------------------
(* The state machine.                                                      *)

Legal(k, l) == \/ k = l /\ k \in {S_IDLE, S_PREP, S_WAIT_ACK, S_WAIT_RES, S_RTZ}
               \/ l = k + 1
               \/ k = S_NEXT /\ l \in {S_IDLE, S_PREP}

\* The detector.  What it has no eye for: a request launched while the last
\* run's acknowledge is still up, which clears it.
Watch == /\ stD' = st
         /\ lost' = (lost \/ (busy = 1 /\ setReq = 1 /\ iAck = 1))
         /\ illTr' = IF rst = 1 THEN 0
                     ELSE IF busy = 1 /\ ~Legal(stD, st) THEN 1 ELSE illTr

BatchReset == /\ st' = S_IDLE /\ busy' = 0 /\ done' = 0 /\ oAck' = 0 /\ runs' = 0
              /\ sig' = <<>> /\ mism' = 0 /\ ref' = None /\ hold' = 0 /\ fallback' = 0
              /\ resWait' = 0 /\ pend' = 0
              /\ clearing' = 1 /\ clr' = 0 /\ pending' = 0
              /\ setReq' = 0
              /\ UNCHANGED <<prep, opB, lfsr, latB, history>>

\* Mutant: a start is seen only between scrubs.
StartRiseQuiet == start = 1 /\ startD = 0 /\ n # 0 /\ clearing = 0

\* S_IDLE: a rising start is taken whenever it comes, during a scrub too.
StartRise == start = 1 /\ startD = 0 /\ n # 0

Idle == LET last == clr = Buckets - 1
            armed == StartRise \/ pending = 1
        IN  /\ st = S_IDLE
            /\ IF StartRise
               THEN /\ busy' = 1 /\ done' = 0 /\ runs' = 0 /\ lfsr' = 1
                    /\ sig' = <<>> /\ mism' = 0 /\ ref' = None /\ fallback' = 0
                    /\ drawn' = <<>> /\ seen' = [b \in Bucket |-> 0]
               ELSE UNCHANGED <<busy, done, runs, lfsr, sig, mism, ref, fallback, drawn, seen>>
            /\ \/ /\ clearing = 1 /\ last
                  /\ clearing' = 0 /\ clr' = clr
                  /\ IF pending = 1 THEN pending' = 0 /\ st' = S_PREP
                     ELSE pending' = (IF StartRise THEN 1 ELSE 0) /\ st' = st
               \/ /\ clearing = 1 /\ ~last
                  /\ clr' = clr + 1
                  /\ pending' = (IF armed THEN 1 ELSE 0)
                  /\ UNCHANGED <<st, clearing>>
               \/ /\ clearing = 0 /\ StartRise
                  /\ clearing' = 1 /\ clr' = 0
                  /\ IF pending = 1 THEN pending' = 0 /\ st' = S_PREP
                     ELSE pending' = 1 /\ st' = st
               \/ /\ clearing = 0 /\ ~StartRise
                  /\ pending' = 0
                  /\ st' = (IF pending = 1 THEN S_PREP ELSE st)
                  /\ UNCHANGED <<clearing, clr>>
            /\ setReq' = 0 /\ pend' = 0
            /\ UNCHANGED <<oAck, prep, opB, resWait, hold, latB, tainted>>

\* S_PREP: the operand settles first, for run_gap edges.
Prep == /\ st = S_PREP
        /\ IF prep = 0
           THEN /\ opB' = (IF mode = "fixed" THEN op ELSE lfsr)
                /\ lfsr' = (IF mode = "fixed" THEN lfsr ELSE lfsr + 1)
                /\ drawn' = Append(drawn, opB')
           ELSE UNCHANGED <<opB, lfsr, drawn>>
        /\ IF prep >= gap THEN prep' = 0 /\ st' = S_ISSUE
           ELSE prep' = prep + 1 /\ st' = st
        /\ setReq' = 0 /\ pend' = 0
        /\ UNCHANGED <<busy, done, oAck, clearing, clr, pending, runs, resWait, report, latB,
                       seen, tainted>>

Issue == /\ st = S_ISSUE
         /\ setReq' = 1
         /\ st' = S_WAIT_ACK
         /\ pend' = 0
         /\ UNCHANGED <<busy, done, oAck, prep, opB, lfsr, clearing, clr, pending, runs, resWait,
                        report, latB, history>>

WaitAck == /\ st = S_WAIT_ACK
           /\ st' \in Lands(S_WAIT_RES, Acknowledged)
           /\ setReq' = 0 /\ pend' = 0
           /\ UNCHANGED <<busy, done, oAck, prep, opB, lfsr, clearing, clr, pending, runs,
                          resWait, report, latB, history>>

\* S_WAIT_RES: the edge latch and the level, or the latch alone for MaxWait edges.
Completed == sR[2] = 1 /\ (sQ[2] = 1 \/ resWait = MaxWait)

WaitRes == /\ st = S_WAIT_RES
           /\ IF Completed
              THEN /\ resWait' = 0
                   /\ fallback' = (IF sQ[2] = 0 THEN 1 ELSE fallback)
                   /\ tainted' = (tainted \/ sQ[2] = 0)
                   /\ \E b \in Bucket : /\ latB' = b
                                        /\ seen' = [seen EXCEPT ![b] = @ + 1]
                   /\ pend' = 1
                   /\ hold' = Data
                   /\ oAck' = 1
                   /\ st' = S_ACK
              ELSE /\ resWait' = (IF sR[2] = 1 THEN resWait + 1 ELSE resWait)
                   /\ pend' = 0
                   /\ UNCHANGED <<fallback, latB, hold, oAck, st, seen, tainted>>
           /\ setReq' = 0
           /\ UNCHANGED <<busy, done, prep, opB, lfsr, clearing, clr, pending, runs, sig, ref,
                          mism, drawn>>

Acked == /\ st = S_ACK
         /\ st' = S_RTZ
         /\ setReq' = 0 /\ pend' = 0
         /\ UNCHANGED <<busy, done, oAck, prep, opB, lfsr, clearing, clr, pending, runs, resWait,
                        report, latB, history>>

\* S_RTZ: the result is acknowledged until it has returned to zero.
ReturnedAtOnce == TRUE      \* mutant: it need not have
Returned == sQ[2] = 0

Rtz == /\ st = S_RTZ
       /\ IF Returned THEN oAck' = 0 /\ st' = S_NEXT ELSE UNCHANGED <<oAck, st>>
       /\ setReq' = 0 /\ pend' = 0
       /\ UNCHANGED <<busy, done, prep, opB, lfsr, clearing, clr, pending, runs, resWait,
                      report, latB, history>>

\* S_NEXT: fold the captured result and, in fixed mode, compare it with run 0's.
Retire == /\ st = S_NEXT
          /\ sig' = Append(sig, hold)
          /\ IF mode = "fixed"
             THEN /\ ref' = (IF ref = None THEN hold ELSE ref)
                  /\ mism' = (IF ref # None /\ mism = 0 /\ hold # ref THEN runs + 1 ELSE mism)
             ELSE UNCHANGED <<ref, mism>>
          /\ runs' = runs + 1
          /\ IF runs + 1 >= n THEN busy' = 0 /\ done' = 1 /\ st' = S_IDLE
             ELSE st' = S_PREP /\ UNCHANGED <<busy, done>>
          /\ setReq' = 0 /\ pend' = 0
          /\ UNCHANGED <<oAck, prep, opB, lfsr, clearing, clr, pending, resWait, hold, fallback,
                         latB, history>>

Step == Idle \/ Prep \/ Issue \/ WaitAck \/ WaitRes \/ Acked \/ Rtz \/ Retire

Tick == /\ Boundary
        /\ Pipeline
        /\ Watch
        /\ startD' = start
        /\ IF rst = 1 THEN BatchReset ELSE Step
        /\ UNCHANGED <<host, kernel>>

-----------------------------------------------------------------------------
(* The host: xsdb writes a register and some edges later reads another.    *)

\* Bound: no batch after a tainted one, whose late answer would be its first.
MayStart == batches < MaxBatches /\ ~tainted

HostLow == /\ hpc = "idle" /\ MayStart /\ rst = 0
           /\ start' = 0
           /\ hpc' = "low"
           /\ \E m \in {"uniform", "fixed"}, k \in 1 .. MaxRuns : mode' = m /\ n' = k
           /\ op' = 1
           /\ batches' = batches + 1
           /\ UNCHANGED <<rst, gap, fsm, report, pipe, boundary, kernel, detector, history>>

HostStart == /\ hpc = "low" /\ startD = 0
             /\ start' = 1
             /\ hpc' = "poll"
             /\ UNCHANGED <<rst, mode, n, op, gap, batches, fsm, report, pipe, boundary, kernel,
                            detector, history>>

HostDone == /\ hpc = "poll" /\ startD = 1 /\ done = 1
            /\ hpc' = "idle"
            /\ UNCHANGED <<start, rst, mode, n, op, gap, batches, fsm, report, pipe, boundary,
                           kernel, detector, history>>

\* The deliberate corruption: other operands, while a fixed batch is running.
HostCorrupt == /\ hpc = "poll" /\ mode = "fixed" /\ op = 1 /\ runs >= 1
               /\ op' = 2
               /\ UNCHANGED <<hpc, start, rst, mode, n, gap, batches, fsm, report, pipe,
                              boundary, kernel, detector, history>>

\* BCTRL = 2 between batches, and back to 0 an edge or more later.
HostReset == /\ hpc = "idle" /\ MayStart
             /\ rst = 1 => st = S_IDLE /\ clearing = 1 /\ clr = 0
             /\ rst' = 1 - rst
             /\ start' = 0
             /\ UNCHANGED <<hpc, mode, n, op, gap, batches, fsm, report, pipe, boundary, kernel,
                            detector, history>>

Kernel == Take \/ Taken \/ LetGo \/ Answer \/ Return

Next == Tick \/ Kernel \/ Glitch \/ HostLow \/ HostStart \/ HostDone \/ HostCorrupt \/ HostReset

\* The clock runs, and a gate of the kernel that can switch does.
Spec == Init /\ [][Next]_vars /\ WF_vars(Tick) /\ WF_vars(Kernel) /\ WF_vars(HostStart)

-----------------------------------------------------------------------------
Read == hpc = "poll" /\ startD = 1 /\ done = 1

\* What the host reads at the end of a batch is what the kernel answered: one
\* result a run, in order, of the operands the host can replay (its own in
\* fixed mode, the generator's with none skipped in uniform mode); the last of
\* them in ODATA; the mismatch latch set for the first run whose operands
\* differed from run 0's and for no other reason; and one histogram entry for
\* each run in the bucket of its latency.  (gen_bench.py 889-985; a batch after
\* a result was taken without its level is excepted, as hold_fallback says.)
BatchFaithful ==
    Read /\ ~tainted =>
        /\ sig = drawn
        /\ Len(sig) = n
        /\ hold = drawn[n]
        /\ mode = "uniform" => drawn = [k \in 1 .. n |-> k]
        /\ hist = seen
        /\ LET differ == {k \in 1 .. n : drawn[k] # drawn[1]}
           IN  IF mode = "fixed" /\ differ # {}
               THEN mism \in differ /\ \A k \in differ : mism <= k
               ELSE mism = 0

\* The state register never makes a transition the case statement does not
\* have, though what it waits for comes from wires that know no clock.
\* (gen_bench.py 402-422: "after that fix, it must never fire".)
NeverIllegal == illTr = 0

\* Every batch the host starts ends: a start during a scrub is not dropped, a
\* kernel that answers faster than an edge is not missed, and one that cannot
\* acknowledge before it is acknowledged does not stop the bench.  The one way
\* to stop it is a request launched into an acknowledge that has yet to fall.
\* (gen_bench.py 442-475, 776-797, 857-878.)
BatchEnds == (hpc = "poll") ~> (hpc = "poll" => done = 1 \/ lost)

\* S_WAIT_ACK and S_PREP do not wait for the input acknowledge to fall.
\* "Nothing is lost by not waiting here": every batch ends, without exception.
\* (gen_bench.py 875-878.)
NothingIsLost == (hpc = "poll") ~> (hpc = "poll" => done = 1)

=============================================================================
