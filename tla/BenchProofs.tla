----------------------------- MODULE BenchProofs -----------------------------
(***************************************************************************)
(* Two results about the batch bench, for every number of runs and batches,*)
(* every gap, wait and number of buckets: its state machine never makes a  *)
(* transition the case statement does not have, and what the host reads at *)
(* the end of a batch is what the kernel answered.                         *)
(***************************************************************************)
EXTENDS Bench, SequenceTheorems, TLAPS

-----------------------------------------------------------------------------
(* The state machine keeps to its case statement.                          *)

\* Where the state machine can be.  The detector compares the state with the
\* one it saw an edge ago, but only while a batch runs: in between a reset may
\* have taken the machine home from anywhere.
State == S_IDLE .. S_NEXT

WatchInv == /\ st \in State
            /\ stD \in State
            /\ busy = 1 => Legal(stD, st)
            /\ illTr = 0

\* What an edge may do to the state register, reset or not.
Move == st' \in State /\ (busy' = 1 => Legal(st, st'))

\* The inputs the machine waits for have left their synchronisers, so all the
\* flops of the state register see the same value of them.
LEMMA OneValue == ASSUME NEW to
                  PROVE  Lands(to, Acknowledged) \subseteq {to, st}
  BY DEF Lands, Acknowledged

LEMMA IdleMoves == ASSUME st \in State, Idle PROVE Move
  <1>1. st = S_IDLE /\ st' \in {S_IDLE, S_PREP}
    BY DEF Idle
  <1>. QED  BY <1>1 DEF Move, Legal, State, S_IDLE, S_PREP, S_NEXT

LEMMA PrepMoves == ASSUME st \in State, Prep PROVE Move
  <1>1. st = S_PREP /\ st' \in {S_PREP, S_ISSUE}
    BY DEF Prep
  <1>. QED  BY <1>1 DEF Move, Legal, State, S_IDLE, S_PREP, S_ISSUE, S_NEXT

LEMMA WaitAckMoves == ASSUME st \in State, WaitAck PROVE Move
  <1>1. st = S_WAIT_ACK /\ st' \in {S_WAIT_ACK, S_WAIT_RES}
    BY OneValue DEF WaitAck
  <1>. QED  BY <1>1 DEF Move, Legal, State, S_IDLE, S_WAIT_ACK, S_WAIT_RES, S_NEXT

LEMMA WaitResMoves == ASSUME st \in State, WaitRes PROVE Move
  <1>1. st = S_WAIT_RES /\ st' \in {S_WAIT_RES, S_ACK}
    BY DEF WaitRes
  <1>. QED  BY <1>1 DEF Move, Legal, State, S_IDLE, S_WAIT_RES, S_ACK, S_NEXT

LEMMA RtzMoves == ASSUME st \in State, Rtz PROVE Move
  <1>1. st = S_RTZ /\ st' \in {S_RTZ, S_NEXT}
    BY DEF Rtz
  <1>. QED  BY <1>1 DEF Move, Legal, State, S_IDLE, S_RTZ, S_NEXT

\* The last run of a batch goes home with busy down; any other prepares the next.
LEMMA RetireMoves == ASSUME st \in State, Retire PROVE Move
  <1>1. st = S_NEXT /\ st' \in {S_IDLE, S_PREP}
    BY DEF Retire
  <1>. QED  BY <1>1 DEF Move, Legal, State, S_IDLE, S_PREP, S_NEXT

LEMMA StepMoves == ASSUME st \in State, Step PROVE Move
  <1>1. CASE Issue
    <2>1. st = S_ISSUE /\ st' = S_WAIT_ACK
      BY <1>1 DEF Issue
    <2>. QED  BY <2>1 DEF Move, Legal, State, S_IDLE, S_ISSUE, S_WAIT_ACK, S_NEXT
  <1>2. CASE Acked
    <2>1. st = S_ACK /\ st' = S_RTZ
      BY <1>2 DEF Acked
    <2>. QED  BY <2>1 DEF Move, Legal, State, S_IDLE, S_ACK, S_RTZ, S_NEXT
  <1>. QED
    BY <1>1, <1>2, IdleMoves, PrepMoves, WaitAckMoves, WaitResMoves, RtzMoves, RetireMoves
    DEF Step

\* A reset goes home from any state, with busy down.
LEMMA EdgeMoves == ASSUME st \in State, Tick PROVE Move
  <1>1. CASE rst = 1
    <2>1. st' = S_IDLE /\ busy' = 0
      BY <1>1 DEF Tick, BatchReset
    <2>. QED  BY <2>1 DEF Move, State, S_IDLE, S_NEXT
  <1>2. CASE rst # 1
    BY <1>2, StepMoves DEF Tick
  <1>. QED  BY <1>1, <1>2

LEMMA EdgeKeeps == ASSUME WatchInv, Tick PROVE WatchInv'
  <1>1. Move
    BY EdgeMoves DEF WatchInv
  <1>2. stD' = st
    BY DEF Tick, Watch
  <1>3. illTr' = 0
    BY DEF Tick, Watch, WatchInv
  <1>4. busy' = 1 => Legal(stD, st)'
    BY <1>1, <1>2 DEF Move, Legal
  <1>. QED  BY <1>1, <1>2, <1>3, <1>4 DEF WatchInv, Move

\* Between edges nobody touches a flop of the bench.
LEMMA OthersKeep == ASSUME WatchInv, UNCHANGED <<fsm, detector>> PROVE WatchInv'
  BY DEF WatchInv, fsm, detector, Legal

LEMMA WatchStep == ASSUME WatchInv, [Next]_vars PROVE WatchInv'
  <1>1. CASE Tick
    BY <1>1, EdgeKeeps
  <1>2. CASE Kernel \/ Glitch
    BY <1>2, OthersKeep DEF Kernel, Take, Taken, LetGo, Answer, Return, Glitch
  <1>3. CASE HostLow \/ HostStart \/ HostDone \/ HostCorrupt \/ HostReset
    BY <1>3, OthersKeep DEF HostLow, HostStart, HostDone, HostCorrupt, HostReset
  <1>4. CASE UNCHANGED vars
    BY <1>4, OthersKeep DEF vars
  <1>. QED  BY <1>1, <1>2, <1>3, <1>4 DEF Next

\* The detector of illegal transitions never fires: the acknowledge and the
\* answer come from wires that know no clock, but the state register only ever
\* sees them through two flops (gen_bench.py 402-422).
THEOREM NeverIllegalCorrect == Spec => []NeverIllegal
  <1>1. Init => WatchInv
    BY DEF Init, WatchInv, State, Legal, S_IDLE, S_NEXT
  <1>2. WatchInv /\ [Next]_vars => WatchInv'
    BY WatchStep
  <1>3. WatchInv => NeverIllegal
    BY DEF WatchInv, NeverIllegal
  <1>. QED  BY <1>1, <1>2, <1>3, PTL DEF Spec

-----------------------------------------------------------------------------
(* A batch's report.  The invariant has a part for each thing that runs at *)
(* its own pace: the host and its registers, the histogram pipeline, the   *)
(* run the state machine is in, the kernel.                                *)

Types ==
  /\ hpc \in {"idle", "low", "poll"} /\ start \in Level /\ rst \in Level
  /\ mode \in {"uniform", "fixed"}
  /\ n \in Nat /\ gap \in Nat /\ runs \in Nat /\ prep \in Nat /\ rd \in Nat
  /\ op \in Nat \ {0} /\ lfsr \in Nat \ {0}
  /\ st \in State /\ busy \in Level /\ done \in Level /\ setReq \in Level /\ oAck \in Level
  /\ startD \in Level /\ clearing \in Level /\ pending \in Level
  /\ pend \in Level /\ v2 \in Level /\ we \in Level
  /\ clr \in Bucket /\ latB \in Bucket /\ bq \in Bucket /\ bq2 \in Bucket
  /\ hist \in [Bucket -> Nat] /\ seen \in [Bucket -> Nat]
  /\ req \in Level /\ oReq \in Level /\ iAck \in Level
  /\ sQ \in Level \X Level
  /\ kind \in {"coupled", "decoupled"}
  /\ opB \in Nat /\ hold \in Nat /\ job \in Nat
  /\ drawn \in Seq(Nat \ {0}) /\ sig \in Seq(Nat)
  /\ tainted \in BOOLEAN

\* A run is in progress only while the host polls for its batch, and the start
\* that began it is not seen twice.
HostInv ==
  /\ rst = 1 => hpc = "idle" /\ start = 0
  /\ hpc = "low" => start = 0
  /\ hpc = "poll" => start = 1
  /\ hpc = "idle" /\ start = 1 => startD = 1
  /\ hpc # "idle" => n > 0
  /\ busy = 1 => hpc = "poll" /\ startD = 1
  /\ hpc = "poll" /\ startD = 1 /\ busy = 0 => done = 1
  /\ busy = 1 => done = 0
  /\ busy = 0 => st = S_IDLE
  /\ pending = IF st = S_IDLE THEN busy ELSE 0
  /\ st # S_PREP => prep = 0

\* The registers report on the batch the host is polling for.
Current == hpc = "poll" /\ startD = 1

Plus(h, b) == [h EXCEPT ![b] = @ + 1]
Quiet == pend = 0 /\ v2 = 0 /\ we = 0

\* At most one entry is on its way to the histogram, and it lands before the
\* next run's, or the host, can look.
HistInv ==
  /\ st # S_IDLE => clearing = 0
  /\ clearing = 1 => \A b \in Bucket : b < clr => hist[b] = 0
  /\ st = S_IDLE /\ busy = 1 => /\ \A b \in Bucket : seen[b] = 0
                                /\ clearing = 0 => hist = seen
  /\ st = S_IDLE => Quiet
  /\ Current /\ st = S_IDLE /\ busy = 0 => hist = seen /\ clearing = 0
  /\ st \in {S_PREP, S_ISSUE, S_WAIT_ACK, S_WAIT_RES} => Quiet /\ seen = hist
  /\ st = S_ACK => pend = 1 /\ v2 = 0 /\ we = 0 /\ seen = Plus(hist, latB)
  /\ st \in {S_RTZ, S_NEXT} =>
        /\ pend = 0
        /\ \/ st = S_RTZ /\ v2 = 1 /\ we = 0 /\ seen = Plus(hist, bq)
           \/ v2 = 0 /\ we = 1 /\ rd = hist[bq2] /\ seen = Plus(hist, bq2)
           \/ v2 = 0 /\ we = 0 /\ seen = hist

\* 1 from the draw of a run's operand to the run's retirement.
Drawing == IF st \in S_ISSUE .. S_NEXT \/ (st = S_PREP /\ prep > 0) THEN 1 ELSE 0

\* The generator and the mismatch latch, k runs after the batch began.
Verdict(k) ==
  IF mode = "uniform"
  THEN /\ \A i \in 1 .. Len(drawn) : drawn[i] = i
       /\ lfsr = Len(drawn) + 1
       /\ ref = None /\ mism = 0
  ELSE /\ IF k = 0 THEN ref = None ELSE ref = drawn[1]
       /\ IF mism = 0 THEN \A i \in 1 .. k : drawn[i] = drawn[1]
          ELSE /\ mism \in 1 .. k
               /\ drawn[mism] # drawn[1]
               /\ \A i \in 1 .. k : i < mism => drawn[i] = drawn[1]

Retired == /\ Len(sig) = runs
           /\ \A i \in 1 .. runs : sig[i] = drawn[i]

RunInv ==
  /\ IF busy = 1 THEN runs < n ELSE runs = n /\ hold = drawn[n]
  /\ Len(drawn) = runs + Drawing
  /\ Retired
  /\ Drawing = 1 => drawn[runs + 1] = opB
  /\ st \in {S_ACK, S_RTZ, S_NEXT} => hold = opB
  /\ st = S_IDLE /\ busy = 1 => runs = 0
  /\ Verdict(runs)

\* A kernel with storage, seen from the state machine: at rest outside a run;
\* asked once in it, of the run's operand, or still at rest because the last run's
\* acknowledge cleared the request; its answer up until acknowledged.
Rest == req = 0 /\ job = None /\ oReq = 0
Asked == req = 1 /\ iAck = 0 /\ job = None /\ oReq = 0
Working == req = 0 /\ job = opB

\* The two flops behind the level of the answer, when it can only rise, when it
\* can only fall, and between.
Settled == sQ = <<0, 0>> /\ "o_req" \notin moved
Rising == /\ sQ[2] = 1 => sQ[1] = 1
          /\ sQ[1] = 1 => oReq = 1 /\ "o_req" \notin moved
          /\ "o_req" \in moved => oReq = 1
Falling == /\ sQ[1] = 1 => sQ[2] = 1
           /\ oReq = 1 \/ "o_req" \in moved => sQ = <<1, 1>>
           /\ oReq = 1 => "o_req" \notin moved

KernelInv ==
  /\ st \in {S_IDLE, S_PREP, S_ISSUE, S_NEXT} => Rest /\ Settled /\ setReq = 0
  /\ st = S_WAIT_ACK => /\ setReq = 1 => Rest
                        /\ setReq = 0 => Asked \/ Working \/ Rest
  /\ st = S_WAIT_RES => setReq = 0 /\ (Asked \/ Working \/ Rest)
  /\ st \in {S_WAIT_ACK, S_WAIT_RES} => Rising
  /\ st \in {S_ACK, S_RTZ} => /\ Falling /\ req = 0 /\ setReq = 0
                              /\ oReq = 1 => job = opB
                              /\ oReq = 0 => job = None
  /\ oAck = 1 <=> st \in {S_ACK, S_RTZ}

IInv == /\ Types
        /\ HostInv
        /\ ~tainted => /\ HistInv
                       /\ Current => RunInv
                       /\ kind = "decoupled" => KernelInv

-----------------------------------------------------------------------------
(* What the actions that are not an edge leave alone.                      *)

LEMMA KernelFrame == ASSUME Kernel \/ Glitch
                     PROVE  UNCHANGED <<host, fsm, report, pipe, sA, sR, sQ, kind, detector, history>>
  BY DEF Kernel, Take, Taken, LetGo, Answer, Return, Glitch, boundary

HostMove == HostLow \/ HostStart \/ HostDone \/ HostCorrupt \/ HostReset

LEMMA HostFrame == ASSUME HostMove
                   PROVE  UNCHANGED <<gap, fsm, report, pipe, boundary, kernel, detector, history>>
  BY DEF HostMove, HostLow, HostStart, HostDone, HostCorrupt, HostReset

\* An edge is a reset or one step of the state machine.
LEMMA EdgeCases == ASSUME Tick
                   PROVE  \/ rst = 1 /\ BatchReset
                          \/ rst # 1 /\ (Idle \/ Prep \/ Issue \/ WaitAck \/ WaitRes
                                           \/ Acked \/ Rtz \/ Retire)
  BY DEF Tick, Step

-----------------------------------------------------------------------------
(* Types.                                                                  *)

LEMMA EdgeTypes == ASSUME Types, Tick PROVE Types'
  <1>0. Buckets \in Nat \ {0} /\ Bucket = 0 .. Buckets - 1 /\ 0 \in Bucket
    BY BenchAssumption DEF Bucket
  <1>1. UNCHANGED <<host, kernel>>
    BY DEF Tick
  <1>2. st' \in State
    BY EdgeMoves DEF Types, Move
  <1>3. startD' \in Level
    BY DEF Tick, Types
  <1>4. /\ v2' \in Level /\ we' \in Level /\ rd' \in Nat
        /\ bq' \in Bucket /\ bq2' \in Bucket
        /\ hist' \in [Bucket -> Nat]
    BY DEF Tick, Pipeline, Types
  <1>5. req' \in Level
    BY DEF Tick, Boundary, Request, Types, Level
  <1>6. sQ' \in Level \X Level
    <2>1. PICK a \in Sampled(oReq, "o_req") : sQ' = <<a, sQ[1]>>
      BY DEF Tick, Boundary
    <2>2. a \in Level
      BY <2>1 DEF Sampled, Types
    <2>. QED  BY <2>1, <2>2 DEF Types
  <1> DEFINE Rest1 == /\ runs' \in Nat /\ prep' \in Nat /\ lfsr' \in Nat \ {0}
                      /\ busy' \in Level /\ done' \in Level /\ setReq' \in Level
                      /\ oAck' \in Level /\ clearing' \in Level /\ pending' \in Level
                      /\ pend' \in Level /\ clr' \in Bucket /\ latB' \in Bucket
                      /\ seen' \in [Bucket -> Nat]
                      /\ drawn' \in Seq(Nat \ {0}) /\ tainted' \in BOOLEAN
                      /\ sig' \in Seq(Nat) /\ hold' \in Nat /\ opB' \in Nat
  <1>7. Rest1
    <2>t. lfsr \in Nat \ {0} /\ op \in Nat \ {0} /\ runs \in Nat /\ opB \in Nat
      BY DEF Types
    <2>d. drawn \in Seq(Nat \ {0}) /\ seen \in [Bucket -> Nat]
      BY DEF Types
    <2>l. busy \in Level /\ done \in Level
      BY DEF Types
    <2>1. CASE BatchReset
      BY <2>1, <1>0, EmptySeq DEF BatchReset, history, Types, Level
    <2>2. CASE Idle
      <3>1. \/ /\ runs' = 0 /\ lfsr' = 1 /\ busy' = 1 /\ done' = 0
               /\ seen' = [b \in Bucket |-> 0] /\ drawn' = <<>> /\ sig' = <<>>
            \/ UNCHANGED <<busy, done, runs, lfsr, sig, drawn, seen>>
        BY <2>2 DEF Idle
      <3>2. runs' \in Nat /\ lfsr' \in Nat \ {0} /\ busy' \in Level /\ done' \in Level
        BY <3>1, <2>t, <2>l DEF Level
      <3>b. seen' \in [Bucket -> Nat]
        BY <3>1, <2>d
      <3>a. drawn' \in Seq(Nat \ {0}) /\ sig' \in Seq(Nat)
        BY <3>1, EmptySeq DEF Types
      <3>3. clr' = clr \/ clr' = 0 \/ (clr' = clr + 1 /\ clr # Buckets - 1)
        BY <2>2 DEF Idle
      <3>4. clr' \in Bucket
        <4>1. clr \in Nat /\ clr <= Buckets - 1
          BY <1>0 DEF Types
        <4>. QED  BY <4>1, <3>3, <1>0
      <3>5. clearing' = clearing \/ clearing' = 0 \/ clearing' = 1
        BY <2>2 DEF Idle
      <3>6. pending' = 0 \/ pending' = 1
        BY <2>2 DEF Idle
      <3>7. setReq' = 0 /\ pend' = 0 /\ UNCHANGED <<oAck, prep, opB, hold, latB, tainted>>
        BY <2>2 DEF Idle
      <3>. QED  BY <3>a, <3>b, <3>2, <3>4, <3>5, <3>6, <3>7 DEF Types, Level
    <2>3. CASE Prep
      <3>1. \/ /\ opB' = op \/ opB' = lfsr
               /\ lfsr' = lfsr \/ lfsr' = lfsr + 1
               /\ drawn' = Append(drawn, opB')
            \/ UNCHANGED <<opB, lfsr, drawn>>
        BY <2>3 DEF Prep
      <3>2. lfsr' \in Nat \ {0} /\ opB' \in Nat
        BY <3>1, <2>t
      <3>a. drawn' \in Seq(Nat \ {0})
        <4>1. opB' \in Nat \ {0} \/ drawn' = drawn
          BY <3>1, <2>t
        <4>. QED  BY <3>1, <4>1, <2>d, AppendProperties
      <3>3. prep' = 0 \/ prep' = prep + 1
        BY <2>3 DEF Prep
      <3>4. setReq' = 0 /\ pend' = 0
            /\ UNCHANGED <<busy, done, oAck, clearing, clr, pending, runs, latB, sig, hold,
                           seen, tainted>>
        BY <2>3 DEF Prep, report
      <3>. QED  BY <3>a, <3>2, <3>3, <3>4 DEF Types, Level
    <2>4. CASE Issue \/ WaitAck \/ Acked
      BY <2>4 DEF Issue, WaitAck, Acked, report, history, Types, Level
    <2>5. CASE WaitRes
      <3>1. \/ /\ tainted' = (tainted \/ sQ[2] = 0) /\ pend' = 1 /\ oAck' = 1
               /\ \E b \in Bucket : latB' = b /\ seen' = [seen EXCEPT ![b] = @ + 1]
            \/ pend' = 0 /\ UNCHANGED <<latB, oAck, seen, tainted>>
        BY <2>5 DEF WaitRes
      <3>2. pend' \in Level /\ oAck' \in Level /\ tainted' \in BOOLEAN
        BY <3>1 DEF Types, Level
      <3>a. latB' \in Bucket /\ seen' \in [Bucket -> Nat]
        <4>1. CASE UNCHANGED <<latB, seen>>
          BY <4>1 DEF Types
        <4>2. ASSUME NEW b \in Bucket, latB' = b, seen' = [seen EXCEPT ![b] = @ + 1]
              PROVE  latB' \in Bucket /\ seen' \in [Bucket -> Nat]
          BY <4>2 DEF Types
        <4>. QED  BY <3>1, <4>1, <4>2
      <3>b. hold' \in Nat
        <4>1. Data \in Nat /\ hold \in Nat
          BY DEF Data, Core, None, Types
        <4>2. hold' = Data \/ hold' = hold
          BY <2>5 DEF WaitRes
        <4>. QED  BY <4>1, <4>2
      <3>3. setReq' = 0 /\ UNCHANGED <<busy, done, prep, opB, lfsr, clearing, clr, pending, runs, sig, drawn>>
        BY <2>5 DEF WaitRes
      <3>. QED  BY <3>a, <3>b, <3>2, <3>3 DEF Types, Level
    <2>6. CASE Rtz
      BY <2>6 DEF Rtz, report, history, Types, Level
    <2>7. CASE Retire
      <3>1. /\ runs' = runs + 1 /\ setReq' = 0 /\ pend' = 0
            /\ (busy' = 0 /\ done' = 1) \/ UNCHANGED <<busy, done>>
            /\ UNCHANGED <<oAck, prep, opB, lfsr, clearing, clr, pending, hold, latB, history>>
        BY <2>7 DEF Retire
      <3>2. sig' \in Seq(Nat)
        BY <2>7, AppendProperties DEF Retire, Types
      <3>. QED  BY <3>1, <3>2 DEF history, Types, Level
    <2>. QED  BY <2>1, <2>2, <2>3, <2>4, <2>5, <2>6, <2>7, EdgeCases
  <1>. QED
    BY <1>1, <1>2, <1>3, <1>4, <1>5, <1>6, <1>7 DEF Types, host, kernel

LEMMA TypesStep == ASSUME Types, [Next]_vars PROVE Types'
  <1>1. CASE Tick
    BY <1>1, EdgeTypes
  <1>2. CASE Kernel \/ Glitch
    <2>1. req' \in Level /\ oReq' \in Level /\ iAck' \in Level /\ job' \in Nat
      BY <1>2 DEF Kernel, Take, Taken, LetGo, Answer, Return, Glitch, RaiseAck, Core, None,
                  Types, Level, boundary
    <2>. QED  BY <1>2, <2>1, KernelFrame DEF Types, host, fsm, report, pipe, history
  <1>3. CASE HostMove
    <2>1. /\ hpc' \in {"idle", "low", "poll"} /\ start' \in Level /\ rst' \in Level
          /\ mode' \in {"uniform", "fixed"} /\ n' \in Nat /\ op' \in Nat \ {0}
      <3>1. CASE HostLow
        <4>1. PICK m \in {"uniform", "fixed"}, k \in 1 .. MaxRuns : mode' = m /\ n' = k
          BY <3>1 DEF HostLow
        <4>2. hpc' = "low" /\ start' = 0 /\ rst' = rst /\ op' = 1
          BY <3>1 DEF HostLow
        <4>. QED  BY <4>1, <4>2 DEF Types, Level
      <3>2. CASE ~HostLow
        <4>1. CASE HostReset
          <5>1. rst \in {0, 1} /\ rst' = 1 - rst /\ start' = 0 /\ UNCHANGED <<hpc, mode, n, op>>
            BY <4>1 DEF HostReset, Types, Level
          <5>. QED  BY <5>1 DEF Types, Level
        <4>2. CASE ~HostReset
          <5>1. /\ hpc' \in {"idle", "low", "poll"}
                /\ start' = start \/ start' = 1
                /\ op' = op \/ op' = 2
                /\ UNCHANGED <<rst, mode, n>>
            BY <1>3, <3>2, <4>2 DEF HostMove, HostStart, HostDone, HostCorrupt, Types
          <5>. QED  BY <5>1 DEF Types, Level
        <4>. QED  BY <4>1, <4>2
      <3>. QED  BY <3>1, <3>2
    <2>. QED  BY <1>3, <2>1, HostFrame DEF Types, fsm, report, pipe, boundary, kernel, history
  <1>4. CASE UNCHANGED vars
    BY <1>4 DEF vars, Types, host, fsm, report, pipe, boundary, kernel, history
  <1>. QED  BY <1>1, <1>2, <1>3, <1>4 DEF Next, HostMove

-----------------------------------------------------------------------------
(* The host.                                                               *)

LEMMA EdgeHost == ASSUME Types, HostInv, Tick PROVE HostInv'
  <1>0. /\ UNCHANGED <<hpc, start, rst, n>> /\ startD' = start
        /\ startD \in {0, 1} /\ start \in {0, 1} /\ busy \in {0, 1} /\ pending \in {0, 1}
        /\ rst \in {0, 1} /\ n \in Nat /\ hpc \in {"idle", "low", "poll"}
    BY DEF Tick, host, Types, Level
  <1>1. HostInv
    OBVIOUS
  <1> USE DEF S_IDLE, S_PREP, S_ISSUE, S_WAIT_ACK, S_WAIT_RES, S_ACK, S_RTZ, S_NEXT
  <1>2. CASE rst = 1 /\ BatchReset
    <2>1. st' = 0 /\ busy' = 0 /\ pending' = 0 /\ prep' = prep
      BY <1>2 DEF BatchReset
    <2>. QED  BY <1>0, <1>2, <2>1 DEF HostInv
  <1>3. CASE rst # 1 /\ Idle
    <2>1. st = 0 /\ prep = 0 /\ prep' = 0 /\ pending = busy
      BY <1>3 DEF Idle, HostInv
    <2>2. CASE StartRise
      <3>1. hpc = "poll" /\ busy = 0 /\ pending = 0
        BY <1>0, <2>1, <2>2 DEF HostInv, StartRise
      <3>2. busy' = 1 /\ done' = 0 /\ st' = 0 /\ pending' = 1
        BY <1>3, <2>1, <2>2, <3>1 DEF Idle
      <3>. QED  BY <1>0, <2>1, <2>2, <3>1, <3>2 DEF HostInv, StartRise
    <2>3. CASE ~StartRise
      <3>1. busy' = busy /\ done' = done
        BY <1>3, <2>3 DEF Idle
      <3>2. \/ pending' = pending /\ st' = 0
            \/ pending = 1 /\ pending' = 0 /\ st' = 1
        BY <1>0, <1>3, <2>1, <2>3 DEF Idle
      <3>3. hpc = "poll" => startD = 1
        BY <1>0, <2>3 DEF StartRise, HostInv
      <3>. QED  BY <1>0, <1>3, <2>1, <3>1, <3>2, <3>3 DEF HostInv
    <2>. QED  BY <2>2, <2>3
  <1>4. CASE rst # 1 /\ (Prep \/ Issue \/ WaitAck \/ WaitRes \/ Acked \/ Rtz)
    <2>1. st # 0 /\ st' # 0 /\ busy' = busy /\ done' = done /\ pending' = pending
      <3>1. CASE Prep
        BY <3>1 DEF Prep
      <3>2. CASE Issue \/ Acked
        BY <3>2 DEF Issue, Acked
      <3>3. CASE WaitAck
        BY <3>3, OneValue DEF WaitAck
      <3>4. CASE WaitRes
        BY <3>4 DEF WaitRes
      <3>5. CASE Rtz
        BY <3>5 DEF Rtz
      <3>. QED  BY <1>4, <3>1, <3>2, <3>3, <3>4, <3>5
    <2>2. st' # 1 => prep' = 0
      BY <1>1, <1>4 DEF Prep, Issue, WaitAck, WaitRes, Acked, Rtz, HostInv
    <2>. QED  BY <1>0, <1>1, <2>1, <2>2 DEF HostInv
  <1>5. CASE rst # 1 /\ Retire
    <2>1. st = 7 /\ prep' = prep /\ pending' = pending
      BY <1>5 DEF Retire
    <2>2. \/ busy' = 0 /\ done' = 1 /\ st' = 0
          \/ busy' = busy /\ done' = done /\ st' = 1
      BY <1>5 DEF Retire
    <2>. QED  BY <1>0, <1>1, <2>1, <2>2 DEF HostInv
  <1>. QED  BY <1>2, <1>3, <1>4, <1>5, EdgeCases

LEMMA HostStep == ASSUME Types, HostInv, [Next]_vars PROVE HostInv'
  <1>0. start \in {0, 1} /\ startD \in {0, 1} /\ rst \in {0, 1} /\ n \in Nat
    BY DEF Types, Level
  <1>1. CASE Tick
    BY <1>1, EdgeHost
  <1>2. CASE Kernel \/ Glitch
    BY <1>2, KernelFrame DEF HostInv, host, fsm
  <1>3. CASE HostMove
    <2>1. UNCHANGED <<st, busy, done, prep, startD, pending>>
      BY <1>3, HostFrame DEF fsm
    <2>2. CASE HostLow
      <3>1. hpc = "idle" /\ hpc' = "low" /\ start' = 0 /\ rst' = rst /\ rst = 0
        BY <2>2 DEF HostLow
      <3>2. n' > 0
        <4>1. PICK m \in {"uniform", "fixed"}, k \in 1 .. MaxRuns : mode' = m /\ n' = k
          BY <2>2 DEF HostLow
        <4>. QED  BY <4>1, BenchAssumption
      <3>. QED  BY <2>1, <3>1, <3>2 DEF HostInv
    <2>3. CASE HostStart
      BY <2>1, <2>3 DEF HostInv, HostStart
    <2>4. CASE HostDone
      <3>1. /\ hpc = "poll" /\ startD = 1 /\ done = 1 /\ hpc' = "idle"
            /\ UNCHANGED <<start, rst, n>>
        BY <2>4 DEF HostDone
      <3>2. busy = 0
        BY <3>1 DEF HostInv, Types, Level
      <3>. QED  BY <2>1, <3>1, <3>2 DEF HostInv
    <2>5. CASE HostCorrupt
      BY <2>1, <2>5 DEF HostInv, HostCorrupt
    <2>6. CASE HostReset
      BY <1>0, <2>1, <2>6 DEF HostInv, HostReset
    <2>. QED  BY <1>3, <2>2, <2>3, <2>4, <2>5, <2>6 DEF HostMove
  <1>4. CASE UNCHANGED vars
    BY <1>4 DEF vars, HostInv, host, fsm
  <1>. QED  BY <1>1, <1>2, <1>3, <1>4 DEF Next, HostMove

\* A reset, or a host that is not polling, finds the state machine at home.
LEMMA AtHome == ASSUME Types, HostInv, hpc # "poll" \/ startD # 1
                PROVE  busy = 0 /\ st = S_IDLE /\ pending = 0
  BY DEF HostInv, Types, Level

-----------------------------------------------------------------------------
(* The histogram.                                                          *)

LEMMA EdgeHist == ASSUME Types, HostInv, HistInv, Tick PROVE HistInv'
  <1> USE DEF S_IDLE, S_PREP, S_ISSUE, S_WAIT_ACK, S_WAIT_RES, S_ACK, S_RTZ, S_NEXT
  <1>0. /\ hist \in [Bucket -> Nat] /\ seen \in [Bucket -> Nat] /\ clr \in Bucket
        /\ latB \in Bucket /\ bq \in Bucket /\ bq2 \in Bucket
        /\ busy \in {0, 1} /\ clearing \in {0, 1} /\ st \in 0 .. 7
    BY DEF Types, Level, State
  <1>b. Buckets \in Nat \ {0} /\ Bucket = 0 .. Buckets - 1
    BY BenchAssumption DEF Bucket
  <1>p. /\ bq' = latB /\ v2' = pend /\ bq2' = bq /\ rd' = hist[bq] /\ we' = v2
        /\ hist' = IF clearing = 1 THEN [hist EXCEPT ![clr] = 0]
                   ELSE IF we = 1 THEN [hist EXCEPT ![bq2] = rd + 1] ELSE hist
    BY DEF Tick, Pipeline
  <1>h. hpc' = hpc /\ startD' = start /\ n' = n
    BY DEF Tick, host
  <1>1. CASE rst = 1 /\ BatchReset
    <2>1. hpc # "poll" /\ st = 0
      BY <1>1, AtHome DEF HostInv
    <2>2. Quiet
      BY <2>1 DEF HistInv
    <2>3. st' = 0 /\ busy' = 0 /\ clearing' = 1 /\ clr' = 0 /\ pend' = 0
      BY <1>1 DEF BatchReset
    <2>4. \A b \in Bucket : ~(b < 0)
      BY <1>b
    <2>. QED  BY <1>p, <1>h, <2>1, <2>2, <2>3, <2>4 DEF HistInv, Quiet, Current
  <1>2. CASE rst # 1 /\ Idle
    <2>1. st = 0 /\ Quiet /\ pend' = 0
      BY <1>2 DEF Idle, HistInv
    <2>2. pending = busy
      BY <2>1 DEF HostInv
    <2>3. Quiet' /\ hist' = IF clearing = 1 THEN [hist EXCEPT ![clr] = 0] ELSE hist
      BY <1>p, <2>1 DEF Quiet
    <2>4. ASSUME clearing = 1, clearing' = 1 => clr' = clr + 1,
                 clearing' = 0 => clr = Buckets - 1, clearing' \in {0, 1}
          PROVE  \A b \in Bucket : clearing' = 0 \/ b < clr' => hist'[b] = 0
      <3>1. \A b \in Bucket : b < clr => hist[b] = 0
        BY <2>4 DEF HistInv
      <3>2. \A b \in Bucket : hist'[b] = IF b = clr THEN 0 ELSE hist[b]
        BY <1>0, <2>3, <2>4
      <3>3. SUFFICES ASSUME NEW b \in Bucket, clearing' = 0 \/ b < clr' PROVE hist'[b] = 0
        OBVIOUS
      <3>4. b < clr \/ b = clr
        BY <1>0, <1>b, <2>4, <3>3
      <3>. QED  BY <3>1, <3>2, <3>4
    <2>5. ASSUME \A b \in Bucket : hist'[b] = 0, \A b \in Bucket : seen'[b] = 0
          PROVE  hist' = seen'
      <3>1. hist' \in [Bucket -> Nat] /\ seen' \in [Bucket -> Nat]
        BY EdgeTypes DEF Types
      <3>. QED  BY <2>5, <3>1
    <2>6. CASE StartRise
      <3>1. busy = 0 /\ pending = 0
        BY <2>1, <2>2, <2>6 DEF HostInv, StartRise, Types, Level
      <3>2. busy' = 1 /\ seen' = [b \in Bucket |-> 0] /\ st' = 0
        BY <1>2, <2>1, <2>6, <3>1 DEF Idle
      <3>3. \/ clearing = 1 /\ clr = Buckets - 1 /\ clearing' = 0
            \/ clearing = 1 /\ clearing' = 1 /\ clr' = clr + 1
            \/ clearing = 0 /\ clearing' = 1 /\ clr' = 0
        BY <1>2, <2>6, <3>1 DEF Idle
      <3>4. \A b \in Bucket : clearing' = 0 \/ b < clr' => hist'[b] = 0
        <4>1. CASE clearing = 1
          BY <2>4, <3>3, <4>1
        <4>2. CASE clearing = 0
          BY <1>b, <3>3, <4>2
        <4>. QED  BY <1>0, <4>1, <4>2
      <3>5. \A b \in Bucket : seen'[b] = 0
        BY <3>2
      <3>6. clearing' = 0 => hist' = seen'
        BY <2>5, <3>4, <3>5
      <3>. QED  BY <2>3, <3>2, <3>4, <3>5, <3>6 DEF HistInv
    <2>7. CASE ~StartRise
      <3>1. busy' = busy /\ seen' = seen
        BY <1>2, <2>7 DEF Idle
      <3>2. CASE clearing = 1
        <4>1. \/ clr = Buckets - 1 /\ clearing' = 0 /\ (IF pending = 1 THEN st' = 1 ELSE st' = 0)
              \/ clearing' = 1 /\ clr' = clr + 1 /\ st' = 0
          BY <1>2, <2>1, <3>2 DEF Idle
        <4>2. \A b \in Bucket : clearing' = 0 \/ b < clr' => hist'[b] = 0
          BY <2>4, <3>2, <4>1
        <4>3. busy = 1 => \A b \in Bucket : seen'[b] = 0
          BY <2>1, <3>1 DEF HistInv
        <4>4. busy = 1 /\ clearing' = 0 => hist' = seen'
          BY <2>5, <4>2, <4>3
        <4>5. ~(Current /\ busy = 0)
          BY <2>1, <3>2 DEF HistInv
        <4>6. busy = 0 => ~Current'
          BY <1>h, <2>7, <4>5 DEF Current, StartRise, HostInv, Types, Level
        <4>. QED  BY <1>0, <2>2, <2>3, <3>1, <4>1, <4>2, <4>3, <4>4, <4>6 DEF HistInv
      <3>3. CASE clearing = 0
        <4>1. clearing' = 0 /\ st' = (IF pending = 1 THEN 1 ELSE 0) /\ hist' = hist
          BY <1>2, <2>1, <2>3, <2>7, <3>3 DEF Idle
        <4>2. busy = 1 => hist' = seen' /\ \A b \in Bucket : seen'[b] = 0
          BY <2>1, <3>1, <3>3, <4>1 DEF HistInv
        <4>3. busy = 0 /\ Current' => Current
          BY <1>h, <2>7 DEF Current, StartRise, HostInv, Types, Level
        <4>4. busy = 0 /\ Current' => hist' = seen'
          BY <2>1, <3>1, <4>1, <4>3 DEF HistInv
        <4>. QED  BY <1>0, <2>2, <2>3, <3>1, <4>1, <4>2, <4>4 DEF HistInv
      <3>. QED  BY <1>0, <3>2, <3>3
    <2>. QED  BY <2>6, <2>7
  <1>3. CASE rst # 1 /\ (Prep \/ Issue \/ WaitAck)
    <2>1. Quiet /\ seen = hist /\ clearing = 0 /\ st \in {1, 2, 3}
      BY <1>3 DEF Prep, Issue, WaitAck, HistInv
    <2>2. st' \in {1, 2, 3, 4} /\ pend' = 0 /\ clearing' = 0 /\ seen' = seen
      <3>1. CASE WaitAck
        BY <2>1, <3>1, OneValue DEF WaitAck, history
      <3>2. CASE Prep \/ Issue
        BY <2>1, <3>2 DEF Prep, Issue, history
      <3>. QED  BY <1>3, <3>1, <3>2
    <2>3. hist' = hist /\ Quiet'
      BY <1>p, <2>1, <2>2 DEF Quiet
    <2>. QED  BY <2>1, <2>2, <2>3 DEF HistInv
  <1>4. CASE rst # 1 /\ WaitRes
    <2>1. Quiet /\ seen = hist /\ clearing = 0
      BY <1>4 DEF WaitRes, HistInv
    <2>2. clearing' = 0 /\ hist' = hist /\ v2' = 0 /\ we' = 0
      BY <1>4, <1>p, <2>1 DEF WaitRes, Quiet
    <2>3. \/ st' = 4 /\ pend' = 0 /\ seen' = seen
          \/ /\ st' = 5 /\ pend' = 1
             /\ \E b \in Bucket : latB' = b /\ seen' = [seen EXCEPT ![b] = @ + 1]
      BY <1>4 DEF WaitRes
    <2>. QED  BY <2>1, <2>2, <2>3 DEF HistInv, Plus, Quiet
  <1>5. CASE rst # 1 /\ Acked
    <2>1. pend = 1 /\ v2 = 0 /\ we = 0 /\ seen = Plus(hist, latB) /\ clearing = 0
      BY <1>5 DEF Acked, HistInv
    <2>2. st' = 6 /\ pend' = 0 /\ clearing' = 0 /\ seen' = seen
      BY <1>5, <2>1 DEF Acked, history
    <2>. QED  BY <1>p, <2>1, <2>2 DEF HistInv
  <1>6. CASE rst # 1 /\ (Rtz \/ Retire)
    <2> DEFINE InFlight == st = 6 /\ v2 = 1 /\ we = 0 /\ seen = Plus(hist, bq)
               Landing  == v2 = 0 /\ we = 1 /\ rd = hist[bq2] /\ seen = Plus(hist, bq2)
               Landed   == v2 = 0 /\ we = 0 /\ seen = hist
    <2>1. pend = 0 /\ clearing = 0 /\ (InFlight \/ Landing \/ Landed)
      BY <1>6 DEF Rtz, Retire, HistInv
    <2>2. pend' = 0 /\ clearing' = 0 /\ seen' = seen /\ v2' = 0
      BY <1>6, <1>p, <2>1 DEF Rtz, Retire, history
    <2>3. \/ st = 6 /\ st' \in {6, 7}
          \/ st = 7 /\ st' = 1
          \/ st = 7 /\ st' = 0 /\ busy' = 0
      BY <1>6 DEF Rtz, Retire
    <2>4. CASE InFlight
      <3>1. we' = 1 /\ hist' = hist /\ bq2' = bq /\ rd' = hist'[bq2']
        BY <1>p, <2>1, <2>4
      <3>. QED  BY <2>2, <2>3, <2>4, <3>1 DEF HistInv
    <2>5. CASE Landing \/ Landed
      <3>1. hist' = seen /\ we' = 0
        <4>1. Landing => [hist EXCEPT ![bq2] = rd + 1] = seen
          BY <1>0 DEF Plus
        <4>. QED  BY <1>p, <2>1, <2>5, <4>1
      <3>. QED  BY <2>2, <2>3, <3>1 DEF HistInv, Quiet
    <2>. QED  BY <2>1, <2>4, <2>5
  <1>. QED  BY <1>1, <1>2, <1>3, <1>4, <1>5, <1>6, EdgeCases

\* The host's moves change whether the registers are current, but only the one
\* that starts a batch could make them so, and that waits for the old start to
\* have been seen low.
LEMMA HostNotCurrent == ASSUME Types, HostInv, HostMove, Current' PROVE Current
  <1>1. startD' = startD
    BY HostFrame DEF fsm
  <1>. QED
    BY <1>1 DEF HostMove, HostLow, HostStart, HostDone, HostCorrupt, HostReset, Current

LEMMA HistStep == ASSUME Types, HostInv, HistInv, [Next]_vars PROVE HistInv'
  <1>1. CASE Tick
    BY <1>1, EdgeHist
  <1>2. CASE Kernel \/ Glitch
    BY <1>2, KernelFrame DEF HistInv, Quiet, Current, host, fsm, pipe, history
  <1>3. CASE HostMove
    <2>1. UNCHANGED <<fsm, pipe, history>>
      BY <1>3, HostFrame
    <2>. QED  BY <1>3, <2>1, HostNotCurrent DEF HistInv, Quiet, fsm, pipe, history
  <1>4. CASE UNCHANGED vars
    BY <1>4 DEF vars, HistInv, Quiet, Current, host, fsm, pipe, history
  <1>. QED  BY <1>1, <1>2, <1>3, <1>4 DEF Next, HostMove

-----------------------------------------------------------------------------
(* The kernel.                                                             *)

\* What an edge does at the boundary.  The level's first flop takes the wire
\* or, if the wire moved, anything; the second takes the first.
LEMMA EdgeBoundary ==
  ASSUME Types, Tick
  PROVE  /\ sQ[1] \in {0, 1} /\ sQ[2] \in {0, 1} /\ sQ = <<sQ[1], sQ[2]>>
         /\ sQ'[1] \in {0, 1} /\ sQ'[2] = sQ[1] /\ sQ' = <<sQ'[1], sQ'[2]>>
         /\ "o_req" \notin moved => sQ'[1] = oReq
         /\ moved' = {}
         /\ req' = IF iAck = 1 THEN 0 ELSE IF busy = 1 /\ setReq = 1 THEN 1 ELSE req
         /\ UNCHANGED <<iAck, oReq, job, kind>>
  <1>1. PICK a \in Sampled(oReq, "o_req") : sQ' = <<a, sQ[1]>>
    BY DEF Tick, Boundary
  <1>2. a \in {0, 1} /\ ("o_req" \notin moved => a = oReq)
    BY <1>1 DEF Sampled, Types, Level
  <1>3. sQ[1] \in {0, 1} /\ sQ[2] \in {0, 1} /\ sQ = <<sQ[1], sQ[2]>>
    BY DEF Types, Level
  <1>4. /\ moved' = {}
        /\ req' = IF iAck = 1 THEN 0 ELSE IF busy = 1 /\ setReq = 1 THEN 1 ELSE req
        /\ UNCHANGED <<iAck, oReq, job, kind>>
    BY DEF Tick, Boundary, Request, kernel
  <1>. QED  BY <1>1, <1>2, <1>3, <1>4

LEMMA EdgeKernel ==
  ASSUME Types, HostInv, KernelInv, Tick, ~tainted', kind = "decoupled"
  PROVE  KernelInv'
  <1> USE DEF S_IDLE, S_PREP, S_ISSUE, S_WAIT_ACK, S_WAIT_RES, S_ACK, S_RTZ, S_NEXT, None
  <1>0. /\ oReq \in {0, 1} /\ iAck \in {0, 1} /\ req \in {0, 1} /\ setReq \in {0, 1}
        /\ oAck \in {0, 1}
    BY DEF Types, Level
  <1>b. /\ sQ[1] \in {0, 1} /\ sQ[2] \in {0, 1} /\ sQ = <<sQ[1], sQ[2]>>
        /\ sQ'[1] \in {0, 1} /\ sQ'[2] = sQ[1] /\ sQ' = <<sQ'[1], sQ'[2]>>
        /\ "o_req" \notin moved => sQ'[1] = oReq
        /\ moved' = {}
        /\ req' = IF iAck = 1 THEN 0 ELSE IF busy = 1 /\ setReq = 1 THEN 1 ELSE req
        /\ UNCHANGED <<iAck, oReq, job, kind>>
    BY EdgeBoundary
  <1>r. Rest /\ Settled /\ setReq = 0 => Rest' /\ Settled'
    BY <1>b DEF Rest, Settled
  <1>1. CASE rst = 1 /\ BatchReset
    <2>1. Rest /\ Settled /\ setReq = 0
      BY <1>1, AtHome DEF HostInv, KernelInv
    <2>2. st' = 0 /\ setReq' = 0 /\ oAck' = 0
      BY <1>1 DEF BatchReset
    <2>. QED  BY <1>r, <2>1, <2>2 DEF KernelInv
  <1>2. CASE rst # 1 /\ (Idle \/ Prep \/ Retire)
    <2>1. Rest /\ Settled /\ setReq = 0 /\ oAck # 1
      BY <1>2 DEF Idle, Prep, Retire, KernelInv
    <2>2. setReq' = 0 /\ oAck' = oAck
      BY <1>2 DEF Idle, Prep, Retire
    <2>3. st' \in {0, 1, 2}
      BY <1>2 DEF Idle, Prep, Retire
    <2>. QED  BY <1>r, <2>1, <2>2, <2>3 DEF KernelInv
  <1>3. CASE rst # 1 /\ Issue
    <2>1. Rest /\ Settled /\ setReq = 0 /\ oAck # 1
      BY <1>3 DEF Issue, KernelInv
    <2>2. setReq' = 1 /\ oAck' = oAck /\ st' = 3
      BY <1>3 DEF Issue
    <2>. QED  BY <1>r, <1>b, <2>1, <2>2 DEF KernelInv, Settled, Rising
  <1>4. CASE rst # 1 /\ (WaitAck \/ WaitRes)
    <2>1. st \in {3, 4} /\ busy = 1 /\ Rising /\ oAck # 1
      <3>1. st \in {3, 4}
        BY <1>4 DEF WaitAck, WaitRes
      <3>2. busy = 1
        BY <3>1 DEF HostInv, Types, Level
      <3>3. Rising /\ oAck # 1
        BY <3>1 DEF KernelInv
      <3>. QED  BY <3>1, <3>2, <3>3
    <2>2. setReq' = 0 /\ opB' = opB
      BY <1>4 DEF WaitAck, WaitRes
    <2>3. (Asked \/ Working \/ Rest)'
      <3>1. CASE setReq = 1
        <4>1. st = 3 /\ Rest
          BY <2>1, <3>1 DEF KernelInv
        <4>2. iAck = 1 => Rest'
          BY <1>b, <4>1 DEF Rest
        <4>3. iAck = 0 => Asked'
          BY <1>b, <2>1, <3>1, <4>1 DEF Rest, Asked
        <4>. QED  BY <1>0, <4>2, <4>3
      <3>2. CASE setReq = 0
        <4>1. Asked \/ Working \/ Rest
          BY <2>1, <3>2 DEF KernelInv
        <4>. QED  BY <1>b, <2>2, <3>2, <4>1 DEF Asked, Working, Rest
      <3>. QED  BY <1>0, <3>1, <3>2
    <2>4. Rising'
      BY <1>0, <1>b, <2>1 DEF Rising
    <2>5. CASE WaitRes /\ Completed
      <3>1. sQ[2] = 1
        BY <1>b, <2>5 DEF WaitRes
      <3>2. oReq = 1 /\ sQ' = <<1, 1>>
        BY <1>b, <2>1, <3>1 DEF Rising
      <3>3. st' = 5 /\ oAck' = 1
        BY <2>5 DEF WaitRes
      <3>4. req' = 0 /\ job' = opB'
        BY <1>b, <2>3, <3>2 DEF Asked, Working, Rest
      <3>. QED  BY <1>b, <2>2, <3>2, <3>3, <3>4 DEF KernelInv, Falling
    <2>6. CASE ~(WaitRes /\ Completed)
      <3>1. st' \in {3, 4} /\ oAck' = oAck
        <4>1. CASE WaitAck
          BY <2>1, <4>1, OneValue DEF WaitAck
        <4>2. CASE WaitRes
          BY <2>6, <4>2 DEF WaitRes
        <4>. QED  BY <1>4, <4>1, <4>2
      <3>. QED  BY <2>1, <2>2, <2>3, <2>4, <3>1 DEF KernelInv
    <2>. QED  BY <2>5, <2>6
  <1>5. CASE rst # 1 /\ (Acked \/ Rtz)
    <2>1. /\ Falling /\ req = 0 /\ setReq = 0 /\ oAck = 1
          /\ oReq = 1 => job = opB
          /\ oReq = 0 => job = None
      BY <1>5 DEF Acked, Rtz, KernelInv
    <2>2. setReq' = 0 /\ opB' = opB /\ req' = 0
      BY <1>5, <1>b, <2>1 DEF Acked, Rtz
    <2>3. Falling'
      BY <1>0, <1>b, <2>1 DEF Falling
    <2>4. CASE st' \in {5, 6} /\ oAck' = oAck
      BY <1>b, <2>1, <2>2, <2>3, <2>4 DEF KernelInv
    <2>5. CASE ~(st' \in {5, 6} /\ oAck' = oAck)
      <3>1. st' = 7 /\ oAck' = 0 /\ sQ[2] = 0
        BY <1>5, <2>5 DEF Acked, Rtz, Returned
      <3>2. oReq = 0 /\ "o_req" \notin moved /\ sQ[1] = 0
        BY <1>0, <1>b, <2>1, <3>1 DEF Falling
      <3>. QED  BY <1>b, <2>1, <2>2, <3>1, <3>2 DEF KernelInv, Rest, Settled
    <2>. QED  BY <2>4, <2>5
  <1>. QED  BY <1>1, <1>2, <1>3, <1>4, <1>5, EdgeCases

LEMMA MoveKernel ==
  ASSUME Types, HostInv, KernelInv, Kernel \/ Glitch, kind = "decoupled"
  PROVE  KernelInv'
  <1> USE DEF S_IDLE, S_PREP, S_ISSUE, S_WAIT_ACK, S_WAIT_RES, S_ACK, S_RTZ, S_NEXT, None
  <1>0. /\ oReq \in {0, 1} /\ iAck \in {0, 1} /\ req \in {0, 1} /\ setReq \in {0, 1}
        /\ oAck \in {0, 1} /\ st \in 0 .. 7
    BY DEF Types, Level, State
  <1>f. UNCHANGED <<st, setReq, oAck, opB, sQ>>
    BY KernelFrame DEF fsm
  <1>1. CASE Take
    <2>1. /\ req = 1 /\ iAck = 0 /\ job = None /\ job' = Core /\ req' = 0 /\ oReq' = oReq
          /\ moved' = moved \union {"i_ack"}
      BY <1>1 DEF Take, CanTake, RaiseAck
    <2>2. /\ st \in {3, 4} /\ setReq = 0
      BY <1>0, <2>1 DEF KernelInv, Rest
    <2>3. Core = opB
      BY <2>2 DEF Core, HostInv, Types, Level
    <2>. QED  BY <1>f, <2>1, <2>2, <2>3 DEF KernelInv, Working, Rising
  <1>2. CASE LetGo
    <2>1. iAck' = 0 /\ UNCHANGED <<req, oReq, job, moved>>
      BY <1>2 DEF LetGo, boundary
    <2>. QED  BY <1>f, <2>1 DEF KernelInv, Rest, Asked, Working, Settled, Rising, Falling
  <1>3. CASE Answer
    <2>1. /\ oReq = 0 /\ job # None /\ oReq' = 1 /\ UNCHANGED <<req, iAck, job>>
          /\ moved' = moved \union {"o_req", "o_latch"}
      BY <1>3 DEF Answer
    <2>2. st \in {3, 4} /\ setReq = 0 /\ Working
      BY <1>0, <2>1 DEF KernelInv, Rest, Asked
    <2>3. sQ[1] # 1
      BY <2>1, <2>2 DEF KernelInv, Rising
    <2>. QED  BY <1>f, <2>1, <2>2, <2>3 DEF KernelInv, Working, Rising
  <1>4. CASE Return
    <2>1. /\ oReq = 1 /\ oAck = 1 /\ oReq' = 0 /\ job' = None /\ UNCHANGED <<req, iAck>>
          /\ moved' = moved \union {"o_req"}
      BY <1>4 DEF Return
    <2>2. st \in {5, 6} /\ sQ = <<1, 1>> /\ req = 0 /\ setReq = 0
      BY <2>1 DEF KernelInv, Falling
    <2>. QED  BY <1>f, <2>1, <2>2 DEF KernelInv, Falling
  <1>5. CASE Glitch
    <2>1. moved' = moved \union {"o_latch"} /\ UNCHANGED <<req, iAck, oReq, job>>
      BY <1>5 DEF Glitch
    <2>. QED  BY <1>f, <2>1 DEF KernelInv, Rest, Asked, Working, Settled, Rising, Falling
  <1>. QED  BY <1>1, <1>2, <1>3, <1>4, <1>5 DEF Kernel, Taken

LEMMA KernelStep ==
  ASSUME Types, HostInv, KernelInv, [Next]_vars, ~tainted', kind = "decoupled"
  PROVE  KernelInv'
  <1>1. CASE Tick
    BY <1>1, EdgeKernel
  <1>2. CASE Kernel \/ Glitch
    BY <1>2, MoveKernel
  <1>3. CASE HostMove \/ UNCHANGED vars
    <2>1. UNCHANGED <<fsm, boundary, kernel>>
      BY <1>3, HostFrame DEF vars
    <2>. QED
      BY <2>1 DEF KernelInv, Rest, Asked, Working, Settled, Rising, Falling, fsm, boundary, kernel
  <1>. QED  BY <1>1, <1>2, <1>3 DEF Next, HostMove

-----------------------------------------------------------------------------
(* The runs of a batch.                                                    *)

RunParts == /\ n \in Nat /\ runs \in Nat /\ prep \in Nat /\ opB \in Nat /\ hold \in Nat
            /\ lfsr \in Nat \ {0} /\ op \in Nat \ {0} /\ st \in 0 .. 7 /\ busy \in {0, 1}
            /\ drawn \in Seq(Nat \ {0}) /\ sig \in Seq(Nat)
            /\ mode \in {"uniform", "fixed"}

\* S_PREP draws the run's operand on its first edge; the rest of the gap, and a
\* gap of nothing at all, leave one operand drawn.
LEMMA PrepRun == ASSUME Types, HostInv, RunInv, Current, Prep, n' = n, mode' = mode, op' = op
                 PROVE  RunInv'
  <1> USE DEF S_IDLE, S_PREP, S_ISSUE, S_WAIT_ACK, S_WAIT_RES, S_ACK, S_RTZ, S_NEXT
  <1>0. RunParts
    BY DEF Types, Level, State, RunParts
  <1>1. st = 1 /\ busy = 1
    BY DEF Prep, HostInv, Types, Level
  <1>2. /\ UNCHANGED <<busy, runs, hold, sig, ref, mism>>
        /\ st' \in {1, 2} /\ Drawing' = 1
    <2>1. UNCHANGED <<busy, runs, hold, sig, ref, mism>>
      BY DEF Prep, report
    <2>2. \/ prep' = 0 /\ st' = 2
          \/ prep' = prep + 1 /\ st' = 1
      BY <1>1 DEF Prep
    <2>. QED  BY <1>0, <2>1, <2>2 DEF Drawing, RunParts
  <1>3. CASE prep # 0
    <2>1. Drawing = 1 /\ UNCHANGED <<opB, lfsr, drawn>>
      BY <1>0, <1>1, <1>3 DEF Prep, Drawing, RunParts
    <2>. QED  BY <1>0, <1>1, <1>2, <2>1 DEF RunInv, Retired, Verdict
  <1>4. CASE prep = 0
    <2>1. Drawing = 0 /\ Len(drawn) = runs
      BY <1>0, <1>1, <1>4 DEF Drawing, RunInv, RunParts
    <2>2. /\ opB' = IF mode = "fixed" THEN op ELSE lfsr
          /\ lfsr' = IF mode = "fixed" THEN lfsr ELSE lfsr + 1
          /\ drawn' = Append(drawn, opB')
      BY <1>4 DEF Prep
    <2>3. opB' \in Nat \ {0}
      BY <1>0, <2>2 DEF RunParts
    <2>4. /\ Len(drawn') = runs + 1 /\ drawn'[runs + 1] = opB'
          /\ \A i \in 1 .. runs : drawn'[i] = drawn[i]
      BY <1>0, <2>1, <2>2, <2>3, AppendProperties DEF RunParts
    <2>5. Retired'
      BY <1>0, <1>2, <2>4 DEF RunInv, Retired, RunParts
    <2>6. Verdict(runs)'
      <3>1. CASE mode = "uniform"
        <4>1. /\ \A i \in 1 .. runs : drawn[i] = i
              /\ lfsr = runs + 1 /\ ref = None /\ mism = 0
          BY <2>1, <3>1 DEF RunInv, Verdict
        <4>2. opB' = runs + 1 /\ lfsr' = runs + 2
          BY <1>0, <2>2, <3>1, <4>1 DEF RunParts
        <4>3. \A i \in 1 .. Len(drawn') : drawn'[i] = i
          BY <1>0, <2>4, <4>1, <4>2 DEF RunParts
        <4>. QED  BY <1>0, <1>2, <2>4, <3>1, <4>1, <4>2, <4>3 DEF Verdict, None, RunParts
      <3>2. CASE mode = "fixed"
        <4>1. /\ IF runs = 0 THEN ref = None ELSE ref = drawn[1]
              /\ IF mism = 0 THEN \A i \in 1 .. runs : drawn[i] = drawn[1]
                 ELSE /\ mism \in 1 .. runs
                      /\ drawn[mism] # drawn[1]
                      /\ \A i \in 1 .. runs : i < mism => drawn[i] = drawn[1]
          BY <3>2 DEF RunInv, Verdict
        <4>2. runs > 0 => drawn'[1] = drawn[1]
          BY <1>0, <2>4 DEF RunParts
        <4>3. IF runs = 0 THEN ref' = None' ELSE ref' = drawn'[1]
          BY <1>2, <4>1, <4>2, <1>0 DEF RunParts, None
        <4>4. mism = 0 => \A i \in 1 .. runs : drawn'[i] = drawn'[1]
          <5>1. SUFFICES ASSUME mism = 0, NEW i \in 1 .. runs PROVE drawn'[i] = drawn'[1]
            OBVIOUS
          <5>2. runs > 0 /\ drawn[i] = drawn[1]
            BY <1>0, <4>1, <5>1 DEF RunParts
          <5>. QED  BY <2>4, <4>2, <5>1, <5>2
        <4>5. mism # 0 => /\ mism \in 1 .. runs
                          /\ drawn'[mism] # drawn'[1]
                          /\ \A i \in 1 .. runs : i < mism => drawn'[i] = drawn'[1]
          <5>1. SUFFICES ASSUME mism # 0
                         PROVE  /\ mism \in 1 .. runs
                                /\ drawn'[mism] # drawn'[1]
                                /\ \A i \in 1 .. runs : i < mism => drawn'[i] = drawn'[1]
            OBVIOUS
          <5>2. /\ mism \in 1 .. runs /\ drawn[mism] # drawn[1]
                /\ \A i \in 1 .. runs : i < mism => drawn[i] = drawn[1]
            BY <4>1, <5>1
          <5>3. runs > 0 /\ drawn'[1] = drawn[1] /\ drawn'[mism] = drawn[mism]
            BY <1>0, <2>4, <4>2, <5>2 DEF RunParts
          <5>. QED  BY <2>4, <5>2, <5>3
        <4>. QED  BY <1>2, <3>2, <4>3, <4>4, <4>5 DEF Verdict
      <3>. QED  BY <1>0, <3>1, <3>2 DEF RunParts
    <2>. QED  BY <1>0, <1>1, <1>2, <2>4, <2>5, <2>6 DEF RunInv, RunParts
  <1>. QED  BY <1>3, <1>4

\* S_NEXT folds the result it holds, compares it in fixed mode, and counts.
LEMMA RetireRun == ASSUME Types, HostInv, RunInv, Current, Retire, n' = n, mode' = mode
                   PROVE  RunInv'
  <1> USE DEF S_IDLE, S_PREP, S_ISSUE, S_WAIT_ACK, S_WAIT_RES, S_ACK, S_RTZ, S_NEXT
  <1>0. RunParts
    BY DEF Types, Level, State, RunParts
  <1>1. st = 7 /\ busy = 1 /\ prep = 0 /\ Drawing = 1
    BY DEF Retire, HostInv, Types, Level, Drawing
  <1>2. /\ runs < n /\ Len(drawn) = runs + 1 /\ Retired /\ drawn[runs + 1] = hold /\ Verdict(runs)
    BY <1>1 DEF RunInv
  <1>3. /\ runs' = runs + 1 /\ sig' = Append(sig, hold)
        /\ UNCHANGED <<prep, opB, lfsr, hold, drawn>>
        /\ IF runs + 1 >= n THEN busy' = 0 /\ st' = 0 ELSE busy' = 1 /\ st' = 1
    BY <1>1 DEF Retire, history
  <1>4. Drawing' = 0
    BY <1>0, <1>1, <1>3 DEF Drawing, RunParts
  <1>5. Retired'
    <2>1. Len(sig) = runs /\ \A i \in 1 .. runs : sig[i] = drawn[i]
      BY <1>2 DEF Retired
    <2>2. /\ Len(sig') = runs + 1 /\ sig'[runs + 1] = hold
          /\ \A i \in 1 .. runs : sig'[i] = sig[i]
      BY <1>0, <1>3, <2>1, AppendProperties DEF RunParts
    <2>. QED  BY <1>0, <1>2, <1>3, <2>1, <2>2 DEF Retired, RunParts
  <1>6. Verdict(runs)'
    <2>1. CASE mode = "uniform"
      BY <1>2, <1>3, <2>1 DEF Verdict, Retire
    <2>2. CASE mode = "fixed"
      <3>1. /\ ref' = IF ref = None THEN hold ELSE ref
            /\ mism' = IF ref # None /\ mism = 0 /\ hold # ref THEN runs + 1 ELSE mism
        BY <2>2 DEF Retire
      <3>2. /\ IF runs = 0 THEN ref = None ELSE ref = drawn[1]
            /\ IF mism = 0 THEN \A i \in 1 .. runs : drawn[i] = drawn[1]
               ELSE /\ mism \in 1 .. runs
                    /\ drawn[mism] # drawn[1]
                    /\ \A i \in 1 .. runs : i < mism => drawn[i] = drawn[1]
        BY <1>2, <2>2 DEF Verdict
      <3>3. drawn[1] # None /\ drawn[1] \in Nat
        BY <1>0, <1>2 DEF RunParts, None
      <3>4. ref' = drawn[1]
        BY <1>0, <1>2, <3>1, <3>2, <3>3 DEF RunParts
      <3>5. mism' = 0 => \A i \in 1 .. runs + 1 : drawn[i] = drawn[1]
        BY <1>0, <1>2, <3>1, <3>2, <3>3 DEF RunParts
      <3>6. mism' # 0 => /\ mism' \in 1 .. runs + 1
                         /\ drawn[mism'] # drawn[1]
                         /\ \A i \in 1 .. runs + 1 : i < mism' => drawn[i] = drawn[1]
        <4>1. CASE mism # 0
          <5>1. mism' = mism
            BY <3>1, <4>1
          <5>2. /\ mism \in 1 .. runs /\ drawn[mism] # drawn[1]
                /\ \A i \in 1 .. runs : i < mism => drawn[i] = drawn[1]
            BY <3>2, <4>1
          <5>3. mism \in 1 .. runs + 1 /\ \A i \in 1 .. runs + 1 : i < mism => i \in 1 .. runs
            BY <1>0, <5>2 DEF RunParts
          <5>. QED  BY <5>1, <5>2, <5>3
        <4>2. CASE mism = 0 /\ mism' # 0
          <5>1. mism' = runs + 1 /\ hold # ref /\ ref # None
            BY <3>1, <4>2
          <5>2. runs # 0 /\ ref = drawn[1]
            BY <3>2, <5>1
          <5>3. \A i \in 1 .. runs : drawn[i] = drawn[1]
            BY <3>2, <4>2
          <5>4. \A i \in 1 .. runs + 1 : i < runs + 1 => i \in 1 .. runs
            BY <1>0 DEF RunParts
          <5>. QED  BY <1>0, <1>2, <5>1, <5>2, <5>3, <5>4 DEF RunParts
        <4>. QED  BY <4>1, <4>2
      <3>7. runs' # 0 /\ mode' = "fixed" /\ drawn' = drawn /\ runs' = runs + 1
        BY <1>0, <1>3, <2>2 DEF RunParts
      <3>. QED  BY <3>4, <3>5, <3>6, <3>7 DEF Verdict
    <2>. QED  BY <1>0, <2>1, <2>2 DEF RunParts
  <1>7. busy' = 0 => runs' = n' /\ hold' = drawn'[n']
    BY <1>0, <1>2, <1>3 DEF RunParts
  <1>8. busy' # 0 => runs' < n'
    BY <1>0, <1>2, <1>3 DEF RunParts
  <1>9. Len(drawn') = runs' + Drawing'
    BY <1>0, <1>2, <1>3, <1>4 DEF RunParts
  <1>. QED  BY <1>3, <1>4, <1>5, <1>6, <1>7, <1>8, <1>9 DEF RunInv

LEMMA EdgeRun ==
  ASSUME Types, HostInv, Current => RunInv, kind = "decoupled" => KernelInv, Tick, ~tainted',
         Current'
  PROVE  RunInv'
  <1> USE DEF S_IDLE, S_PREP, S_ISSUE, S_WAIT_ACK, S_WAIT_RES, S_ACK, S_RTZ, S_NEXT
  <1>0. RunParts
    BY DEF Types, Level, State, RunParts
  <1>h. UNCHANGED <<hpc, start, rst, n, mode, op>> /\ startD' = start
    BY DEF Tick, host
  <1>c. hpc = "poll" /\ start = 1 /\ rst # 1 /\ n > 0
    BY <1>h DEF Current, HostInv
  <1>1. CASE Idle /\ StartRise
    <2>1. pending = 0 /\ st = 0 /\ prep = 0
      BY <1>1, AtHome DEF StartRise, HostInv
    <2>2. /\ busy' = 1 /\ runs' = 0 /\ lfsr' = 1 /\ sig' = <<>> /\ mism' = 0 /\ ref' = None
          /\ drawn' = <<>> /\ st' = 0
      BY <1>1, <2>1 DEF Idle
    <2>3. Drawing' = 0
      BY <2>2 DEF Drawing
    <2>4. Len(drawn') = 0 /\ Len(sig') = 0
      BY <2>2, EmptySeq
    <2>5. Verdict(runs)'
      BY <2>2, <2>4 DEF Verdict, None
    <2>. QED  BY <1>h, <1>c, <2>2, <2>3, <2>4, <2>5 DEF RunInv, Retired
  <1>2. ASSUME ~(Idle /\ StartRise) PROVE Current /\ RunInv
    <2>1. startD = 1
      <3>1. CASE st = 0
        <4>1. Idle
          BY <1>c, <3>1, EdgeCases DEF Prep, Issue, WaitAck, WaitRes, Acked, Rtz, Retire
        <4>. QED  BY <1>2, <1>c, <4>1 DEF StartRise, Types, Level
      <3>2. CASE st # 0
        BY <3>2 DEF HostInv, Types, Level
      <3>. QED  BY <3>1, <3>2
    <2>. QED  BY <1>c, <2>1 DEF Current
  <1>3. CASE Idle /\ ~StartRise
    <2>1. Current /\ RunInv
      BY <1>2, <1>3
    <2>2. st = 0 /\ prep = 0 /\ pending = busy
      BY <1>3 DEF Idle, HostInv
    <2>3. /\ UNCHANGED <<busy, runs, lfsr, sig, mism, ref, drawn, opB, hold, prep>>
          /\ st' = 0 \/ (st' = 1 /\ busy = 1)
      BY <1>3, <2>2 DEF Idle
    <2>4. Drawing = 0 /\ Drawing' = 0
      BY <2>2, <2>3 DEF Drawing
    <2>. QED  BY <1>h, <2>1, <2>2, <2>3, <2>4 DEF RunInv, Retired, Verdict
  <1>4. CASE Prep
    BY <1>2, <1>4, <1>h, PrepRun DEF Prep, Idle
  <1>5. CASE Retire
    BY <1>2, <1>5, <1>h, RetireRun DEF Retire, Idle
  <1>6. CASE Issue \/ WaitAck \/ Acked \/ Rtz \/ WaitRes
    <2>1. Current /\ RunInv
      BY <1>2, <1>6 DEF Issue, WaitAck, Acked, Rtz, WaitRes, Idle
    <2>2. st \in {2, 3, 4, 5, 6} /\ UNCHANGED <<busy, runs, lfsr, sig, mism, ref, drawn, opB>>
      BY <1>6 DEF Issue, WaitAck, Acked, Rtz, WaitRes, report, history
    <2>3. st' \in {3, 4, 5, 6, 7}
      <3>1. CASE WaitAck
        BY <3>1, OneValue DEF WaitAck
      <3>2. CASE ~WaitAck
        BY <1>6, <3>2 DEF Issue, Acked, Rtz, WaitRes
      <3>. QED  BY <3>1, <3>2
    <2>4. Drawing = 1 /\ Drawing' = 1
      BY <2>2, <2>3 DEF Drawing
    <2>5. st' \in {5, 6, 7} => hold' = opB'
      <3>1. CASE Issue \/ WaitAck
        BY <3>1, OneValue DEF Issue, WaitAck
      <3>2. CASE Acked \/ Rtz
        BY <2>1, <2>2, <3>2 DEF Acked, Rtz, report, RunInv
      <3>3. CASE WaitRes /\ ~Completed
        BY <3>3 DEF WaitRes
      <3>4. CASE WaitRes /\ Completed
        <4>1. sQ[2] # 0 /\ hold' = Data
          BY <3>4 DEF WaitRes
        <4>2. busy = 1
          BY <3>4 DEF WaitRes, HostInv, Types, Level
        <4>3. CASE kind = "coupled"
          BY <2>2, <4>1, <4>2, <4>3 DEF Data, Core
        <4>4. CASE kind = "decoupled"
          <5>1. sQ[1] \in {0, 1} /\ sQ[2] \in {0, 1}
            BY EdgeBoundary
          <5>2. oReq = 1 /\ (Asked \/ Working \/ Rest)
            BY <3>4, <4>1, <4>4, <5>1 DEF WaitRes, KernelInv, Rising
          <5>. QED  BY <2>2, <4>1, <4>4, <5>2 DEF Data, Asked, Working, Rest
        <4>. QED  BY <4>3, <4>4 DEF Types
      <3>. QED  BY <1>6, <3>1, <3>2, <3>3, <3>4
    <2>6. busy = 1
      BY <2>2 DEF HostInv, Types, Level
    <2>. QED  BY <1>h, <2>1, <2>2, <2>3, <2>4, <2>5, <2>6 DEF RunInv, Retired, Verdict
  <1>. QED  BY <1>c, <1>1, <1>3, <1>4, <1>5, <1>6, EdgeCases

LEMMA RunStep ==
  ASSUME Types, HostInv, Current => RunInv, kind = "decoupled" => KernelInv, [Next]_vars,
         ~tainted', Current'
  PROVE  RunInv'
  <1>1. CASE Tick
    BY <1>1, EdgeRun
  <1>2. CASE Kernel \/ Glitch
    <2>1. UNCHANGED <<host, fsm, report, history>>
      BY <1>2, KernelFrame
    <2>. QED
      BY <2>1 DEF RunInv, Retired, Verdict, Drawing, Current, host, fsm, report, history
  <1>3. CASE HostMove
    <2>1. Current /\ UNCHANGED <<fsm, report, history>>
      BY <1>3, HostFrame, HostNotCurrent
    <2>2. UNCHANGED <<n, mode>>
      <3>1. hpc' = "poll" /\ startD = 1
        BY <2>1 DEF Current
      <3>. QED
        BY <1>3, <3>1, <2>1
        DEF HostMove, HostLow, HostStart, HostDone, HostCorrupt, HostReset, Current
    <2>. QED
      BY <2>1, <2>2 DEF RunInv, Retired, Verdict, Drawing, fsm, report, history
  <1>4. CASE UNCHANGED vars
    BY <1>4 DEF vars, RunInv, Retired, Verdict, Drawing, Current, host, fsm, report, history
  <1>. QED  BY <1>1, <1>2, <1>3, <1>4 DEF Next, HostMove

-----------------------------------------------------------------------------

LEMMA Begins == Init => IInv
  <1> SUFFICES ASSUME Init PROVE IInv
    OBVIOUS
  <1>0. Buckets \in Nat \ {0} /\ Bucket = 0 .. Buckets - 1 /\ 0 \in Bucket /\ Gaps \subseteq Nat
    BY BenchAssumption DEF Bucket
  <1> USE DEF S_IDLE, S_PREP, S_ISSUE, S_WAIT_ACK, S_WAIT_RES, S_ACK, S_RTZ, S_NEXT
  <1>1. Types
    <2>1. /\ hist \in [Bucket -> Nat] /\ seen \in [Bucket -> Nat]
          /\ drawn \in Seq(Nat \ {0}) /\ sig \in Seq(Nat)
      BY EmptySeq DEF Init
    <2>2. /\ n = 0 /\ runs = 0 /\ prep = 0 /\ rd = 0 /\ op = 1 /\ lfsr = 1 /\ st = 0
          /\ opB = 0 /\ hold = 0 /\ job = 0 /\ gap \in Nat
      BY <1>0 DEF Init, None
    <2>3. /\ clr \in Bucket /\ latB \in Bucket /\ bq \in Bucket /\ bq2 \in Bucket
      BY <1>0 DEF Init
    <2>4. /\ {start, rst, busy, done, setReq, oAck, startD, clearing, pending} \subseteq Level
          /\ {pend, v2, we, req, oReq, iAck} \subseteq Level
          /\ sQ \in Level \X Level
      BY DEF Init, Level
    <2>5. hpc = "idle" /\ mode = "uniform" /\ kind \in {"coupled", "decoupled"} /\ tainted = FALSE
      BY DEF Init
    <2>6. st \in State /\ op \in Nat \ {0} /\ lfsr \in Nat \ {0}
      BY <2>2 DEF State
    <2>. QED  BY <2>1, <2>2, <2>3, <2>4, <2>5, <2>6 DEF Types
  <1>2. HostInv
    BY DEF Init, HostInv
  <1>3. HistInv
    <2>1. \A b \in Bucket : ~(b < 0)
      BY <1>0
    <2>. QED  BY <2>1 DEF Init, HistInv, Quiet, Current
  <1>4. KernelInv
    BY DEF Init, KernelInv, Rest, Settled
  <1>. QED  BY <1>1, <1>2, <1>3, <1>4 DEF IInv, Init, Current

\* Once a result was taken without its level nothing more is claimed, ever.
LEMMA TaintStays == ASSUME Types, [Next]_vars, ~tainted' PROVE ~tainted
  <1>1. CASE Tick
    <2>1. tainted' = tainted \/ WaitRes
      BY <1>1, EdgeCases
      DEF BatchReset, Idle, Prep, Issue, WaitAck, Acked, Rtz, Retire, history
    <2>. QED  BY <2>1 DEF WaitRes
  <1>2. CASE Kernel \/ Glitch \/ HostMove \/ UNCHANGED vars
    BY <1>2, KernelFrame, HostFrame DEF history, vars
  <1>. QED  BY <1>1, <1>2 DEF Next, HostMove

LEMMA Steps == ASSUME IInv, [Next]_vars PROVE IInv'
  <1>1. Types' /\ HostInv'
    BY TypesStep, HostStep DEF IInv
  <1>2. ASSUME ~tainted' PROVE HistInv' /\ (Current' => RunInv') /\ (kind' = "decoupled" => KernelInv')
    <2>1. ~tainted
      BY <1>2, TaintStays DEF IInv
    <2>2. kind' = kind
      <3>1. CASE Tick
        BY <3>1 DEF Tick, kernel
      <3>2. CASE Kernel \/ Glitch \/ HostMove \/ UNCHANGED vars
        BY <3>2, KernelFrame, HostFrame DEF kernel, vars
      <3>. QED  BY <3>1, <3>2 DEF Next, HostMove
    <2>. QED  BY <1>2, <2>1, <2>2, HistStep, RunStep, KernelStep DEF IInv
  <1>. QED  BY <1>1, <1>2 DEF IInv

\* At the end of a batch the host reads what the kernel answered: every operand
\* drawn once and folded once, in order, the last result, the first run that
\* differed, and one histogram entry a run (gen_bench.py 889-985).
THEOREM FaithfulCorrect == Spec => []BatchFaithful
  <1>1. IInv => BatchFaithful
    <2> SUFFICES ASSUME IInv, Read, ~tainted
                 PROVE  /\ sig = drawn
                        /\ Len(sig) = n
                        /\ hold = drawn[n]
                        /\ mode = "uniform" => drawn = [k \in 1 .. n |-> k]
                        /\ hist = seen
                        /\ LET differ == {k \in 1 .. n : drawn[k] # drawn[1]}
                           IN  IF mode = "fixed" /\ differ # {}
                               THEN mism \in differ /\ \A k \in differ : mism <= k
                               ELSE mism = 0
      BY DEF BatchFaithful
    <2>1. Current /\ busy = 0 /\ st = S_IDLE
      BY DEF Read, Current, IInv, HostInv, Types, Level
    <2>2. RunInv /\ HistInv
      BY <2>1 DEF IInv
    <2>3. runs = n /\ n \in Nat /\ n > 0 /\ hold = drawn[n] /\ Drawing = 0
      BY <2>1, <2>2
      DEF RunInv, IInv, Types, HostInv, Current, Drawing, S_IDLE, S_PREP, S_ISSUE, S_NEXT
    <2>4. Len(drawn) = n /\ Len(sig) = n /\ \A i \in 1 .. n : sig[i] = drawn[i]
      BY <2>2, <2>3 DEF RunInv, Retired
    <2>5. drawn \in Seq(Nat) /\ sig \in Seq(Nat)
      BY SeqMonotonic DEF IInv, Types
    <2>6. sig = drawn
      BY <2>4, <2>5, SeqEqual
    <2>7. hist = seen
      BY <2>1, <2>2 DEF HistInv
    <2>8. mode = "uniform" => drawn = [k \in 1 .. n |-> k]
      <3>1. mode = "uniform" => \A i \in 1 .. n : drawn[i] = i
        BY <2>2, <2>4 DEF RunInv, Verdict
      <3>2. drawn = [k \in 1 .. n |-> drawn[k]]
        BY <2>4, <2>5, LenProperties
      <3>. QED  BY <3>1, <3>2
    <2>9. ASSUME mode = "uniform" PROVE mism = 0
      BY <2>2, <2>9 DEF RunInv, Verdict
    <2>10. ASSUME mode # "uniform"
           PROVE  IF mism = 0 THEN \A i \in 1 .. n : drawn[i] = drawn[1]
                  ELSE /\ mism \in 1 .. n
                       /\ drawn[mism] # drawn[1]
                       /\ \A i \in 1 .. n : i < mism => drawn[i] = drawn[1]
      BY <2>2, <2>3, <2>10 DEF RunInv, Verdict
    <2> DEFINE differ == {k \in 1 .. n : drawn[k] # drawn[1]}
    <2>11. IF mode = "fixed" /\ differ # {}
           THEN mism \in differ /\ \A k \in differ : mism <= k
           ELSE mism = 0
      <3>1. CASE mode = "uniform"
        BY <2>9, <3>1
      <3>2. CASE mode = "fixed" /\ mism = 0
        BY <2>10, <3>2
      <3>3. CASE mode = "fixed" /\ mism # 0
        <4>1. mism \in differ
          BY <2>10, <3>3
        <4>2. \A k \in differ : ~(k < mism)
          BY <2>10, <3>3
        <4>. QED  BY <2>3, <3>3, <4>1, <4>2
      <3>. QED  BY <3>1, <3>2, <3>3 DEF IInv, Types
    <2>. QED  BY <2>3, <2>4, <2>6, <2>7, <2>8, <2>11
  <1>2. IInv /\ [Next]_vars => IInv'
    BY Steps
  <1>. QED  BY <1>1, <1>2, Begins, PTL DEF Spec

=============================================================================
