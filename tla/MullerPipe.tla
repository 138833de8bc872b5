----------------------------- MODULE MullerPipe -----------------------------
(***************************************************************************)
(* bd_pipe (cells/rtl/bd_link.v): N simple four-phase stages between a     *)
(* sender and a receiver.  Stage i is a C-element C(c[i-1], ~c[i+1]) and a *)
(* transparent latch it enables; the same node is the request it sends on  *)
(* and the acknowledge it returns.  N = 1 is bd_link.                      *)
(*                                                                         *)
(* Every node is one entry of the vector c: c[0] is the sender's request,  *)
(* c[1..N] the stages, c[N+1] the receiver's acknowledge.  One action is   *)
(* one LUT switching, after any delay.  Nothing is assumed of how fast one *)
(* LUT is against another, with two named exceptions: Captured (a latch    *)
(* has followed its input by the time its own controller closes it) and    *)
(* Matched (the DELAY line, when there is one, covers the data).           *)
(*                                                                         *)
(* A datum is its serial number, 0 standing for whatever an un-reset latch *)
(* powers up with.  cnt[i] counts the rises of node i.                     *)
(***************************************************************************)
EXTENDS Integers, Sequences

CONSTANTS N,          \* number of stages
          MaxTokens   \* bound: how many data the sender ever offers

ASSUME PipeAssumption == /\ N \in Nat \ {0}
                         /\ MaxTokens \in Nat

Bit == 0..1
Stage == 1..N
Node  == 0..N+1       \* sender, stages, receiver
Datum == 0..N         \* sender's data wires and every latch output

VARIABLES c,      \* the node values
          q,      \* q[0]: the sender's data; q[i]: output of latch i
          rq,     \* the request as the receiver sees it, after the delay line
          cnt,    \* cnt[i]: how often node i has risen
          seen,   \* what the receiver has latched, in order
          padded  \* how it was built: 1 if DELAY # 0 on the outgoing request

vars == <<c, q, rq, cnt, seen, padded>>

Init == /\ c = [i \in Node |-> 0]
        /\ q = [i \in Datum |-> 0]
        /\ rq = 0
        /\ cnt = [i \in Node |-> 0]
        /\ seen = <<>>
        /\ padded \in Bit

-----------------------------------------------------------------------------
(* The sender: bd_source.send, data first, request after, both held.       *)

\* Mutant: the sender takes its own request falling for the end of the handshake.
ReleasedEarly == c[0] = 0

\* The sender changes its data only after the acknowledge has fallen.
Released == c[0] = 0 /\ c[1] = 0

Rise(i) == /\ c' = [c EXCEPT ![i] = 1]
           /\ cnt' = [cnt EXCEPT ![i] = @ + 1]

Fall(i) == /\ c' = [c EXCEPT ![i] = 0]
           /\ UNCHANGED cnt

SourcePut == /\ Released
             /\ q[0] = cnt[0]
             /\ q[0] < MaxTokens
             /\ q' = [q EXCEPT ![0] = @ + 1]
             /\ UNCHANGED <<c, rq, cnt, seen, padded>>

SourceRaise == /\ Released
               /\ q[0] # cnt[0]
               /\ Rise(0)
               /\ UNCHANGED <<q, rq, seen, padded>>

SourceDrop == /\ c[0] = 1
              /\ c[1] = 1
              /\ Fall(0)
              /\ UNCHANGED <<q, rq, seen, padded>>

-----------------------------------------------------------------------------
(* One stage.                                                              *)

\* Mutants: the controller ignores its successor, or reads it un-inverted.
StageOpensGreedy(i) == c[i] = 0 /\ c[i-1] = 1
StageOpensInverted(i) == c[i] = 0 /\ c[i-1] = 1 /\ c[i+1] = 1

\* C(req_in, ~c_next) rises
StageOpens(i) == c[i] = 0 /\ c[i-1] = 1 /\ c[i+1] = 0

StageRise(i) == /\ StageOpens(i)
                /\ Rise(i)
                /\ UNCHANGED <<q, rq, seen, padded>>

\* The latch arc is shorter than the handshake that closes the latch.
Captured(i) == q[i] = q[i-1]

\* Mutant: the stage lets go of a token its successor has not taken.
StageFallEarly(i) == /\ c[i] = 1
                     /\ c[i-1] = 0
                     /\ Captured(i)
                     /\ Fall(i)
                     /\ UNCHANGED <<q, rq, seen, padded>>

StageFall(i) == /\ c[i] = 1
                /\ c[i-1] = 0
                /\ c[i+1] = 1
                /\ Captured(i)
                /\ Fall(i)
                /\ UNCHANGED <<q, rq, seen, padded>>

\* While its enable is up a latch output follows its input, some time later.
LatchFollow(i) == /\ c[i] = 1
                  /\ q[i] # q[i-1]
                  /\ q' = [q EXCEPT ![i] = q[i-1]]
                  /\ UNCHANGED <<c, rq, cnt, seen, padded>>

-----------------------------------------------------------------------------
(* The outgoing request, a wire or a delay line, and the receiver: another *)
(* bd_link, with a consumer of its own that never stalls it.  Its latch is *)
(* open while its acknowledge is up, and what that latch closes on is what *)
(* the receiver has taken.                                                 *)

\* Mutant: the line is shorter than the data path.
MatchedShort == TRUE

\* A matched line is longer than the data path it covers.
Matched == padded = 1 => q[N] = cnt[N]

RequestRise == /\ rq = 0
               /\ c[N] = 1
               /\ Matched
               /\ rq' = 1
               /\ UNCHANGED <<c, q, cnt, seen, padded>>

RequestFall == /\ rq = 1
               /\ c[N] = 0
               /\ rq' = 0
               /\ UNCHANGED <<c, q, cnt, seen, padded>>

SinkAck == /\ rq = 1
           /\ c[N+1] = 0
           /\ Rise(N+1)
           /\ UNCHANGED <<q, rq, seen, padded>>

SinkRelease == /\ rq = 0
               /\ c[N+1] = 1
               /\ Fall(N+1)
               /\ seen' = Append(seen, q[N])
               /\ UNCHANGED <<q, rq, padded>>

Next == \/ SourcePut
        \/ SourceRaise
        \/ SourceDrop
        \/ \E i \in Stage : StageRise(i)
        \/ \E i \in Stage : StageFall(i)
        \/ \E i \in Stage : LatchFollow(i)
        \/ RequestRise
        \/ RequestFall
        \/ SinkAck
        \/ SinkRelease

Spec == Init /\ [][Next]_vars

\* A LUT whose inputs ask for a new output switches; a receiver that is not
\* stalled acknowledges and releases; a sender that has raised its request
\* completes its handshake.  Nothing makes it raise one.
Fairness == /\ WF_vars(SourceDrop)
            /\ \A i \in Stage : /\ WF_vars(StageRise(i))
                                /\ WF_vars(StageFall(i))
                                /\ WF_vars(LatchFollow(i))
            /\ WF_vars(RequestRise)
            /\ WF_vars(RequestFall)
            /\ WF_vars(SinkAck)
            /\ WF_vars(SinkRelease)

FairSpec == Spec /\ Fairness

-----------------------------------------------------------------------------
WiresOK == /\ c \in [Node -> Bit]
           /\ q \in [Datum -> Nat]
           /\ rq \in Bit
           /\ cnt \in [Node -> Nat]
           /\ seen \in Seq(Nat)

TypeOK == WiresOK /\ padded \in Bit

(* The receiver gets 1, 2, 3, ... and nothing else: no datum is lost,      *)
(* repeated, overtaken or read from a latch nobody has written, although   *)
(* every request runs ahead of the data it announces (bd_link.v, "req_out  *)
(* LEADS data_out").                                                       *)
InOrder == \A k \in 1..Len(seen) : seen[k] = k

(* Rule P2 of bd_monitor: once a datum has arrived on channel i it does    *)
(* not move before the acknowledge of that channel has fallen.             *)
Held == \A i \in Datum :
          (c[i] = 1 \/ c[i+1] = 1) /\ q[i] = cnt[i] => q'[i] = q[i]

HoldWindow == [][Held]_vars

(* Occupancy is half a token per stage: between any two nodes there are    *)
(* never more tokens than half the stages they span (bd_link.v header; the *)
(* occupancies tb_ctl measures).                                           *)
HalfOccupancy ==
  \A i, j \in Node : i <= j => 2 * (cnt[i] - cnt[j]) <= j - i + 1 - c[j]

(* A receiver that samples on the request edge, not on a latch closing,    *)
(* finds the right datum for as long as the request or its acknowledge is  *)
(* up.  This is what the padding buys; a bare pipe does not have it.       *)
EdgeSafe == padded = 1 /\ (rq = 1 \/ c[N+1] = 1) => q[N] = cnt[N]

(* Rules P1 and P3 of bd_monitor at the receiving end: the request, behind *)
(* its delay line, never rises into an unfinished handshake and never falls *)
(* before it was acknowledged, so the line never holds two edges.          *)
FourPhase == [][rq # rq' => rq = c[N+1]]_vars

(* A channel to be read as "the first stage has taken it, the receiver has *)
(* not yet let it go" is a bounded queue.                                  *)
Fifo == INSTANCE TokenFifo WITH sent <- cnt[1], Capacity <- (N + 2) \div 2

ImplementsFifo == Fifo!Spec

(* Every token a sender offers is delivered.                               *)
Delivery == \A k \in 1..MaxTokens : cnt[0] >= k ~> Len(seen) >= k
=============================================================================
