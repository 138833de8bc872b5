-------------------------- MODULE MullerPipeProofs --------------------------
(***************************************************************************)
(* The safety properties of MullerPipe, for every number of stages, with   *)
(* and without the delay line, for any number of tokens.                   *)
(***************************************************************************)
EXTENDS MullerPipe, TLAPS

\* A token sits between two neighbours exactly when the first has risen for
\* it and the second not yet.
TokenLaw == \A i \in 0..N :
  /\ c[i] = 1 /\ c[i+1] = 0 => cnt[i] = cnt[i+1] + 1
  /\ c[i] = 0 \/ c[i+1] = 1 => cnt[i] = cnt[i+1]

\* Nothing overtakes.
Monotone == \A i, j \in Node : i <= j => cnt[j] <= cnt[i]

\* The receiver's side of the delay line runs the four phases in order.
RequestLaw == /\ rq = 1 /\ c[N+1] = 0 => c[N] = 1
              /\ rq = 0 /\ c[N+1] = 1 => c[N] = 0

\* The sender's data is the datum it last announced, or the next one.
SenderLaw == /\ q[0] \in {cnt[0], cnt[0] + 1}
             /\ c[0] = 1 \/ c[1] = 1 => q[0] = cnt[0]

\* A closed latch holds its latest datum; an open one that has it got it
\* from a neighbour that has it.
LatchLaw == \A i \in Stage :
  /\ c[i] = 0 => q[i] = cnt[i]
  /\ c[i] = 1 /\ q[i] = cnt[i] => q[i-1] = cnt[i-1]

SinkLaw == /\ Len(seen) = cnt[N+1] - c[N+1]
           /\ InOrder

IInv == /\ TypeOK
        /\ TokenLaw
        /\ Monotone
        /\ HalfOccupancy
        /\ RequestLaw
        /\ SenderLaw
        /\ LatchLaw
        /\ SinkLaw
        /\ EdgeSafe

-----------------------------------------------------------------------------
(* Every step preserves the types. *)
LEMMA WiresStep == WiresOK /\ [Next]_vars => WiresOK'
<1> SUFFICES ASSUME WiresOK, [Next]_vars
             PROVE  WiresOK'
  OBVIOUS
<1> USE PipeAssumption DEF PipeAssumption, WiresOK, Node, Datum, Stage, Bit
<1>1. CASE SourcePut
  <2>1. 0 \in 0..N /\ q[0] + 1 \in Nat
    OBVIOUS
  <2>2. QED
    BY <1>1, <2>1 DEF SourcePut
<1>2. CASE SourceRaise
  BY <1>2 DEF SourceRaise, Rise
<1>3. CASE SourceDrop
  BY <1>3 DEF SourceDrop, Fall
<1>4. ASSUME NEW i \in Stage, StageRise(i) PROVE WiresOK'
  <2>1. i \in 0..N+1 /\ cnt[i] + 1 \in Nat
    OBVIOUS
  <2>2. QED
    BY <1>4, <2>1 DEF StageRise, Rise
<1>5. ASSUME NEW i \in Stage, StageFall(i) PROVE WiresOK'
  <2>1. i \in 0..N+1
    OBVIOUS
  <2>2. c' = [c EXCEPT ![i] = 0] /\ UNCHANGED <<q, rq, cnt, seen>>
    BY <1>5 DEF StageFall, Fall
  <2>3. QED
    BY <2>1, <2>2
<1>6. ASSUME NEW i \in Stage, LatchFollow(i) PROVE WiresOK'
  BY <1>6 DEF LatchFollow
<1>7. CASE RequestRise
  BY <1>7 DEF RequestRise
<1>8. CASE RequestFall
  BY <1>8 DEF RequestFall
<1>9. CASE SinkAck
  BY <1>9 DEF SinkAck, Rise
<1>10. CASE SinkRelease
  BY <1>10 DEF SinkRelease, Fall
<1>11. CASE UNCHANGED vars
  BY <1>11 DEF vars
<1>12. QED
  BY <1>1, <1>2, <1>3, <1>4, <1>5, <1>6, <1>7, <1>8, <1>9, <1>10, <1>11 DEF Next

LEMMA TypeStep == TypeOK /\ [Next]_vars => TypeOK'
<1> SUFFICES ASSUME TypeOK, [Next]_vars
             PROVE  WiresOK' /\ padded' = padded
  BY DEF TypeOK
<1>1. padded' = padded
  BY DEF Next, vars, SourcePut, SourceRaise, SourceDrop, StageRise, StageFall,
         LatchFollow, RequestRise, RequestFall, SinkAck, SinkRelease
<1>2. QED
  BY <1>1, WiresStep DEF TypeOK

-----------------------------------------------------------------------------
(* One more token needs two more stages. *)
LEMMA HalfArith ==
  \A a, b, j, k, d \in Int :
    2 * (a - b) <= j - (k + 2) + 1 - d => 2 * ((a + 1) - b) <= j - k + 1 - d
OBVIOUS

(* What a node's switching does to the counts.  Rising is legal when the   *)
(* node before it (if any) holds a token for it and the node after it (if  *)
(* any) is empty.                                                          *)
LEMMA RiseCounts ==
  ASSUME c \in [Node -> Bit], cnt \in [Node -> Nat],
         TokenLaw, Monotone, HalfOccupancy,
         NEW k \in Node, Rise(k), c[k] = 0,
         k # 0 => c[k-1] = 1,
         k # N+1 => c[k+1] = 0
  PROVE  TokenLaw' /\ Monotone' /\ HalfOccupancy'
<1> N \in Nat
  BY PipeAssumption
<1> USE DEF Node, Bit
<1>1. /\ c' = [c EXCEPT ![k] = 1]
      /\ cnt' = [cnt EXCEPT ![k] = cnt[k] + 1]
  BY DEF Rise
<1>2. TokenLaw'
  <2> SUFFICES ASSUME NEW i \in 0..N
               PROVE  /\ c'[i] = 1 /\ c'[i+1] = 0 => cnt'[i] = cnt'[i+1] + 1
                      /\ c'[i] = 0 \/ c'[i+1] = 1 => cnt'[i] = cnt'[i+1]
    BY DEF TokenLaw
  <2>1. CASE i = k
    BY <1>1, <2>1 DEF TokenLaw
  <2>2. CASE i + 1 = k
    <3>1. k - 1 = i /\ k # 0 /\ c[i] = 1
      BY <2>2
    <3>2. QED
      BY <1>1, <2>2, <3>1 DEF TokenLaw
  <2>3. CASE i # k /\ i + 1 # k
    BY <1>1, <2>3 DEF TokenLaw
  <2>4. QED
    BY <2>1, <2>2, <2>3
<1>3. Monotone'
  <2> SUFFICES ASSUME NEW i \in Node, NEW j \in Node, i <= j
               PROVE  cnt'[j] <= cnt'[i]
    BY DEF Monotone
  <2>1. CASE j = k /\ i < k
    <3>1. cnt[k-1] = cnt[k] + 1
      <4>1. k - 1 \in 0..N /\ (k - 1) + 1 = k /\ c[k-1] = 1
        BY <2>1
      <4>2. QED
        BY <4>1 DEF TokenLaw
    <3>2. cnt[k-1] <= cnt[i]
      BY <2>1 DEF Monotone
    <3>3. QED
      BY <1>1, <2>1, <3>1, <3>2
  <2>2. CASE ~(j = k /\ i < k)
    BY <1>1, <2>2 DEF Monotone
  <2>3. QED
    BY <2>1, <2>2
<1>4. HalfOccupancy'
  <2> SUFFICES ASSUME NEW i \in Node, NEW j \in Node, i <= j
               PROVE  2 * (cnt'[i] - cnt'[j]) <= j - i + 1 - c'[j]
    BY DEF HalfOccupancy
  <2>1. 2 * (cnt[i] - cnt[j]) <= j - i + 1 - c[j]
    BY DEF HalfOccupancy
  <2>2. CASE i # k /\ j # k
    BY <1>1, <2>1, <2>2
  <2>3. CASE i # k /\ j = k
    <3>1. cnt'[j] = cnt[j] + 1 /\ cnt'[i] = cnt[i] /\ c'[j] = 1
      BY <1>1, <2>3
    <3>2. QED
      BY <2>1, <2>3, <3>1
  <2>4. CASE i = k /\ j = k
    BY <1>1, <2>4
  <2>5. CASE i = k /\ j = k + 1
    <3>1. cnt[k] = cnt[k+1]
      BY <2>5 DEF TokenLaw
    <3>2. cnt'[i] = cnt[k] + 1 /\ cnt'[j] = cnt[k+1] /\ c'[j] = 0
      BY <1>1, <2>5
    <3>3. QED
      BY <2>5, <3>1, <3>2
  <2>6. CASE i = k /\ j >= k + 2
    <3>1. k \in 0..N /\ k+1 \in 0..N /\ (k+1)+1 = k+2 /\ k+2 \in Node
      BY <2>6
    <3>2. c[k+1] = 0
      BY <3>1
    <3>3. cnt[k] = cnt[k+1] /\ cnt[k+1] = cnt[k+2]
      BY <3>1, <3>2 DEF TokenLaw
    <3>4. 2 * (cnt[k+2] - cnt[j]) <= j - (k+2) + 1 - c[j]
      BY <2>6, <3>1 DEF HalfOccupancy
    <3>5. cnt'[i] = cnt[k+2] + 1 /\ cnt'[j] = cnt[j] /\ c'[j] = c[j]
      BY <1>1, <2>6, <3>3
    <3>6. /\ cnt[k+2] \in Int /\ cnt[j] \in Int /\ c[j] \in Int
          /\ j \in Int /\ k \in Int
      BY <3>1
    <3>7. 2 * ((cnt[k+2] + 1) - cnt[j]) <= j - k + 1 - c[j]
      BY <3>4, <3>6, HalfArith
    <3>8. /\ cnt'[i] - cnt'[j] = (cnt[k+2] + 1) - cnt[j]
          /\ j - i + 1 - c'[j] = j - k + 1 - c[j]
      BY <2>6, <3>5
    <3>9. QED
      BY <3>7, <3>8
  <2>7. QED
    BY <2>2, <2>3, <2>4, <2>5, <2>6
<1>5. QED
  BY <1>2, <1>3, <1>4

(* Falling is legal when the node before it (if any) has already fallen    *)
(* and the node after it (if any) has taken the token.                     *)
LEMMA FallCounts ==
  ASSUME c \in [Node -> Bit], cnt \in [Node -> Nat],
         TokenLaw, Monotone, HalfOccupancy,
         NEW k \in Node, Fall(k), c[k] = 1,
         k # 0 => c[k-1] = 0,
         k # N+1 => c[k+1] = 1
  PROVE  TokenLaw' /\ Monotone' /\ HalfOccupancy'
<1> N \in Nat
  BY PipeAssumption
<1> USE DEF Node, Bit
<1>1. /\ c' = [c EXCEPT ![k] = 0]
      /\ cnt' = cnt
  BY DEF Fall
<1>2. TokenLaw'
  <2> SUFFICES ASSUME NEW i \in 0..N
               PROVE  /\ c'[i] = 1 /\ c'[i+1] = 0 => cnt'[i] = cnt'[i+1] + 1
                      /\ c'[i] = 0 \/ c'[i+1] = 1 => cnt'[i] = cnt'[i+1]
    BY DEF TokenLaw
  <2>1. CASE i = k
    BY <1>1, <2>1 DEF TokenLaw
  <2>2. CASE i + 1 = k
    <3>1. k - 1 = i /\ k # 0 /\ c[i] = 0
      BY <2>2
    <3>2. QED
      BY <1>1, <2>2, <3>1 DEF TokenLaw
  <2>3. CASE i # k /\ i + 1 # k
    BY <1>1, <2>3 DEF TokenLaw
  <2>4. QED
    BY <2>1, <2>2, <2>3
<1>3. Monotone'
  BY <1>1 DEF Monotone
<1>4. HalfOccupancy'
  <2> SUFFICES ASSUME NEW i \in Node, NEW j \in Node, i <= j
               PROVE  2 * (cnt'[i] - cnt'[j]) <= j - i + 1 - c'[j]
    BY DEF HalfOccupancy
  <2>1. 2 * (cnt[i] - cnt[j]) <= j - i + 1 - c[j]
    BY DEF HalfOccupancy
  <2>2. CASE j = k
    BY <1>1, <2>1, <2>2
  <2>3. CASE j # k
    BY <1>1, <2>1, <2>3
  <2>4. QED
    BY <2>2, <2>3
<1>5. QED
  BY <1>2, <1>3, <1>4

(* A step that touches neither the nodes nor the counts. *)
LEMMA QuietCounts ==
  ASSUME TokenLaw, Monotone, HalfOccupancy, UNCHANGED <<c, cnt>>
  PROVE  TokenLaw' /\ Monotone' /\ HalfOccupancy'
BY DEF TokenLaw, Monotone, HalfOccupancy

-----------------------------------------------------------------------------
(* Every step preserves the laws of the counts: each node's switching      *)
(* meets the side conditions of RiseCounts or FallCounts.                  *)
LEMMA CountStep ==
  ASSUME TypeOK, TokenLaw, Monotone, HalfOccupancy, RequestLaw, [Next]_vars
  PROVE  TokenLaw' /\ Monotone' /\ HalfOccupancy'
<1>1. N \in Nat \ {0}
  BY PipeAssumption
<1>2. c \in [Node -> Bit] /\ cnt \in [Node -> Nat]
  BY DEF TypeOK, WiresOK
<1>3. 0 \in Node /\ N+1 \in Node /\ Stage \subseteq Node
  BY <1>1 DEF Node, Stage
<1>4. \A k \in Node : c[k] \in {0, 1}
  BY <1>2 DEF Bit
<1>5. CASE SourceRaise
  BY <1>1, <1>2, <1>3, <1>5, RiseCounts DEF SourceRaise, Released
<1>6. CASE SourceDrop
  BY <1>1, <1>2, <1>3, <1>6, FallCounts DEF SourceDrop
<1>7. ASSUME NEW i \in Stage, StageRise(i)
      PROVE  TokenLaw' /\ Monotone' /\ HalfOccupancy'
  BY <1>2, <1>3, <1>7, RiseCounts DEF StageRise, StageOpens
<1>8. ASSUME NEW i \in Stage, StageFall(i)
      PROVE  TokenLaw' /\ Monotone' /\ HalfOccupancy'
  BY <1>2, <1>3, <1>8, FallCounts DEF StageFall
<1>9. CASE SinkAck
  <2>1. N+1 # 0 /\ (N+1) - 1 = N
    BY <1>1
  <2>2. c[N] = 1
    BY <1>9 DEF SinkAck, RequestLaw
  <2>3. QED
    BY <1>2, <1>3, <1>9, <2>1, <2>2, RiseCounts DEF SinkAck
<1>10. CASE SinkRelease
  <2>1. N+1 # 0 /\ (N+1) - 1 = N
    BY <1>1
  <2>2. c[N] = 0
    BY <1>10 DEF SinkRelease, RequestLaw
  <2>3. QED
    BY <1>2, <1>3, <1>10, <2>1, <2>2, FallCounts DEF SinkRelease
<1>11. CASE UNCHANGED <<c, cnt>>
  BY <1>11, QuietCounts
<1>12. QED
  BY <1>5, <1>6, <1>7, <1>8, <1>9, <1>10, <1>11
     DEF Next, vars, SourcePut, LatchFollow, RequestRise, RequestFall

-----------------------------------------------------------------------------
(* Around the delay line the four phases follow each other. *)
LEMMA RequestStep ==
  ASSUME TypeOK, RequestLaw, [Next]_vars
  PROVE  RequestLaw'
<1>1. N \in Nat \ {0}
  BY PipeAssumption
<1>2. c \in [Node -> {0, 1}] /\ rq \in {0, 1}
  BY DEF TypeOK, WiresOK, Bit
<1>3. 0 \in Node /\ N \in Node /\ N+1 \in Node /\ Stage \subseteq Node
  BY <1>1 DEF Node, Stage
<1>4. 0 # N /\ 0 # N+1 /\ N # N+1 /\ N+1 \notin Stage
  BY <1>1 DEF Stage
<1>5. CASE SourceRaise
  BY <1>2, <1>3, <1>4, <1>5 DEF SourceRaise, Rise, RequestLaw
<1>6. CASE SourceDrop
  BY <1>2, <1>3, <1>4, <1>6 DEF SourceDrop, Fall, RequestLaw
<1>7. ASSUME NEW i \in Stage, StageRise(i) PROVE RequestLaw'
  BY <1>2, <1>3, <1>4, <1>7 DEF StageRise, StageOpens, Rise, RequestLaw
<1>8. ASSUME NEW i \in Stage, StageFall(i) PROVE RequestLaw'
  BY <1>2, <1>3, <1>4, <1>8 DEF StageFall, Fall, RequestLaw
<1>9. CASE SinkAck
  BY <1>2, <1>3, <1>4, <1>9 DEF SinkAck, Rise, RequestLaw
<1>10. CASE SinkRelease
  BY <1>2, <1>3, <1>4, <1>10 DEF SinkRelease, Fall, RequestLaw
<1>11. CASE RequestRise
  BY <1>2, <1>3, <1>11 DEF RequestRise, RequestLaw
<1>12. CASE RequestFall
  BY <1>2, <1>3, <1>12 DEF RequestFall, RequestLaw
<1>13. CASE UNCHANGED <<c, rq>>
  BY <1>13 DEF RequestLaw
<1>14. QED
  BY <1>5, <1>6, <1>7, <1>8, <1>9, <1>10, <1>11, <1>12, <1>13
     DEF Next, vars, SourcePut, LatchFollow

(* The sender keeps its datum until its channel's acknowledge has fallen. *)
LEMMA SenderStep ==
  ASSUME TypeOK, SenderLaw, [Next]_vars
  PROVE  SenderLaw'
<1>1. N \in Nat \ {0}
  BY PipeAssumption
<1>2. /\ c \in [Node -> {0, 1}] /\ q \in [Datum -> Nat] /\ cnt \in [Node -> Nat]
      /\ 0 \in Node /\ 1 \in Node /\ 0 \in Datum /\ Stage \subseteq Node
  BY <1>1 DEF TypeOK, WiresOK, Bit, Node, Datum, Stage
<1>3. 0 \notin Stage /\ N+1 # 0 /\ N+1 # 1
  BY <1>1 DEF Stage
<1>4. CASE SourcePut
  BY <1>2, <1>4 DEF SourcePut, Released, SenderLaw
<1>5. CASE SourceRaise
  BY <1>2, <1>5 DEF SourceRaise, Released, Rise, SenderLaw
<1>6. CASE SourceDrop
  BY <1>2, <1>6 DEF SourceDrop, Fall, SenderLaw
<1>7. ASSUME NEW i \in Stage, StageRise(i) PROVE SenderLaw'
  <2>1. i # 0 /\ i \in Node /\ (i = 1 => i - 1 = 0)
    BY <1>2, <1>3
  <2>2. cnt'[0] = cnt[0] /\ c'[0] = c[0] /\ UNCHANGED q
    BY <1>2, <1>7, <2>1 DEF StageRise, Rise
  <2>3. c'[1] = 1 => c[0] = 1 \/ c[1] = 1
    BY <1>2, <1>7, <2>1 DEF StageRise, StageOpens, Rise
  <2>4. QED
    BY <2>2, <2>3 DEF SenderLaw
<1>8. ASSUME NEW i \in Stage, StageFall(i) PROVE SenderLaw'
  BY <1>2, <1>3, <1>8 DEF StageFall, Fall, SenderLaw
<1>9. ASSUME NEW i \in Stage, LatchFollow(i) PROVE SenderLaw'
  <2>1. q'[0] = q[0]
    BY <1>2, <1>3, <1>9 DEF LatchFollow
  <2>2. QED
    BY <1>9, <2>1 DEF LatchFollow, SenderLaw
<1>10. CASE SinkAck
  BY <1>2, <1>3, <1>10 DEF SinkAck, Rise, SenderLaw, Node
<1>11. CASE SinkRelease
  BY <1>2, <1>3, <1>11 DEF SinkRelease, Fall, SenderLaw, Node
<1>12. CASE UNCHANGED <<c, q, cnt>>
  BY <1>12 DEF SenderLaw
<1>13. QED
  BY <1>4, <1>5, <1>6, <1>7, <1>8, <1>9, <1>10, <1>11, <1>12
     DEF Next, vars, RequestRise, RequestFall

(* The input of a closing or following latch: what its sender holds. *)
LEMMA Upstream ==
  ASSUME TypeOK, TokenLaw, SenderLaw, LatchLaw, NEW k \in Stage
  PROVE  /\ c[k] = 1 => cnt[k-1] = cnt[k]
         /\ c[k] = 1 /\ c[k-1] = 0 => q[k-1] = cnt[k]
<1>1. N \in Nat /\ k \in 1..N /\ k - 1 \in 0..N /\ (k - 1) + 1 = k
  BY PipeAssumption DEF Stage
<1>2. /\ c[k] \in {0, 1} /\ c[k-1] \in {0, 1}
      /\ cnt[k] \in Nat /\ cnt[k-1] \in Nat
  BY <1>1 DEF TypeOK, WiresOK, Bit, Node
<1>3. c[k] = 1 => cnt[k-1] = cnt[k]
  BY <1>1 DEF TokenLaw
<1>4. ASSUME c[k] = 1, c[k-1] = 0 PROVE q[k-1] = cnt[k-1]
  <2>1. CASE k = 1
    BY <1>4, <2>1 DEF SenderLaw
  <2>2. CASE k # 1
    <3>1. k - 1 \in Stage
      BY <1>1, <2>2 DEF Stage
    <3>2. QED
      BY <1>4, <3>1 DEF LatchLaw
  <2>3. QED
    BY <2>1, <2>2
<1>5. QED
  BY <1>3, <1>4

LEMMA LatchStep ==
  ASSUME TypeOK, TokenLaw, SenderLaw, LatchLaw, [Next]_vars
  PROVE  LatchLaw'
<1> SUFFICES ASSUME NEW i \in Stage
             PROVE  /\ c'[i] = 0 => q'[i] = cnt'[i]
                    /\ c'[i] = 1 /\ q'[i] = cnt'[i] => q'[i-1] = cnt'[i-1]
  BY DEF LatchLaw
<1>1. N \in Nat \ {0} /\ N \in Int
  BY PipeAssumption
<1>2. /\ c \in [Node -> {0, 1}] /\ q \in [Datum -> Nat] /\ cnt \in [Node -> Nat]
      /\ i \in Int /\ i # i - 1 /\ i # N+1 /\ i - 1 # N+1 /\ i # 0
      /\ i \in Node /\ i - 1 \in Node /\ i \in Datum /\ i - 1 \in Datum
      /\ 0 \in Node /\ N+1 \in Node /\ 0 \in Datum
      /\ Stage \subseteq Node /\ Stage \subseteq Datum
  BY <1>1 DEF TypeOK, WiresOK, Bit, Node, Datum, Stage
<1>3. /\ c[i] = 0 => q[i] = cnt[i]
      /\ c[i] = 1 /\ q[i] = cnt[i] => q[i-1] = cnt[i-1]
      /\ c[i] \in {0, 1} /\ cnt[i] \in Nat /\ cnt[i-1] \in Nat /\ q[i-1] \in Nat
  BY <1>2 DEF LatchLaw
<1>4. i - 1 = 0 => i = 1
  BY <1>2
<1>5. CASE SourcePut
  <2>1. c[1] = 0 /\ q' = [q EXCEPT ![0] = q[0] + 1] /\ UNCHANGED <<c, cnt>>
    BY <1>5 DEF SourcePut, Released
  <2>2. QED
    BY <1>2, <1>3, <1>4, <2>1
<1>6. CASE SourceRaise
  <2>1. c[1] = 0 /\ UNCHANGED q
    BY <1>6 DEF SourceRaise, Released
  <2>2. c'[i] = c[i] /\ cnt'[i] = cnt[i] /\ (i # 1 => cnt'[i-1] = cnt[i-1])
    BY <1>2, <1>4, <1>6 DEF SourceRaise, Rise
  <2>3. QED
    BY <1>3, <2>1, <2>2
<1>7. CASE SourceDrop
  BY <1>2, <1>3, <1>7 DEF SourceDrop, Fall
<1>8. ASSUME NEW k \in Stage, StageRise(k)
      PROVE  /\ c'[i] = 0 => q'[i] = cnt'[i]
             /\ c'[i] = 1 /\ q'[i] = cnt'[i] => q'[i-1] = cnt'[i-1]
  <2>1. /\ c[k] = 0 /\ c[k+1] = 0 /\ UNCHANGED q /\ k \in Node /\ k \in Int
        /\ c' = [c EXCEPT ![k] = 1] /\ cnt' = [cnt EXCEPT ![k] = cnt[k] + 1]
    BY <1>2, <1>8 DEF StageRise, StageOpens, Rise, Stage
  <2>2. CASE i = k
    BY <1>2, <1>3, <2>1, <2>2
  <2>3. CASE i # k /\ i - 1 = k
    <3>1. i = k + 1 /\ c[i] = 0
      BY <1>2, <2>1, <2>3
    <3>2. QED
      BY <1>2, <1>3, <2>1, <2>3, <3>1
  <2>4. CASE i # k /\ i - 1 # k
    BY <1>2, <1>3, <2>1, <2>4
  <2>5. QED
    BY <2>2, <2>3, <2>4
<1>9. ASSUME NEW k \in Stage, StageFall(k)
      PROVE  /\ c'[i] = 0 => q'[i] = cnt'[i]
             /\ c'[i] = 1 /\ q'[i] = cnt'[i] => q'[i-1] = cnt'[i-1]
  <2>1. /\ c[k] = 1 /\ c[k-1] = 0 /\ q[k] = q[k-1] /\ UNCHANGED <<q, cnt>>
        /\ c' = [c EXCEPT ![k] = 0]
    BY <1>9 DEF StageFall, Captured, Fall
  <2>2. q[k] = cnt[k]
    BY <1>9, <2>1, Upstream
  <2>3. QED
    BY <1>2, <1>3, <2>1, <2>2
<1>10. ASSUME NEW k \in Stage, LatchFollow(k)
       PROVE  /\ c'[i] = 0 => q'[i] = cnt'[i]
              /\ c'[i] = 1 /\ q'[i] = cnt'[i] => q'[i-1] = cnt'[i-1]
  <2>1. /\ c[k] = 1 /\ q[k] # q[k-1] /\ UNCHANGED <<c, cnt>>
        /\ q' = [q EXCEPT ![k] = q[k-1]] /\ k \in Datum
    BY <1>2, <1>10 DEF LatchFollow
  <2>2. cnt[k-1] = cnt[k]
    BY <1>10, <2>1, Upstream
  <2>3. q[k] # cnt[k]
    BY <1>10, <2>1, <2>2 DEF LatchLaw
  <2>4. CASE i = k
    BY <1>2, <1>3, <2>1, <2>2, <2>4
  <2>5. CASE i # k /\ i - 1 = k
    BY <1>2, <1>3, <2>1, <2>3, <2>5
  <2>6. CASE i # k /\ i - 1 # k
    BY <1>2, <1>3, <2>1, <2>6
  <2>7. QED
    BY <2>4, <2>5, <2>6
<1>11. CASE SinkAck
  BY <1>2, <1>3, <1>11 DEF SinkAck, Rise
<1>12. CASE SinkRelease
  BY <1>2, <1>3, <1>12 DEF SinkRelease, Fall
<1>13. CASE UNCHANGED <<c, q, cnt>>
  BY <1>3, <1>13
<1>14. QED
  BY <1>5, <1>6, <1>7, <1>8, <1>9, <1>10, <1>11, <1>12, <1>13
     DEF Next, vars, RequestRise, RequestFall

(* A receiver that lets go finds the datum it was sent. *)
LEMMA Handover ==
  ASSUME TypeOK, TokenLaw, RequestLaw, LatchLaw, SinkRelease
  PROVE  c[N+1] = 1 /\ q[N] = cnt[N+1]
<1>1. N \in Nat /\ N \in 0..N /\ N \in Stage
  BY PipeAssumption DEF Stage
<1>2. c[N+1] = 1 /\ c[N] = 0
  BY DEF SinkRelease, RequestLaw
<1>3. q[N] = cnt[N] /\ cnt[N] = cnt[N+1]
  BY <1>1, <1>2 DEF LatchLaw, TokenLaw
<1>4. QED
  BY <1>2, <1>3

LEMMA SinkStep ==
  ASSUME TypeOK, TokenLaw, RequestLaw, LatchLaw, SinkLaw, [Next]_vars
  PROVE  SinkLaw'
<1>1. N \in Nat
  BY PipeAssumption
<1>2. /\ c \in [Node -> {0, 1}] /\ q \in [Datum -> Nat] /\ cnt \in [Node -> Nat]
      /\ seen \in Seq(Nat) /\ N \in Datum
      /\ 0 \in Node /\ N+1 \in Node /\ N+1 # 0 /\ Stage \subseteq Node
      /\ N+1 \notin Stage
  BY <1>1 DEF TypeOK, WiresOK, Bit, Node, Datum, Stage
<1>3. CASE SourceRaise
  BY <1>2, <1>3 DEF SourceRaise, Rise, SinkLaw, InOrder
<1>4. CASE SourceDrop
  BY <1>2, <1>4 DEF SourceDrop, Fall, SinkLaw, InOrder
<1>5. ASSUME NEW i \in Stage, StageRise(i) PROVE SinkLaw'
  <2>1. c'[N+1] = c[N+1] /\ cnt'[N+1] = cnt[N+1] /\ UNCHANGED seen
    BY <1>2, <1>5 DEF StageRise, Rise
  <2>2. QED
    BY <2>1 DEF SinkLaw, InOrder
<1>6. ASSUME NEW i \in Stage, StageFall(i) PROVE SinkLaw'
  <2>1. c'[N+1] = c[N+1] /\ cnt'[N+1] = cnt[N+1] /\ UNCHANGED seen
    BY <1>2, <1>6 DEF StageFall, Fall
  <2>2. QED
    BY <2>1 DEF SinkLaw, InOrder
<1>7. CASE SinkAck
  <2>1. c[N+1] = 0 /\ c'[N+1] = 1 /\ cnt'[N+1] = cnt[N+1] + 1 /\ UNCHANGED seen
    BY <1>2, <1>7 DEF SinkAck, Rise
  <2>2. cnt[N+1] \in Nat
    BY <1>2
  <2>3. QED
    BY <2>1, <2>2 DEF SinkLaw, InOrder
<1>8. CASE SinkRelease
  <2>1. c[N+1] = 1 /\ q[N] = cnt[N+1]
    BY <1>8, Handover
  <2>2. c'[N+1] = 0 /\ cnt' = cnt /\ seen' = Append(seen, q[N])
    BY <1>2, <1>8 DEF SinkRelease, Fall
  <2>3. q[N] = Len(seen) + 1 /\ q[N] \in Nat
    BY <1>2, <2>1 DEF SinkLaw
  <2>4. Len(seen') = cnt'[N+1] - c'[N+1]
    BY <1>2, <2>1, <2>2, <2>3
  <2>5. InOrder'
    BY <1>2, <2>2, <2>3 DEF SinkLaw, InOrder
  <2>6. QED
    BY <2>4, <2>5 DEF SinkLaw
<1>9. CASE UNCHANGED <<c, cnt, seen>>
  BY <1>9 DEF SinkLaw, InOrder
<1>10. QED
  BY <1>3, <1>4, <1>5, <1>6, <1>7, <1>8, <1>9
     DEF Next, vars, SourcePut, LatchFollow, RequestRise, RequestFall

(* Once the padded request is up the last latch has its datum, and keeps   *)
(* it until the receiver lets go.                                          *)
LEMMA PaddedStep ==
  ASSUME TypeOK, TokenLaw, RequestLaw, SenderLaw, LatchLaw, EdgeSafe,
         [Next]_vars
  PROVE  EdgeSafe'
<1>0. padded' = padded
  BY DEF Next, vars, SourcePut, SourceRaise, SourceDrop, StageRise, StageFall,
         LatchFollow, RequestRise, RequestFall, SinkAck, SinkRelease
<1> SUFFICES ASSUME padded = 1, rq' = 1 \/ c'[N+1] = 1
             PROVE  q'[N] = cnt'[N]
  BY <1>0 DEF EdgeSafe
<1>1. N \in Nat \ {0}
  BY PipeAssumption
<1>2. /\ c \in [Node -> {0, 1}] /\ q \in [Datum -> Nat] /\ cnt \in [Node -> Nat]
      /\ rq \in {0, 1} /\ 0 \in Node /\ N \in Node /\ N+1 \in Node
      /\ 0 \in Datum /\ N \in Datum /\ 0 # N /\ 0 # N+1 /\ N # N+1
      /\ N+1 \notin Stage /\ N \in Stage
      /\ Stage \subseteq Node /\ Stage \subseteq Datum
  BY <1>1 DEF TypeOK, WiresOK, Bit, Node, Datum, Stage
<1>3. rq = 1 \/ c[N+1] = 1 => q[N] = cnt[N]
  BY DEF EdgeSafe
<1>4. CASE SourcePut
  BY <1>2, <1>3, <1>4 DEF SourcePut
<1>5. CASE SourceRaise
  BY <1>2, <1>3, <1>5 DEF SourceRaise, Rise
<1>6. CASE SourceDrop
  BY <1>2, <1>3, <1>6 DEF SourceDrop, Fall
<1>7. ASSUME NEW i \in Stage, StageRise(i) PROVE q'[N] = cnt'[N]
  <2>1. i # N
    BY <1>2, <1>7 DEF StageRise, StageOpens, Rise, RequestLaw
  <2>2. QED
    BY <1>2, <1>3, <1>7, <2>1 DEF StageRise, Rise
<1>8. ASSUME NEW i \in Stage, StageFall(i) PROVE q'[N] = cnt'[N]
  BY <1>2, <1>3, <1>8 DEF StageFall, Fall
<1>9. ASSUME NEW i \in Stage, LatchFollow(i) PROVE q'[N] = cnt'[N]
  <2>1. rq = 1 \/ c[N+1] = 1
    BY <1>9 DEF LatchFollow
  <2>2. i # N
    BY <1>2, <1>3, <1>9, <2>1, Upstream DEF LatchFollow, LatchLaw
  <2>3. QED
    BY <1>2, <1>3, <1>9, <2>1, <2>2 DEF LatchFollow
<1>10. CASE RequestRise
  BY <1>10 DEF RequestRise, Matched
<1>11. CASE RequestFall
  BY <1>3, <1>11 DEF RequestFall
<1>12. CASE SinkAck
  BY <1>2, <1>3, <1>12 DEF SinkAck, Rise
<1>13. CASE SinkRelease
  BY <1>2, <1>3, <1>13 DEF SinkRelease, Fall
<1>14. CASE UNCHANGED vars
  BY <1>3, <1>14 DEF vars
<1>15. QED
  BY <1>4, <1>5, <1>6, <1>7, <1>8, <1>9, <1>10, <1>11, <1>12, <1>13, <1>14
     DEF Next

-----------------------------------------------------------------------------
LEMMA InitInv == Init => IInv
<1> SUFFICES ASSUME Init
             PROVE  IInv
  OBVIOUS
<1>1. N \in Nat \ {0}
  BY PipeAssumption
<1>2. /\ c = [i \in 0..N+1 |-> 0] /\ cnt = [i \in 0..N+1 |-> 0]
      /\ q = [i \in 0..N |-> 0] /\ rq = 0 /\ seen = <<>>
  BY DEF Init, Node, Datum
<1>3. TypeOK
  BY <1>1, <1>2 DEF TypeOK, WiresOK, Bit, Node, Datum
<1>4. TokenLaw /\ Monotone /\ HalfOccupancy
  BY <1>1, <1>2 DEF TokenLaw, Monotone, HalfOccupancy, Node
<1>5. RequestLaw /\ SenderLaw /\ LatchLaw
  BY <1>1, <1>2 DEF RequestLaw, SenderLaw, LatchLaw, Stage
<1>6. SinkLaw /\ EdgeSafe
  BY <1>1, <1>2 DEF SinkLaw, InOrder, EdgeSafe
<1>7. QED
  BY <1>3, <1>4, <1>5, <1>6 DEF IInv

LEMMA StepInv == IInv /\ [Next]_vars => IInv'
BY TypeStep, CountStep, RequestStep, SenderStep, LatchStep, SinkStep, PaddedStep
   DEF IInv

(* The inductive invariant. *)
THEOREM Invariance == Spec => []IInv
BY InitInv, StepInv, PTL DEF Spec

(* Types, for every N. *)
THEOREM TypeCorrect == Spec => []TypeOK
<1>1. IInv => TypeOK
  BY DEF IInv
<1>2. QED
  BY <1>1, Invariance, PTL

(* The receiver is given 1, 2, 3, ... however far the requests run ahead   *)
(* of the data.                                                            *)
THEOREM OrderCorrect == Spec => []InOrder
<1>1. IInv => InOrder
  BY DEF IInv, SinkLaw
<1>2. QED
  BY <1>1, Invariance, PTL

(* Between any two nodes, half a token per stage. *)
THEOREM OccupancyCorrect == Spec => []HalfOccupancy
<1>1. IInv => HalfOccupancy
  BY DEF IInv
<1>2. QED
  BY <1>1, Invariance, PTL

(* Behind a matched delay line an edge-sampling receiver is safe. *)
THEOREM EdgeCorrect == Spec => []EdgeSafe
<1>1. IInv => EdgeSafe
  BY DEF IInv, EdgeSafe
<1>2. QED
  BY <1>1, Invariance, PTL

-----------------------------------------------------------------------------
(* No step moves a datum that has arrived inside its hold window. *)
LEMMA HoldStep ==
  ASSUME IInv, [Next]_vars, NEW i \in Datum,
         c[i] = 1 \/ c[i+1] = 1, q[i] = cnt[i]
  PROVE  q'[i] = q[i]
<1>1. N \in Nat \ {0}
  BY PipeAssumption
<1>2. q \in [Datum -> Nat] /\ 0 \in Datum /\ Stage \subseteq Datum
  BY <1>1 DEF IInv, TypeOK, WiresOK, Datum, Stage
<1>3. CASE SourcePut
  <2>1. i # 0
    BY <1>3 DEF SourcePut, Released
  <2>2. QED
    BY <1>2, <1>3, <2>1 DEF SourcePut
<1>4. ASSUME NEW k \in Stage, LatchFollow(k) PROVE q'[i] = q[i]
  <2>1. i # k
    <3> SUFFICES ASSUME i = k PROVE FALSE
      OBVIOUS
    <3>1. q[k-1] = cnt[k-1] /\ cnt[k-1] = cnt[k]
      BY <1>4, Upstream DEF LatchFollow, IInv, LatchLaw
    <3>2. QED
      BY <1>4, <3>1 DEF LatchFollow
  <2>2. QED
    BY <1>2, <1>4, <2>1 DEF LatchFollow
<1>5. CASE UNCHANGED q
  BY <1>5
<1>6. QED
  BY <1>3, <1>4, <1>5 DEF Next, vars, SourceRaise, SourceDrop, StageRise,
     StageFall, RequestRise, RequestFall, SinkAck, SinkRelease

(* Rule P2 on every channel of the pipe. *)
THEOREM HoldCorrect == Spec => HoldWindow
<1>1. IInv /\ [Next]_vars => [Held]_vars
  BY HoldStep DEF Held
<1>2. QED
  BY <1>1, Invariance, PTL DEF Spec, HoldWindow

(* Rules P1 and P3 at the receiver's end of the delay line. *)
THEOREM PhaseCorrect == Spec => FourPhase
<1>1. IInv /\ [Next]_vars => [rq # rq' => rq = c[N+1]]_vars
  <2> SUFFICES ASSUME IInv, [Next]_vars, rq # rq'
               PROVE  rq = c[N+1]
    OBVIOUS
  <2>1. RequestRise \/ RequestFall
    BY DEF Next, vars, SourcePut, SourceRaise, SourceDrop, StageRise, StageFall,
           LatchFollow, SinkAck, SinkRelease
  <2>2. c[N+1] \in {0, 1}
    BY PipeAssumption DEF IInv, TypeOK, WiresOK, Bit, Node
  <2>3. QED
    BY <2>1, <2>2 DEF RequestRise, RequestFall, IInv, RequestLaw
<1>2. QED
  BY <1>1, Invariance, PTL DEF Spec, FourPhase

-----------------------------------------------------------------------------
(* The occupancy law between the two ends of the pipe, read as room in the *)
(* queue: u is the receiver's acknowledge.                                 *)
LEMMA RoomForOne ==
  \A x, y, n \in Nat : \A u \in {0, 1} :
    2 * ((x + 1) - y) <= (n + 1) - 1 + 1 - u => x - (y - u) < (n + 2) \div 2
OBVIOUS

(* A token enters the queue when the first stage takes it and leaves when  *)
(* the receiver lets go of it; every other step stutters.                  *)
LEMMA FifoStep == IInv /\ IInv' /\ [Next]_vars => [Fifo!Next]_<<cnt[1], seen>>
<1> SUFFICES ASSUME IInv, IInv', [Next]_vars
             PROVE  Fifo!Next \/ UNCHANGED <<cnt[1], seen>>
  OBVIOUS
<1>1. N \in Nat \ {0}
  BY PipeAssumption
<1>2. /\ c \in [Node -> {0, 1}] /\ cnt \in [Node -> Nat] /\ seen \in Seq(Nat)
      /\ 0 \in Node /\ 1 \in Node /\ N+1 \in Node /\ 1 <= N+1
      /\ N+1 # 1 /\ N+1 \notin Stage /\ Stage \subseteq Node
  BY <1>1 DEF IInv, TypeOK, WiresOK, Bit, Node, Stage
<1>3. Len(seen) = cnt[N+1] - c[N+1]
  BY DEF IInv, SinkLaw
<1>4. CASE StageRise(1)
  <2>1. /\ cnt' = [cnt EXCEPT ![1] = cnt[1] + 1] /\ c' = [c EXCEPT ![1] = 1]
        /\ UNCHANGED seen
    BY <1>4 DEF StageRise, Rise
  <2>2. cnt'[1] = cnt[1] + 1 /\ cnt'[N+1] = cnt[N+1] /\ c'[N+1] = c[N+1]
    BY <1>2, <2>1
  <2>3. 2 * (cnt'[1] - cnt'[N+1]) <= (N+1) - 1 + 1 - c'[N+1]
    BY <1>2 DEF IInv, HalfOccupancy
  <2>4. cnt[1] \in Nat /\ cnt[N+1] \in Nat /\ c[N+1] \in {0, 1}
    BY <1>2
  <2>5. 2 * ((cnt[1] + 1) - cnt[N+1]) <= (N+1) - 1 + 1 - c[N+1]
    BY <2>2, <2>3
  <2>6. cnt[1] - (cnt[N+1] - c[N+1]) < (N + 2) \div 2
    BY <1>1, <2>4, <2>5, RoomForOne
  <2>7. QED
    BY <1>3, <2>1, <2>2, <2>6 DEF Fifo!Next, Fifo!Accept
<1>5. CASE SinkRelease
  <2>1. c[N+1] = 1 /\ q[N] = cnt[N+1]
    BY <1>5, Handover DEF IInv
  <2>2. cnt[1] \in Nat /\ cnt[N+1] \in Nat /\ cnt[N+1] <= cnt[1]
    BY <1>2 DEF IInv, Monotone
  <2>3. seen' = Append(seen, q[N]) /\ cnt' = cnt
    BY <1>5 DEF SinkRelease, Fall
  <2>4. q[N] = Len(seen) + 1 /\ Len(seen) < cnt[1]
    BY <1>3, <2>1, <2>2
  <2>5. QED
    BY <2>3, <2>4 DEF Fifo!Next, Fifo!Deliver
<1>6. ASSUME NEW i \in Stage, StageRise(i), i # 1
      PROVE  UNCHANGED <<cnt[1], seen>>
  BY <1>2, <1>6 DEF StageRise, Rise
<1>7. CASE SourceRaise \/ SinkAck
  BY <1>2, <1>7 DEF SourceRaise, SinkAck, Rise
<1>8. CASE UNCHANGED <<cnt, seen>>
  BY <1>8
<1>9. QED
  BY <1>4, <1>5, <1>6, <1>7, <1>8
     DEF Next, vars, SourcePut, SourceDrop, StageFall, Fall, LatchFollow,
         RequestRise, RequestFall

(* bd_pipe implements a queue of (N+2) \div 2 tokens. *)
THEOREM Implementation == Spec => ImplementsFifo
<1>1. Init => Fifo!Init
  BY PipeAssumption DEF Init, Fifo!Init, Node
<1>2. IInv /\ IInv' /\ [Next]_vars => [Fifo!Next]_<<cnt[1], seen>>
  BY FifoStep
<1>3. QED
  BY <1>1, <1>2, Invariance, PTL DEF Spec, ImplementsFifo, Fifo!Spec
=============================================================================
