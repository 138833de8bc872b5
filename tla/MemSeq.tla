------------------------------- MODULE MemSeq -------------------------------
(***************************************************************************)
(* A store and a load on one RAM, as bdc/mem.py emits them and             *)
(* cells/tb/tb_bdc_memseq.v runs them in token mode: two stations, each    *)
(* claiming one slot of an arbitrated port.  Chained, the load waits for a *)
(* program-order token: the store's completion is one more operand of it.  *)
(* Not chained, the two contend for the port as their operands come.       *)
(*                                                                         *)
(* The port is ArbCell in front of the RAM: r is the stations' p_req, A    *)
(* their p_ack, R0 the RAM's request and A0 its acknowledge.  A word wider *)
(* than one RAM is kept by a gang of them, a slice each.  A RAM reads or   *)
(* writes on the rising edge of a clock that is the request itself, by     *)
(* way of that RAM's own delay line.                                       *)
(*                                                                         *)
(* The slice of a word is written as the word it is of: words that differ  *)
(* are told apart in every slice.                                          *)
(***************************************************************************)
EXTENDS ArbCell

CONSTANTS Gang,         \* the RAMs of the port
          Addr, Word,   \* addresses and data words
          MaxEdges      \* bound: RAM edges are counted up to here

ASSUME MemAssumption == /\ Gang # {}
                        /\ Addr # {}
                        /\ Word # {}
                        /\ MaxEdges \in Nat \ {0}

Store == 1
Load  == 2
Station == {Store, Load}

\* Operands the environment supplies, and the station each goes to.
Operand == [tok |-> Store, sa |-> Store, sd |-> Store, la |-> Load]

VARIABLES req,      \* req[i]: request of operand i
          addr,     \* addr[s]: the address station s is being given
          wdata,    \* the word the store is being given
          joined,   \* joined[s]: every operand of s has arrived
          done,     \* done[s]: the access has happened; also s's z_req
          hold,     \* hold[s]: acknowledge of all of s's operands
          clk,      \* clk[b]: the manufactured clock of RAM b
          ram_ack,  \* its acknowledge, and
          mem,      \* its contents
          rdata,    \* its output register
          zack,     \* zack[s]: acknowledge of the consumer of s, if it has one
          spec,     \* history: memory after the stores begun so far
          edges,    \* history: edges[b][s], edges of b spent on the access of s
          chained   \* how it was built: 1 if the load takes the store's token

stations == <<joined, done, hold>>
ram      == <<clk, ram_ack, mem, rdata>>
env      == <<req, addr, wdata, zack, chained>>
history  == <<spec, edges>>
vars     == <<cell, r, A0, stations, ram, env, history>>

Init == /\ CellInit
        /\ r = [s \in Station |-> 0]
        /\ A0 = 0
        /\ req = [i \in DOMAIN Operand |-> 0]
        /\ addr \in [Station -> Addr]
        /\ wdata \in Word
        /\ joined = [s \in Station |-> 0]
        /\ done = [s \in Station |-> 0]
        /\ hold = [s \in Station |-> 0]
        /\ clk = [b \in Gang |-> 0]
        /\ ram_ack = [b \in Gang |-> 0]
        /\ spec \in [Addr -> Word]
        /\ mem = [b \in Gang |-> spec]
        /\ rdata \in [Gang -> Word]
        /\ zack = [s \in Station |-> 0]
        /\ edges = [b \in Gang |-> [s \in Station |-> 0]]
        /\ chained \in Bit

-----------------------------------------------------------------------------
(* The environment: every operand is raised and let go on its own.         *)

Offer(i) == /\ req[i] = 0
            /\ hold[Operand[i]] = 0
            /\ req' = [req EXCEPT ![i] = 1]
            /\ IF i \in {"sa", "la"}
               THEN \E a \in Addr : addr' = [addr EXCEPT ![Operand[i]] = a]
               ELSE addr' = addr
            /\ IF i = "sd" THEN wdata' \in Word ELSE wdata' = wdata
            /\ UNCHANGED <<cell, r, A0, stations, ram, zack, chained, history>>

Withdraw(i) == /\ req[i] = 1
               /\ hold[Operand[i]] = 1
               /\ req' = [req EXCEPT ![i] = 0]
               /\ UNCHANGED <<cell, r, A0, stations, ram, addr, wdata, zack, chained, history>>

\* Chained, the load is the store's consumer.
Consume(s) == /\ s = Load \/ chained = 0
              /\ zack[s] # done[s]
              /\ zack' = [zack EXCEPT ![s] = done[s]]
              /\ UNCHANGED <<cell, r, A0, stations, ram, req, addr, wdata, chained, history>>

-----------------------------------------------------------------------------
(* A station.                                                              *)

\* Its operands from the environment.
Given(s) == {req[i] : i \in {o \in DOMAIN Operand : Operand[o] = s}}

\* Mutant: the load does not wait for the token.
ArrivedUnordered(s) == Given(s)

\* What the join of station s sees; the load's token is the store's z_req.
Arrived(s) == Given(s) \union (IF s = Load /\ chained = 1 THEN {done[Store]} ELSE {})

\* And who acknowledges its z channel.
ZAck(s) == IF s = Store /\ chained = 1 THEN hold[Load] ELSE zack[s]

Join(s) == /\ Arrived(s) = {1 - joined[s]}
           /\ joined' = [joined EXCEPT ![s] = 1 - @]
           /\ IF joined[s] = 0
              THEN /\ edges' = [b \in Gang |-> [edges[b] EXCEPT ![s] = 0]]
                   /\ spec' = IF s = Store THEN [spec EXCEPT ![addr[s]] = wdata]
                                           ELSE spec
              ELSE UNCHANGED history
           /\ UNCHANGED <<cell, r, A0, done, hold, ram, env>>

\* Mutants: done not remembered; done from an acknowledge the two slots share
\* (the port without an arbiter); the claim kept for as long as the operands
\* are; operands released with the consumer, as bd_join does; or at once.
DoneUnlatched(s) == IF joined[s] = 1 /\ A[s] = 1 THEN 1 ELSE 0
DoneShared(s) == IF joined[s] = 1 /\ (A0 = 1 \/ done[s] = 1) THEN 1 ELSE 0
ClaimKept(s) == joined[s]
HoldNaive(s) == ZAck(s)
HoldEarly(s) == joined[s]

\* done = joined & (p_ack | done)
Done(s) == IF joined[s] = 1 /\ (A[s] = 1 \/ done[s] = 1) THEN 1 ELSE 0

\* p_req = joined & ~done
Claim(s) == IF joined[s] = 1 /\ done[s] = 0 THEN 1 ELSE 0

\* hold = z_ack | (hold & p_ack)
Hold(s) == IF ZAck(s) = 1 \/ (hold[s] = 1 /\ A[s] = 1) THEN 1 ELSE 0

SetDone(s) == /\ done[s] # Done(s)
              /\ done' = [done EXCEPT ![s] = Done(s)]
              /\ UNCHANGED <<cell, r, A0, joined, hold, ram, env, history>>

SetClaim(s) == /\ r[s] # Claim(s)
               /\ r' = [r EXCEPT ![s] = Claim(s)]
               /\ UNCHANGED <<cell, A0, stations, ram, env, history>>

SetHold(s) == /\ hold[s] # Hold(s)
              /\ hold' = [hold EXCEPT ![s] = Hold(s)]
              /\ UNCHANGED <<cell, r, A0, joined, done, ram, env, history>>

-----------------------------------------------------------------------------
(* The port.                                                               *)

Arbitrate == /\ Decide \/ SetRequest \/ \E s \in Station : SetGrant(s) \/ SetAnswer(s)
             /\ UNCHANGED <<r, A0, stations, ram, env, history>>

\* DSETUP covers the payload mux: the grants that select address, data and
\* write enable have followed by the time the clock of b rises.  A load drives
\* zeros on the data and does not write.  WRITE_FIRST.
ClockRise(b) ==
  /\ R0 = 1
  /\ clk[b] = 0
  /\ ServerSlower
  /\ \E s \in Station :
       /\ g[s] = 1
       /\ mem' = IF s = Store THEN [mem EXCEPT ![b][addr[s]] = wdata] ELSE mem
       /\ rdata' = [rdata EXCEPT ![b] = mem'[b][addr[s]]]
       /\ edges' = [edges EXCEPT ![b][s] = IF @ < MaxEdges THEN @ + 1 ELSE @]
  /\ clk' = [clk EXCEPT ![b] = 1]
  /\ UNCHANGED <<cell, r, A0, ram_ack, stations, env, spec>>

ClockFall(b) == /\ R0 = 0
                /\ clk[b] = 1
                /\ clk' = [clk EXCEPT ![b] = 0]
                /\ UNCHANGED <<cell, r, A0, ram_ack, stations, mem, rdata, env, history>>

\* DCO: the acknowledge of b follows its clock after its output has.
RamAck(b) == /\ ram_ack[b] # clk[b]
             /\ ram_ack' = [ram_ack EXCEPT ![b] = clk[b]]
             /\ UNCHANGED <<cell, r, A0, stations, clk, mem, rdata, env, history>>

\* Mutant: an OR where the tree should be, so the first RAM answers for all.
GatheredAny == IF \E b \in Gang : ram_ack[b] = 1 THEN 1 ELSE 0

\* bd_ctree: up when every RAM has answered, down when every one has reset.
Gathered == IF \A b \in Gang : ram_ack[b] = 1 - A0 THEN 1 - A0 ELSE A0

GangAck == /\ A0 # Gathered
           /\ ServerSlower
           /\ A0' = Gathered
           /\ UNCHANGED <<cell, r, stations, ram, env, history>>

Next == \/ \E i \in DOMAIN Operand : Offer(i) \/ Withdraw(i)
        \/ \E s \in Station : Consume(s) \/ Join(s) \/ SetDone(s) \/ SetClaim(s) \/ SetHold(s)
        \/ Arbitrate
        \/ \E b \in Gang : ClockRise(b) \/ ClockFall(b) \/ RamAck(b)
        \/ GangAck

Spec == Init /\ [][Next]_vars

Outside == <<r, A0, stations, ram, env, history>>

\* Gates and delay lines respond; the consumer takes results; an environment
\* that was acknowledged lets go.  Nobody has to offer an operand.
Fairness ==
  /\ \A i \in DOMAIN Operand : WF_vars(Withdraw(i))
  /\ \A s \in Station : /\ WF_vars(Consume(s))
                        /\ WF_vars(Join(s))
                        /\ WF_vars(SetDone(s))
                        /\ WF_vars(SetClaim(s))
                        /\ WF_vars(SetHold(s))
                        /\ WF_vars(SetGrant(s) /\ UNCHANGED Outside)
                        /\ WF_vars(SetAnswer(s) /\ UNCHANGED Outside)
  /\ WF_vars(Decide /\ UNCHANGED Outside)
  /\ WF_vars(SetRequest /\ UNCHANGED Outside)
  /\ \A b \in Gang : WF_vars(ClockRise(b)) /\ WF_vars(ClockFall(b)) /\ WF_vars(RamAck(b))
  /\ WF_vars(GangAck)

FairSpec == Spec /\ Fairness

-----------------------------------------------------------------------------
TypeOK == /\ CellTypeOK
          /\ r \in [Station -> Bit]
          /\ A0 \in Bit
          /\ req \in [DOMAIN Operand -> Bit]
          /\ addr \in [Station -> Addr]
          /\ wdata \in Word
          /\ joined \in [Station -> Bit]
          /\ done \in [Station -> Bit]
          /\ hold \in [Station -> Bit]
          /\ clk \in [Gang -> Bit]
          /\ ram_ack \in [Gang -> Bit]
          /\ mem \in [Gang -> [Addr -> Word]]
          /\ rdata \in [Gang -> Word]
          /\ zack \in [Station -> Bit]
          /\ spec \in [Addr -> Word]
          /\ edges \in [Gang -> [Station -> 0..MaxEdges]]
          /\ chained \in Bit

(* An access that reports completion has had an edge of its own at every   *)
(* RAM of the gang, and exactly one ("24 accesses, 24 RAM edges").         *)
(* Without the asymmetric hold the second access "silently does not        *)
(* happen".                                                                *)
OneEdgePerAccess == \A s \in Station : done[s] = 1 => \A b \in Gang : edges[b][s] = 1

(* For as long as the load's result is on offer it is the word of program  *)
(* order, whole: the last store to that address the token chain put before *)
(* it, from every RAM of the gang.                                         *)
LoadsSeeStores ==
  chained = 1 /\ (done[Load] = 1 \/ zack[Load] = 1) =>
    \A b \in Gang : rdata[b] = spec[addr[Load]]

\* Which slot is selected, and what it shows the RAM.
Shown == {<<s, addr[s], IF s = Store THEN {wdata} ELSE {}>> :
            s \in {k \in Station : g[k] = 1}}

(* Bundling at the RAMs: from the moment the grants have settled until the *)
(* gang acknowledges, neither the selected slot nor its payload moves,     *)
(* although operands come and go and the other station may claim.          *)
Presented == R0 = 1 /\ A0 = 0 /\ ServerSlower => Shown' = Shown

PayloadHeld == [][Presented]_vars

(* Only the arbiter's decision ever races: no LUT of a station, no grant   *)
(* and no move of the gang's tree that is about to happen is called back   *)
(* by another switching first, so none of them can glitch whatever the     *)
(* routing delays are.                                                     *)
Committed ==
  /\ A0 # Gathered /\ A0' = A0 => Gathered' = Gathered
  /\ \A s \in Station :
      /\ Arrived(s) = {1 - joined[s]} /\ joined'[s] = joined[s] =>
           Arrived(s)' = Arrived(s)
      /\ done[s] # Done(s) /\ done'[s] = done[s] => done'[s] # Done(s)'
      /\ hold[s] # Hold(s) /\ hold'[s] = hold[s] => hold'[s] # Hold(s)'
      /\ r[s] # Claim(s) /\ r'[s] = r[s] => r'[s] # Claim(s)'
      /\ g[s] # Grant(s) /\ g'[s] = g[s] => g'[s] # Grant(s)'
      /\ A[s] # Answer(s) /\ A'[s] = A[s] => A'[s] # Answer(s)'

StationsHazardFree == [][Committed]_vars

(* When all operands of both accesses have been offered the load's result  *)
(* reaches its consumer: the stations do not wait on each other for the    *)
(* port ("one RAM edge, then nothing").                                    *)
ChainCompletes ==
  chained = 1 /\ (\A i \in DOMAIN Operand : req[i] = 1) ~> zack[Load] = 1
=============================================================================
