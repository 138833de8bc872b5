-------------------------------- MODULE Loop --------------------------------
(***************************************************************************)
(* A loop as bdc/emit.py lowers it, every LUT an output of its own:        *)
(*                                                                         *)
(*   control_merge   ArbCell between the start token (r[1]) and the token  *)
(*                   coming back (r[2]), then a fork into result and index *)
(*   mux             picks the entry value or the one coming back          *)
(*   fork            of that value, to the compare and to the branch       *)
(*   cmpi            behind the link on its operand; then a fork; like     *)
(*                   subi it has absorbed its constant                     *)
(*   cond_br twice   of the value and of the control token: join and steer *)
(*   subi            on the way back, behind a bd_pipe of three stages;    *)
(*                   another three stages bring the control token back     *)
(*                                                                         *)
(* A value is the run it belongs to and the iterations it has left.  The   *)
(* environment runs the kernel as the benches do: all its inputs at once,  *)
(* the next run after the results of the last.                             *)
(***************************************************************************)
EXTENDS ArbCell, Sequences

CONSTANTS MaxRuns,   \* bound: how often the kernel is started
          MaxTrips   \* bound: iterations of a run

ASSUME LoopAssumption == MaxRuns \in Nat /\ MaxTrips \in Nat

VARIABLES w,        \* w.x: output of the LUT, or end of the delay line, x
          val,      \* val.x: the data on the wires of, or in the latch of, x
          started,  \* start tokens given
          given,    \* entry values given
          ended,    \* control tokens that have left
          results   \* the runs whose values have left; 0 for a wrong value

runs     == <<started, given, ended, results>>
loopVars == <<cell, r, A0, w, val, runs>>

LoopInit ==
  /\ CellInit
  /\ r = [k \in Client |-> 0]
  /\ A0 = 0
  /\ w = [x \in {"init", "mreq", "join0", "join1", "zreq", "xack", "yack", "share",
                 "cmp", "creq", "cfork", "djoin", "dexit", "dback", "dack",
                 "kjoin", "kexit", "kback", "kack", "d1", "d2", "d3", "back", "k1", "k2",
                 "dsink", "ksink"} |-> 0]
  /\ val = [x \in {"entry", "mux", "cmp", "d1", "d2", "d3", "index", "cond"} |->
              IF x \in {"index", "cond"} THEN 0 ELSE [run |-> 0, left |-> 0]]
  /\ started = 0
  /\ given = 0
  /\ ended = 0
  /\ results = <<>>

-----------------------------------------------------------------------------
(* What every LUT is asked to output. *)

And(a, b) == IF a = 1 /\ b = 1 THEN 1 ELSE 0
Or(a, b)  == IF a = 1 \/ b = 1 THEN 1 ELSE 0

\* Mutant: the index is the bare grant, which falls a phase too early.
WonGrant == g[2]

\* Which input won, for as long as the merge's output is read.
Won == Or(g[2], A[2])

\* Mutant: the mux takes whatever has arrived.
PickAny(req, s, j) == C2(req, w.mreq, w[j])

\* The mux's join of one input with the select in its favour.
Pick(req, s, j) == C2(req, And(w.mreq, s), w[j])

Joined(j, dat) == C2(w.creq, dat, w[j])

\* One stage of a pipe: C(req_in, ~c_next).
Controller(req, next, c) == C2(req, 1 - next, w[c])

Asked ==
  [ init  |-> w.init,
    mreq  |-> R0,
    join0 |-> Pick(w.init, 1 - val.index, "join0"),
    join1 |-> Pick(w.back, val.index, "join1"),
    zreq  |-> Or(w.join0, w.join1),
    xack  |-> C2(w.join0, w.share, w.xack),
    yack  |-> C2(w.join1, w.share, w.yack),
    share |-> C2(w.cmp, w.dack, w.share),
    cmp   |-> Controller(w.zreq, w.cfork, "cmp"),
    creq  |-> w.cmp,
    cfork |-> C2(w.dack, w.kack, w.cfork),
    djoin |-> Joined("djoin", w.zreq),
    dexit |-> And(w.djoin, 1 - val.cond),
    dback |-> And(w.djoin, val.cond),
    dack  |-> Or(w.dsink, w.d1),
    kjoin |-> Joined("kjoin", w.mreq),
    kexit |-> And(w.kjoin, 1 - val.cond),
    kback |-> And(w.kjoin, val.cond),
    kack  |-> Or(w.ksink, w.k1),
    d1    |-> Controller(w.dback, w.d2, "d1"),
    d2    |-> Controller(w.d1, w.d3, "d2"),
    d3    |-> Controller(w.d2, w.yack, "d3"),
    back  |-> w.d3,
    k1    |-> Controller(w.kback, w.k2, "k1"),
    k2    |-> Controller(w.k1, r[2], "k2"),
    dsink |-> w.dexit,
    ksink |-> w.kexit ]

\* The last stage of the control pipe, and the merge's own fork.
Returning == C2(w.k2, 1 - A[2], r[2])
Merged    == C2(w.share, w.kack, A0)

Less(v) == [v EXCEPT !.left = IF @ = 0 THEN MaxTrips ELSE @ - 1]

\* A latch follows while its enable is up.
Latch(x, in) == IF w[x] = 1 THEN in ELSE val[x]

Computed ==
  [ entry |-> val.entry,
    index |-> Won,
    mux   |-> IF val.index = 1 THEN Less(val.d3) ELSE val.entry,
    cmp   |-> Latch("cmp", val.mux),
    cond  |-> IF val.cmp.left > 0 THEN 1 ELSE 0,
    d1    |-> Latch("d1", val.mux),
    d2    |-> Latch("d2", val.d1),
    d3    |-> Latch("d3", val.d2) ]

-----------------------------------------------------------------------------
(* The timing the library relies on.                                       *)

Settled(x) == val[x] = Computed[x]

\* Matched lines: a request leaves its delay line after the data it
\* announces.  The mux's line is also longer than its two acknowledges, which
\* nobody waits for on their way down: a rule of tighten.py measures those.
Matched(x) ==
  w[x] = 0 =>
    CASE x = "mreq" -> Settled("index")
      [] x = "zreq" -> /\ Settled("mux")
                       /\ w.xack = Asked.xack /\ w.yack = Asked.yack
      [] x = "creq" -> Settled("cmp") /\ Settled("cond")
      [] x = "back" -> Settled("d1") /\ Settled("d2") /\ Settled("d3")
      [] OTHER -> TRUE

\* A latch has followed its input before its own controller closes it.
Captured(x) == w[x] = 1 /\ x \in {"cmp", "d1", "d2", "d3"} => Settled(x)

-----------------------------------------------------------------------------
Excited == LET asked == Asked IN {x \in DOMAIN w : w[x] # asked[x]}

\* One LUT, or one delay line, switches.
Switch(x) == /\ Matched(x)
             /\ Captured(x)
             /\ w' = [w EXCEPT ![x] = 1 - @]
             /\ ended' = IF x = "ksink" /\ w[x] = 0 THEN ended + 1 ELSE ended
             /\ results' = IF x = "dsink" /\ w[x] = 0
                           THEN Append(results, IF val.mux.left = 0 THEN val.mux.run ELSE 0)
                           ELSE results
             /\ UNCHANGED <<cell, r, A0, val, started, given>>

Follow(x) == /\ ~Settled(x)
             /\ val' = [val EXCEPT ![x] = Computed[x]]
             /\ UNCHANGED <<cell, r, A0, w, runs>>

Arbitration == /\ Decide \/ SetRequest \/ \E k \in Client : SetGrant(k) \/ SetAnswer(k)
             /\ UNCHANGED <<r, A0, w, val, runs>>

Return == /\ r[2] # Returning
          /\ r' = [r EXCEPT ![2] = Returning]
          /\ UNCHANGED <<cell, A0, w, val, runs>>

Acknowledge == /\ A0 # Merged
               /\ ServerSlower
               /\ A0' = Merged
               /\ UNCHANGED <<cell, r, w, val, runs>>

-----------------------------------------------------------------------------
(* The environment. *)

Answered(n) == n = ended /\ n = Len(results) /\ n < MaxRuns

Start == /\ r[1] = 0 /\ A[1] = 0
         /\ Answered(started)
         /\ r' = [r EXCEPT ![1] = 1]
         /\ started' = started + 1
         /\ UNCHANGED <<cell, A0, w, val, given, ended, results>>

Give == /\ w.init = 0 /\ w.xack = 0
        /\ Answered(given)
        /\ given' = given + 1
        /\ \E k \in 0..MaxTrips : val' = [val EXCEPT !.entry = [run |-> given', left |-> k]]
        /\ w' = [w EXCEPT !.init = 1]
        /\ UNCHANGED <<cell, r, A0, started, ended, results>>

WithdrawStart == /\ r[1] = 1 /\ A[1] = 1
                 /\ r' = [r EXCEPT ![1] = 0]
                 /\ UNCHANGED <<cell, A0, w, val, runs>>

WithdrawValue == /\ w.init = 1 /\ w.xack = 1
                 /\ w' = [w EXCEPT !.init = 0]
                 /\ UNCHANGED <<cell, r, A0, val, runs>>

Circuit == \/ \E x \in Excited : Switch(x)
           \/ \E x \in DOMAIN val : Follow(x)
           \/ Arbitration
           \/ Return
           \/ Acknowledge
           \/ WithdrawStart
           \/ WithdrawValue

LoopNext == Circuit \/ Start \/ Give

LoopSpec == LoopInit /\ [][LoopNext]_loopVars /\ WF_loopVars(Circuit)

-----------------------------------------------------------------------------
WiresStand == {x \in Excited : w'[x] = w[x]} \subseteq Excited'

\* An output that is to switch, and does not, is to switch still.
Stands(out, asked) == out # asked /\ out' = out => (out # asked)'

CellStands == /\ Stands(r[2], Returning) /\ Stands(A0, Merged)
              /\ Stands(q, Decision) /\ Stands(R0, Request)
              /\ \A k \in Client : Stands(g[k], Grant(k)) /\ Stands(A[k], Answer(k))

Undisturbed == WiresStand /\ CellStands

Lesser(a, b) == IF a < b THEN a ELSE b

(* The loop is a channel for one token: each run gives one value, its own, *)
(* after exactly the iterations it asked for, and one control token; and   *)
(* once started it does.                                                   *)
Fifo == INSTANCE TokenFifo
          WITH sent <- Lesser(started, given),
               seen <- SubSeq(results, 1, Lesser(ended, Len(results))),
               Capacity <- 1

ImplementsLoop == Fifo!FairSpec
=============================================================================
