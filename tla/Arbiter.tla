------------------------------- MODULE Arbiter -------------------------------
(***************************************************************************)
(* The arbiter cell between two four-phase clients and one four-phase      *)
(* server, the bench of cells/tb/tb_arb.v.                                 *)
(***************************************************************************)
EXTENDS ArbCell

CONSTANT MaxPassed   \* bound: overtakings are counted up to here

ASSUME ArbiterAssumption == MaxPassed \in Nat

VARIABLES owed,    \* server transactions begun, less clients acknowledged
          passed,  \* passed[k]: clients acknowledged while k has been waiting
          margin   \* the clients' speed: 1 if a winner cannot ask again before
                   \* q has re-evaluated ("alternation holds by one arc of
                   \* margin"), 0 if nothing is known of them

arbHistory == <<owed, passed, margin>>
arbVars == <<r, A0, q, g, R0, A, arbHistory>>

ArbInit == /\ CellInit
           /\ r = [k \in Client |-> 0]
           /\ A0 = 0
           /\ owed = 0
           /\ passed = [k \in Client |-> 0]
           /\ margin \in Bit

Waiting(k) == r[k] = 1 /\ A[k] = 0

Ask(k) == /\ r[k] = 0
          /\ A[k] = 0
          /\ margin = 1 => q = Decision
          /\ r' = [r EXCEPT ![k] = 1]
          /\ passed' = [passed EXCEPT ![k] = 0]
          /\ UNCHANGED <<cell, A0, owed, margin>>

LetGo(k) == /\ r[k] = 1
            /\ A[k] = 1
            /\ r' = [r EXCEPT ![k] = 0]
            /\ UNCHANGED <<cell, A0, arbHistory>>

\* The cell's own LUTs that nobody counts.
Gate == /\ Decide \/ SetRequest \/ \E k \in Client : SetGrant(k)
        /\ UNCHANGED <<r, A0, arbHistory>>

Serve(k) == /\ SetAnswer(k)
            /\ A'[k] = 1
            /\ owed' = owed - 1
            /\ passed' = [passed EXCEPT ![Other(k)] =
                            IF Waiting(Other(k)) /\ @ < MaxPassed THEN @ + 1 ELSE @]
            /\ UNCHANGED <<r, A0, margin>>

Finish(k) == /\ SetAnswer(k)
             /\ A'[k] = 0
             /\ UNCHANGED <<r, A0, arbHistory>>

ServerBegin == /\ R0 = 1
               /\ A0 = 0
               /\ ServerSlower
               /\ A0' = 1
               /\ owed' = owed + 1
               /\ UNCHANGED <<cell, r, passed, margin>>

ServerEnd == /\ R0 = 0
             /\ A0 = 1
             /\ ServerSlower
             /\ A0' = 0
             /\ UNCHANGED <<cell, r, arbHistory>>

ArbNext == \/ \E k \in Client : Ask(k) \/ LetGo(k) \/ Serve(k) \/ Finish(k)
           \/ Gate
           \/ ServerBegin
           \/ ServerEnd

ArbSpec == ArbInit /\ [][ArbNext]_arbVars

\* What the cell's LUTs leave alone.
Around == <<r, A0, arbHistory>>

-----------------------------------------------------------------------------
ArbTypeOK == /\ CellTypeOK
             /\ r \in [Client -> Bit]
             /\ A0 \in Bit
             /\ owed \in Int
             /\ passed \in [Client -> 0..MaxPassed]
             /\ margin \in Bit

(* One server transaction serves one client: no client is acknowledged for *)
(* a transaction the server never began ("eighty client completions        *)
(* against forty server transactions"), and none is begun for nobody.      *)
OneServicePerAck == owed \in 0..1 /\ (A0 = 0 => owed = 0)

(* The two grants, and the two acknowledges, are never up together, also   *)
(* during handover.                                                        *)
Exclusion == /\ ~(g[1] = 1 /\ g[2] = 1)
             /\ ~(A[1] = 1 /\ A[2] = 1)

(* Handover meets bd_merge's precondition on the server side: one client   *)
(* at a time, and while a grant meets a raised acknowledge, the other has  *)
(* finished and the decision is the one the grant was made on.             *)
CleanHandover ==
  /\ Exclusion
  /\ \A k \in Client : g[k] = 1 /\ A0 = 1 => A[Other(k)] = 0 /\ Favours(k)

(* The request the server sees has no glitch: once the OR of the grants is *)
(* to switch, neither a late decision nor a second request calls it back.  *)
RequestClean == [][R0 # Request /\ R0' = R0 => R0' # Request']_arbVars

(* With that margin a client is overtaken at most once before it is served.*)
BoundedOvertaking == margin = 1 => \A k \in Client : passed[k] <= 1

(* And every request is eventually acknowledged.                           *)
NoStarvation == \A k \in Client : margin = 1 /\ r[k] = 1 ~> A[k] = 1
=============================================================================
