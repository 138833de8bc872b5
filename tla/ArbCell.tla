------------------------------- MODULE ArbCell -------------------------------
(***************************************************************************)
(* bd_arbiter (cells/rtl/bd_arb.v): six LUT outputs, each an action of its *)
(* own, between the requests r of two clients and the acknowledge A0 of    *)
(* one server.                                                             *)
(*                                                                         *)
(*     q  = C(r1, ~r2), frozen while A0 is up     the decision             *)
(*     g1 = r1.q    g2 = r2.~q    R0 = r1.q + r2.~q                        *)
(*     A1 = C(g1, A0)    A2 = C(g2, A0)                                    *)
(*                                                                         *)
(* A request that moves while q is still deciding is the runt the header   *)
(* warns of.  Here q then ends at either value, both being possible; that  *)
(* its level may be intermediate for a while is not modelled, nor claimed  *)
(* harmless by the source.                                                 *)
(***************************************************************************)
EXTENDS Integers

Client == 1..2
Other(k) == 3 - k
Bit == 0..1

VARIABLES r,   \* r[k]: request of client k        (driven by the clients)
          A0,  \* acknowledge of the server        (driven by the server)
          q,   \* the decision node, 1 in favour of client 1
          g,   \* g[k]: grant of client k
          R0,  \* request to the server
          A    \* A[k]: acknowledge to client k

cell == <<q, g, R0, A>>

\* Reset sets q and clears the rest.
CellInit == /\ q = 1
            /\ g = [k \in Client |-> 0]
            /\ R0 = 0
            /\ A = [k \in Client |-> 0]

-----------------------------------------------------------------------------
(* What each LUT is asked to output. *)

C2(a, b, v) == IF a = b THEN a ELSE v

Favours(k) == q = 2 - k

\* Mutants: the arbiter as first specified, q not held on A0; a state node
\* that reads r2 un-inverted.
DecisionUnheld == C2(r[1], 1 - r[2], q)
DecisionInverted == IF A0 = 1 THEN q ELSE C2(r[1], r[2], q)

Decision == IF A0 = 1 THEN q ELSE C2(r[1], 1 - r[2], q)

\* Mutant: the grant does not read the decision.
GrantRaw(k) == r[k]

Grant(k) == IF r[k] = 1 /\ Favours(k) THEN 1 ELSE 0

\* Mutant: an adder where the OR should be.
RequestSum == r[1] + r[2]

Request == IF \E k \in Client : Grant(k) = 1 THEN 1 ELSE 0

Answer(k) == C2(g[k], A0, A[k])

(* The server's reaction takes longer than one arc inside the cell: grants *)
(* and acknowledges have followed their inputs before A0 moves again.      *)
ServerSlower == \A k \in Client : g[k] = Grant(k) /\ A[k] = Answer(k)

-----------------------------------------------------------------------------
Decide == /\ q # Decision
          /\ q' = Decision
          /\ UNCHANGED <<g, R0, A>>

SetGrant(k) == /\ g[k] # Grant(k)
               /\ g' = [g EXCEPT ![k] = Grant(k)]
               /\ UNCHANGED <<q, R0, A>>

SetRequest == /\ R0 # Request
              /\ R0' = Request
              /\ UNCHANGED <<q, g, A>>

SetAnswer(k) == /\ A[k] # Answer(k)
                /\ A' = [A EXCEPT ![k] = Answer(k)]
                /\ UNCHANGED <<q, g, R0>>

CellTypeOK == /\ q \in Bit
              /\ g \in [Client -> Bit]
              /\ R0 \in Bit
              /\ A \in [Client -> Bit]
=============================================================================
