----------------------------- MODULE ArbCellProofs -----------------------------
(***************************************************************************)
(* The arbiter cell in its three places.                                    *)
(*                                                                         *)
(* On its bench (Arbiter) it serves one client per server transaction,     *)
(* never two at a time, and hands over cleanly, whatever the speed of its  *)
(* LUTs and of its clients.  Only the server's reaction is bounded from    *)
(* below.                                                                  *)
(*                                                                         *)
(* In the memory port (MemSeq), for every gang of RAMs, every address      *)
(* space and every word, an access spends one edge of every RAM, and a     *)
(* load chained behind a store offers the word of program order.           *)
(*                                                                         *)
(* At the head of a compiled loop (Loop), for every number of runs and of  *)
(* iterations, no LUT of the loop is called back, handover is as clean,    *)
(* and the loop gives one result a run, in order.                          *)
(***************************************************************************)
EXTENDS MCArbiter, MemSeq, SequenceTheorems, TLAPS

-----------------------------------------------------------------------------
(* The bench: the inductive invariant.                                     *)

\* Only the favoured client is granted.
ArbFavours == \A k \in Client : g[k] = 1 => Favours(k)

\* Between transactions: an acknowledged client has let go, a grant and the
\* request to the server stand on a request of the favoured client.
ArbFree == /\ owed = 0
           /\ \A k \in Client : /\ A[k] = 1 => r[k] = 0 /\ g[k] = 0 /\ A[Other(k)] = 0
                                /\ g[k] = 1 => r[k] = 1
                                /\ R0 = 1 /\ Favours(k) => r[k] = 1

\* During one the decision is frozen: the favoured client is the one served,
\* and until it lets go its grant and the request are up.
ArbBusy == \A k \in Client :
           Favours(k) => /\ A[Other(k)] = 0
                         /\ A[k] = 0 => r[k] = 1
                         /\ r[k] = 1 => g[k] = 1 /\ R0 = 1
                         /\ owed = 1 - A[k]

ArbInv == /\ ArbTypeOK
          /\ ArbFavours
          /\ A0 = 0 => ArbFree
          /\ A0 = 1 => ArbBusy

\* Every action of ArbNext, by what it does to the cell.
LEMMA Exploded ==
  ASSUME ArbTypeOK
  PROVE  /\ r = [k \in Client |-> r[k]] /\ g = [k \in Client |-> g[k]]
         /\ A = [k \in Client |-> A[k]]
         /\ \A k \in Client : /\ r[k] \in {0, 1} /\ g[k] \in {0, 1} /\ A[k] \in {0, 1}
                              /\ Other(k) \in Client /\ Other(k) # k /\ Other(Other(k)) = k
                              /\ \A j \in Client : j = k \/ j = Other(k)
         /\ A0 \in {0, 1} /\ q \in {0, 1} /\ R0 \in {0, 1}
         /\ \A k \in Client : Favours(k) <=> ~Favours(Other(k))
BY DEF ArbTypeOK, CellTypeOK, Client, Bit, Other, Favours

LEMMA ArbInitInv == ArbInit => ArbInv
BY ArbiterAssumption DEF ArbInit, CellInit, ArbInv, ArbTypeOK, CellTypeOK, ArbFavours, ArbFree, ArbBusy, Favours, Client, Bit, Other

LEMMA ArbTypeStep == ASSUME ArbTypeOK, [ArbNext]_arbVars PROVE ArbTypeOK'
<1>1. ASSUME NEW k \in Client, Ask(k) PROVE ArbTypeOK'
  BY <1>1, ArbiterAssumption DEF Ask, cell, ArbTypeOK, CellTypeOK, Bit
<1>2. ASSUME NEW k \in Client, LetGo(k) PROVE ArbTypeOK'
  BY <1>2 DEF LetGo, cell, arbHistory, ArbTypeOK, CellTypeOK, Bit
<1>3. ASSUME NEW k \in Client, Serve(k) PROVE ArbTypeOK'
  <2>1. Answer(k) \in Bit
    BY Exploded DEF Answer, C2, Bit
  <2>2. passed' \in [Client -> 0..MaxPassed]
    BY <1>3, ArbiterAssumption DEF Serve, ArbTypeOK, Other, Client
  <2>3. QED
    BY <1>3, <2>1, <2>2 DEF Serve, SetAnswer, ArbTypeOK, CellTypeOK
<1>4. ASSUME NEW k \in Client, Finish(k) PROVE ArbTypeOK'
  <2>1. Answer(k) \in Bit
    BY Exploded DEF Answer, C2, Bit
  <2>2. QED
    BY <1>4, <2>1 DEF Finish, SetAnswer, arbHistory, ArbTypeOK, CellTypeOK
<1>5. CASE Gate
  <2>1. Decision \in Bit /\ Request \in Bit /\ \A k \in Client : Grant(k) \in Bit
    BY Exploded DEF Decision, Request, Grant, C2, Bit, Client
  <2>2. QED
    BY <1>5, <2>1 DEF Gate, Decide, SetRequest, SetGrant, arbHistory, ArbTypeOK, CellTypeOK
<1>6. CASE ServerBegin
  BY <1>6 DEF ServerBegin, cell, ArbTypeOK, CellTypeOK, Bit
<1>7. CASE ServerEnd
  BY <1>7 DEF ServerEnd, cell, arbHistory, ArbTypeOK, CellTypeOK, Bit
<1>8. CASE UNCHANGED arbVars
  BY <1>8 DEF arbVars, cell, arbHistory, ArbTypeOK, CellTypeOK
<1>9. QED
  BY <1>1, <1>2, <1>3, <1>4, <1>5, <1>6, <1>7, <1>8 DEF ArbNext

LEMMA ArbStep == ASSUME ArbInv, [ArbNext]_arbVars PROVE ArbInv'
<1> USE DEF ArbInv
<1>t. ArbTypeOK'
  BY ArbTypeStep
<1>e. /\ r = [k \in Client |-> r[k]] /\ g = [k \in Client |-> g[k]]
      /\ A = [k \in Client |-> A[k]]
      /\ \A k \in Client : /\ r[k] \in {0, 1} /\ g[k] \in {0, 1} /\ A[k] \in {0, 1}
                           /\ Other(k) \in Client /\ Other(k) # k /\ Other(Other(k)) = k
                           /\ \A j \in Client : j = k \/ j = Other(k)
      /\ A0 \in {0, 1} /\ q \in {0, 1} /\ R0 \in {0, 1}
      /\ \A k \in Client : Favours(k) <=> ~Favours(Other(k))
  BY Exploded
<1>1. ASSUME NEW k \in Client, Ask(k) PROVE ArbFavours' /\ (A0' = 0 => ArbFree') /\ (A0' = 1 => ArbBusy')
  BY <1>1, <1>e DEF Ask, cell, ArbFavours, ArbFree, ArbBusy, Favours
<1>2. ASSUME NEW k \in Client, LetGo(k) PROVE ArbFavours' /\ (A0' = 0 => ArbFree') /\ (A0' = 1 => ArbBusy')
  BY <1>2, <1>e DEF LetGo, cell, arbHistory, ArbFavours, ArbFree, ArbBusy, Favours
<1>3. ASSUME NEW k \in Client, Serve(k) PROVE ArbFavours' /\ (A0' = 0 => ArbFree') /\ (A0' = 1 => ArbBusy')
  BY <1>3, <1>e DEF Serve, SetAnswer, Answer, C2, ArbFavours, ArbFree, ArbBusy, Favours
<1>4. ASSUME NEW k \in Client, Finish(k) PROVE ArbFavours' /\ (A0' = 0 => ArbFree') /\ (A0' = 1 => ArbBusy')
  BY <1>4, <1>e DEF Finish, SetAnswer, Answer, C2, arbHistory, ArbFavours, ArbFree, ArbBusy, Favours
<1>5. CASE Gate
  <2>1. ASSUME Decide PROVE ArbFavours' /\ (A0' = 0 => ArbFree') /\ (A0' = 1 => ArbBusy')
    BY <1>5, <2>1, <1>e DEF Gate, Decide, Decision, C2, arbHistory, ArbFavours, ArbFree, ArbBusy, Favours, Other, Client
  <2>2. ASSUME SetRequest PROVE ArbFavours' /\ (A0' = 0 => ArbFree') /\ (A0' = 1 => ArbBusy')
    BY <1>5, <2>2, <1>e DEF Gate, SetRequest, Request, Grant, arbHistory, ArbFavours, ArbFree, ArbBusy, Favours
  <2>3. ASSUME NEW k \in Client, SetGrant(k) PROVE ArbFavours' /\ (A0' = 0 => ArbFree') /\ (A0' = 1 => ArbBusy')
    BY <1>5, <2>3, <1>e DEF Gate, SetGrant, Grant, arbHistory, ArbFavours, ArbFree, ArbBusy, Favours
  <2>4. QED
    BY <1>5, <1>t, <2>1, <2>2, <2>3 DEF Gate
<1>6. CASE ServerBegin
  BY <1>6, <1>e, <1>t DEF ServerBegin, ServerSlower, Answer, Grant, C2, cell, ArbFavours, ArbFree, ArbBusy, Favours
<1>7. CASE ServerEnd
  <2>1. PICK k \in Client : Favours(k)
    BY <1>e DEF Favours, Client
  <2>2. r[k] = 0 /\ A[k] = 1 /\ A[Other(k)] = 0 /\ owed = 0
    BY <1>7, <2>1, <1>e DEF ServerEnd, ArbBusy
  <2>3. \A j \in Client : g[j] = Grant(j)
    BY <1>7 DEF ServerEnd, ServerSlower
  <2>4. QED
    BY <1>7, <1>e, <1>t, <2>1, <2>2, <2>3
    DEF ServerEnd, Grant, cell, arbHistory, ArbFavours, ArbFree, Favours
<1>8. CASE UNCHANGED arbVars
  BY <1>8, <1>t DEF arbVars, cell, arbHistory, ArbFavours, ArbFree, ArbBusy, Favours
<1>9. QED
  BY <1>t, <1>1, <1>2, <1>3, <1>4, <1>5, <1>6, <1>7, <1>8 DEF ArbNext

LEMMA ArbInvariant == ArbSpec => []ArbInv
<1>1. ArbInit => ArbInv
  BY ArbInitInv
<1>2. ArbInv /\ [ArbNext]_arbVars => ArbInv'
  BY ArbStep
<1>3. QED
  BY <1>1, <1>2, PTL DEF ArbSpec

-----------------------------------------------------------------------------
(* What the cell promises on its bench.                                    *)

(* Every variable keeps its type. *)
THEOREM ArbTypeCorrect == ArbSpec => []ArbTypeOK
BY ArbInvariant, PTL DEF ArbInv

LEMMA ArbExclusion == ArbInv => Exclusion
<1> SUFFICES ASSUME ArbInv PROVE Exclusion
  OBVIOUS
<1>1. q \in {0, 1} /\ A0 \in {0, 1} /\ A[1] \in {0, 1} /\ A[2] \in {0, 1}
  BY DEF ArbInv, ArbTypeOK, CellTypeOK, Client, Bit
<1>2. QED
  BY <1>1 DEF ArbInv, ArbFavours, ArbFree, ArbBusy, Favours, Exclusion, Client, Other

(* Neither two grants nor two acknowledges are ever up together, also      *)
(* during handover.                                                        *)
THEOREM ExclusionCorrect == ArbSpec => []Exclusion
BY ArbExclusion, ArbInvariant, PTL

(* One server transaction serves one client: none is acknowledged for a    *)
(* transaction the server never began, and none is begun for nobody.       *)
THEOREM ServiceCorrect == ArbSpec => []OneServicePerAck
<1>1. ArbInv => OneServicePerAck
  <2> SUFFICES ASSUME ArbInv PROVE OneServicePerAck
    OBVIOUS
  <2>1. q \in {0, 1} /\ A0 \in {0, 1} /\ A[1] \in {0, 1} /\ A[2] \in {0, 1}
    BY DEF ArbInv, ArbTypeOK, CellTypeOK, Client, Bit
  <2>2. QED
    BY <2>1 DEF ArbInv, ArbFree, ArbBusy, Favours, OneServicePerAck, Client
<1>2. QED
  BY <1>1, ArbInvariant, PTL

LEMMA ArbHandover == ArbInv => CleanHandover
<1>1. ArbInv => Exclusion
  BY ArbExclusion
<1>2. QED
  BY <1>1 DEF ArbInv, ArbFavours, ArbBusy, CleanHandover

(* bd_merge's precondition on the server side: while a grant meets a       *)
(* raised acknowledge, the other client has finished and the decision is   *)
(* the one the grant was made on.                                          *)
THEOREM HandoverCorrect == ArbSpec => []CleanHandover
BY ArbHandover, ArbInvariant, PTL

(* The request the server sees has no glitch: once the OR of the grants is *)
(* to switch, neither a late decision nor a second request calls it back.  *)
THEOREM RequestCorrect == ArbSpec => RequestClean
<1>1. ASSUME ArbInv, [ArbNext]_arbVars PROVE [R0 # Request /\ R0' = R0 => R0' # Request']_arbVars
  <2> SUFFICES ASSUME ArbNext, R0 # Request, R0' = R0, R0' = Request' PROVE FALSE
    BY <1>1
  <2> USE <1>1 DEF ArbInv
  <2>e. /\ \A k \in Client : /\ r[k] \in {0, 1} /\ g[k] \in {0, 1} /\ A[k] \in {0, 1}
                              /\ Other(k) \in Client /\ Other(k) # k /\ Other(Other(k)) = k
                              /\ \A j \in Client : j = k \/ j = Other(k)
        /\ A0 \in {0, 1} /\ q \in {0, 1} /\ R0 \in {0, 1}
        /\ r = [k \in Client |-> r[k]]
        /\ \A k \in Client : Favours(k) <=> ~Favours(Other(k))
    BY Exploded
  <2>f. \E k \in Client : Favours(k)
    BY <2>e DEF Favours, Client
  <2>1. R0 = 0 => Request = 1 /\ A0 = 0
    BY <2>e DEF Request, Grant, ArbBusy
  <2>2. R0 = 1 => Request = 0 /\ A0 = 1
    BY <2>e, <2>f DEF Request, Grant, ArbFree
  <2>3. ASSUME NEW k \in Client, Ask(k) PROVE FALSE
    BY <2>3, <2>1, <2>2, <2>e DEF Ask, cell, Request, Grant, Favours, ArbBusy
  <2>4. ASSUME NEW k \in Client, LetGo(k) PROVE FALSE
    BY <2>4, <2>1, <2>2, <2>e DEF LetGo, cell, Request, Grant, Favours, ArbFree
  <2>5. CASE Gate
    BY <2>5, <2>1, <2>2, <2>e DEF Gate, Decide, Decision, C2, SetRequest, SetGrant, Request, Grant, Favours, Client
  <2>6. CASE \E k \in Client : Serve(k) \/ Finish(k)
    BY <2>6, <2>1, <2>2, <2>e DEF Serve, Finish, SetAnswer, Request, Grant, Favours
  <2>7. CASE ServerBegin \/ ServerEnd
    BY <2>7, <2>1, <2>2, <2>e DEF ServerBegin, ServerEnd, cell, Request, Grant, Favours
  <2>8. QED
    BY <2>3, <2>4, <2>5, <2>6, <2>7 DEF ArbNext
<1>2. QED
  BY <1>1, ArbInvariant, PTL DEF ArbSpec, RequestClean

-----------------------------------------------------------------------------
(* Alternation on the bench.                                               *)

\* A client once overtaken is next: the decision is for it, or is about to be
\* because the other has let go, or the other is the one acknowledged now.
NextInLine(k) == \/ Favours(k)
                 \/ A0 = 0 /\ r[Other(k)] = 0
                 \/ A0 = 1 /\ A[Other(k)] = 1

Overtaken == margin = 1 => \A k \in Client :
               /\ passed[k] <= 1
               /\ Waiting(k) /\ passed[k] = 1 => NextInLine(k)

\* The decision follows the only client that asks.
LEMMA LoneRequest ==
  ASSUME ArbTypeOK, A0 = 0, NEW k \in Client, r[k] = 1, r[Other(k)] = 0
  PROVE  Decision = 2 - k
BY Exploded DEF Decision, C2, Other, Client

\* The decision never turns away from a client that is asking.
LEMMA NoDesertion ==
  ASSUME ArbTypeOK, NEW k \in Client, r[k] = 1, Favours(k), Decide
  PROVE  Favours(k)'
BY Exploded DEF Decide, Decision, C2, Favours, Other, Client

\* Only service of the other raises a client's count, and then by one.
LEMMA OvertakingStep == ASSUME ArbInv, Overtaken, [ArbNext]_arbVars PROVE Overtaken'
<1> USE DEF ArbInv
<1>e. /\ \A k \in Client : /\ r[k] \in {0, 1} /\ g[k] \in {0, 1} /\ A[k] \in {0, 1}
                           /\ passed[k] \in 0..MaxPassed
                           /\ Other(k) \in Client /\ Other(k) # k /\ Other(Other(k)) = k
                           /\ \A j \in Client : j = k \/ j = Other(k)
      /\ r \in [Client -> Bit] /\ A \in [Client -> Bit] /\ passed \in [Client -> 0..MaxPassed]
      /\ A0 \in {0, 1} /\ q \in {0, 1} /\ R0 \in {0, 1}
      /\ \A k \in Client : Favours(k) <=> ~Favours(Other(k))
  BY Exploded DEF ArbTypeOK, CellTypeOK
<1>m. margin' = margin
  BY DEF ArbNext, arbVars, arbHistory, Ask, LetGo, Serve, Finish, Gate, ServerBegin, ServerEnd
<1> SUFFICES ASSUME margin = 1, NEW k \in Client
             PROVE  /\ passed'[k] <= 1
                    /\ Waiting(k)' /\ passed'[k] = 1 => NextInLine(k)'
  BY <1>m DEF Overtaken
<1>o. /\ passed[k] <= 1
      /\ Waiting(k) /\ passed[k] = 1 => NextInLine(k)
  BY DEF Overtaken
<1>1. ASSUME Ask(k) PROVE passed'[k] = 0
  BY <1>1, <1>e DEF Ask
<1>2. ASSUME Ask(Other(k)) PROVE passed'[k] = passed[k] /\ (Waiting(k)' => Waiting(k))
                                 /\ (Waiting(k) /\ NextInLine(k) => NextInLine(k)')
  <2>1. passed'[k] = passed[k] /\ r'[k] = r[k] /\ A' = A /\ A0' = A0 /\ q' = q
    BY <1>2, <1>e DEF Ask, cell
  <2>2. Waiting(k) /\ A0 = 0 /\ r[Other(k)] = 0 => Favours(k)
    BY <1>2, LoneRequest DEF Ask, Waiting, Favours
  <2>3. QED
    BY <2>1, <2>2 DEF Waiting, NextInLine, Favours
<1>3. ASSUME NEW j \in Client, LetGo(j) PROVE passed' = passed /\ (Waiting(k)' => Waiting(k))
                                 /\ (Waiting(k)' /\ NextInLine(k) => NextInLine(k)')
  <2>1. passed' = passed /\ A' = A /\ A0' = A0 /\ q' = q /\ r'[j] = 0
    BY <1>3, <1>e DEF LetGo, cell, arbHistory
  <2>2. \A i \in Client : i # j => r'[i] = r[i]
    BY <1>3, <1>e DEF LetGo
  <2>3. QED
    BY <2>1, <2>2, <1>e DEF Waiting, NextInLine, Favours
<1>4. CASE Serve(k)
  <2>1. A'[k] = 1
    BY <1>4 DEF Serve
  <2>2. passed'[k] = passed[k]
    BY <1>4, <1>e DEF Serve
  <2>3. QED
    BY <2>1, <2>2, <1>o DEF Waiting
<1>5. CASE Serve(Other(k))
  <2>1. A0 = 1 /\ g[Other(k)] = 1 /\ A[Other(k)] = 0 /\ A0' = 1 /\ A'[Other(k)] = 1
    BY <1>5, <1>e DEF Serve, SetAnswer, Answer, C2
  <2>2. ~Favours(k)
    BY <2>1, <1>e DEF ArbFavours
  <2>3. ~(Waiting(k) /\ passed[k] = 1)
    BY <2>1, <2>2, <1>o DEF NextInLine
  <2>4. passed'[k] = IF Waiting(k) /\ passed[k] < MaxPassed THEN passed[k] + 1 ELSE passed[k]
    BY <1>5, <1>e DEF Serve
  <2>5. passed[k] \in 0..1
    BY <1>o, <1>e, ArbiterAssumption
  <2>6. passed'[k] <= 1
    BY <2>3, <2>4, <2>5
  <2>7. NextInLine(k)'
    BY <2>1 DEF NextInLine
  <2>8. QED
    BY <2>6, <2>7
<1>6. ASSUME NEW j \in Client, Finish(j) PROVE passed' = passed /\ (Waiting(k)' => Waiting(k))
                                 /\ (NextInLine(k) => NextInLine(k)')
  <2>1. passed' = passed /\ r' = r /\ A0' = A0 /\ q' = q /\ A0 = 0 /\ A[j] = 1
    BY <1>6, <1>e DEF Finish, SetAnswer, Answer, C2, arbHistory
  <2>2. \A i \in Client : i # j => A'[i] = A[i]
    BY <1>6, <1>e DEF Finish, SetAnswer
  <2>3. r[j] = 0
    BY <2>1 DEF ArbFree
  <2>4. QED
    BY <2>1, <2>2, <2>3, <1>e DEF Waiting, NextInLine, Favours
<1>7. CASE Gate
  <2>1. passed' = passed /\ r' = r /\ A0' = A0 /\ A' = A
    BY <1>7 DEF Gate, Decide, SetRequest, SetGrant, arbHistory
  <2>2. q' = q \/ Decide
    BY <1>7 DEF Gate, SetRequest, SetGrant
  <2>3. Waiting(k) /\ NextInLine(k) => NextInLine(k)'
    BY <2>1, <2>2, NoDesertion DEF NextInLine, Waiting, Favours
  <2>4. QED
    BY <2>1, <2>3, <1>o DEF Waiting
<1>8. ASSUME ServerBegin PROVE passed' = passed /\ (Waiting(k)' <=> Waiting(k))
                                 /\ (NextInLine(k) => NextInLine(k)')
  <2>1. passed' = passed /\ r' = r /\ A' = A /\ q' = q /\ A0 = 0 /\ R0 = 1
    BY <1>8 DEF ServerBegin, cell
  <2>2. r[Other(k)] = 0 => Favours(k)
    BY <2>1, <1>e DEF ArbFree
  <2>3. QED
    BY <2>1, <2>2 DEF Waiting, NextInLine, Favours
<1>9. ASSUME ServerEnd PROVE passed' = passed /\ (Waiting(k)' <=> Waiting(k))
                                 /\ (NextInLine(k) => NextInLine(k)')
  <2>1. passed' = passed /\ r' = r /\ A' = A /\ q' = q /\ A0 = 1 /\ R0 = 0 /\ A0' = 0
    BY <1>9 DEF ServerEnd, cell, arbHistory
  <2>2. ~Favours(k) => r[Other(k)] = 0
    BY <2>1, <1>e DEF ArbBusy
  <2>3. QED
    BY <2>1, <2>2 DEF Waiting, NextInLine, Favours
<1>10. CASE UNCHANGED arbVars
  BY <1>10, <1>o DEF arbVars, cell, arbHistory, Waiting, NextInLine, Favours
<1>11. CASE Gate \/ ServerBegin \/ ServerEnd
  BY <1>11, <1>7, <1>8, <1>9, <1>o
<1>12. ASSUME NEW j \in Client, Ask(j) \/ LetGo(j) \/ Serve(j) \/ Finish(j)
       PROVE  /\ passed'[k] <= 1
              /\ Waiting(k)' /\ passed'[k] = 1 => NextInLine(k)'
  <2>1. j = k \/ j = Other(k)
    BY <1>e
  <2>2. QED
    BY <2>1, <1>12, <1>1, <1>2, <1>3, <1>4, <1>5, <1>6, <1>o
<1>13. QED
  BY <1>10, <1>11, <1>12 DEF ArbNext

(* Under the one arc of margin (a winner asks again only once the decision *)
(* has re-evaluated) a waiting client is overtaken at most once before it  *)
(* is served, however long the server takes and whatever the LUTs' delays. *)
THEOREM OvertakingCorrect == ArbSpec => []BoundedOvertaking
<1>1. ArbInit => Overtaken
  <2> SUFFICES ASSUME ArbInit, NEW k \in Client PROVE passed[k] <= 1 /\ ~(Waiting(k) /\ passed[k] = 1)
    BY DEF Overtaken
  <2>1. passed[k] = 0
    BY DEF ArbInit
  <2>2. QED
    BY <2>1
<1>2. ArbInv /\ Overtaken /\ [ArbNext]_arbVars => Overtaken'
  BY OvertakingStep
<1>3. Overtaken => BoundedOvertaking
  BY DEF Overtaken, BoundedOvertaking
<1>4. QED
  BY <1>1, <1>2, <1>3, ArbInvariant, PTL DEF ArbSpec

-----------------------------------------------------------------------------
(* The memory port: two stations and a gang of RAMs.                       *)

Operands(s) == {i \in DOMAIN Operand : Operand[i] = s}

-----------------------------------------------------------------------------
(* The inductive invariant.                                                *)

\* The port, as ArbInv has it of any client and server; the clients here let
\* go at their own time and the server is a gang of clocks and RAMs.
Up  == \E b \in Gang : clk[b] = 1
Low == \E b \in Gang : clk[b] = 0

GrantsFavour == \A k \in Station : g[k] = 1 => Favours(k)

Free == /\ \A k \in Station : /\ A[k] = 1 => r[k] = 0 /\ g[k] = 0 /\ A[Other(k)] = 0
                              /\ g[k] = 1 => r[k] = 1
                              /\ R0 = 1 /\ Favours(k) => r[k] = 1
                              /\ Up /\ Favours(k) => g[k] = 1
        /\ Up => R0 = 1

Busy == /\ \A k \in Station : Favours(k) => /\ A[Other(k)] = 0
                                            /\ A[k] = 0 => r[k] = 1
                                            /\ r[k] = 1 => g[k] = 1 /\ R0 = 1
        /\ Low => R0 = 0

Port == GrantsFavour /\ (A0 = 0 => Free) /\ (A0 = 1 => Busy)

\* A RAM acknowledges what its clock has done since the gang last did.
Answers == \A b \in Gang : ram_ack[b] # A0 => clk[b] # A0

\* A station: at rest nothing of an access is left anywhere; until the access
\* is done nobody has taken it; afterwards the claim on the port only falls;
\* operands stay for as long as they are not acknowledged.
Cycle(s) == /\ joined[s] = 0 /\ done[s] = 0 /\ hold[s] = 0 =>
                 r[s] = 0 /\ A[s] = 0 /\ ZAck(s) = 0
            /\ joined[s] = 1 /\ done[s] = 0 =>
                 ZAck(s) = 0 /\ hold[s] = 0 /\ (A[s] = 1 => r[s] = 1)
            /\ (done[s] = 1 \/ hold[s] = 1) /\ r[s] = 1 => A[s] = 1
            /\ joined[s] = 1 /\ hold[s] = 0 => \A i \in Operands(s) : req[i] = 1
            /\ hold[s] = 1 /\ done[s] = 1 => ZAck(s) = 1
            /\ joined[s] = 0 /\ done[s] = 1 => hold[s] = 1
            /\ joined[s] = 0 /\ hold[s] = 1 => \A i \in Operands(s) : req[i] = 0

\* The token: a load is under way only while the store before it is done, and
\* has let go of it only when the store has taken it back.
Chain == chained = 1 =>
           /\ joined[Load] = 1 /\ hold[Load] = 0 => joined[Store] = 1 /\ done[Store] = 1
           /\ hold[Load] = 1 /\ joined[Load] = 0 => done[Store] = 0

\* An access has its edge of a RAM once that RAM's clock has risen for it.
Spent(s) == \A b \in Gang :
              /\ joined[s] = 1 /\ done[s] = 0 =>
                   edges[b][s] = IF Favours(s) /\ clk[b] = 1 THEN 1 ELSE 0
              /\ done[s] = 1 => edges[b][s] = 1

\* A RAM is behind program order by at most the store under way.
Written == \A b \in Gang : IF joined[Store] = 1 /\ done[Store] = 0 /\ edges[b][Store] = 0
                           THEN spec = [mem[b] EXCEPT ![addr[Store]] = wdata]
                           ELSE spec = mem[b]

Seen == \A b \in Gang :
          chained = 1 /\ (\/ done[Load] = 1 \/ zack[Load] = 1
                          \/ joined[Load] = 1 /\ edges[b][Load] = 1) => rdata[b] = spec[addr[Load]]

Stations == \A s \in Station : Cycle(s)
Edges == \A s \in Station : Spent(s)

IInv == TypeOK /\ Port /\ Answers /\ Stations /\ Chain /\ Edges /\ Written /\ Seen

-----------------------------------------------------------------------------
(* Types, for two stations and four operands.                              *)

LEMMA Names ==
  /\ DOMAIN Operand = {"tok", "sa", "sd", "la"}
  /\ Operand["tok"] = Store /\ Operand["sa"] = Store /\ Operand["sd"] = Store
  /\ Operand["la"] = Load
  /\ Operands(Store) = {"tok", "sa", "sd"} /\ Operands(Load) = {"la"}
  /\ \A i \in DOMAIN Operand : Operand[i] \in Station /\ i \in Operands(Operand[i])
  /\ \A s \in Station : \A i \in Operands(s) : i \in DOMAIN Operand
<1>1. DOMAIN Operand = {"tok", "sa", "sd", "la"}
  BY DEF Operand
<1>2. /\ Operand["tok"] = Store /\ Operand["sa"] = Store /\ Operand["sd"] = Store
      /\ Operand["la"] = Load
  BY DEF Operand
<1>3. Store # Load
  BY DEF Store, Load
<1>4. QED
  BY <1>1, <1>2, <1>3 DEF Operands, Station

LEMMA Pair ==
  /\ Station = Client /\ Store \in Station /\ Load \in Station /\ Store # Load
  /\ \A k \in Station : /\ Other(k) \in Station /\ Other(k) # k /\ Other(Other(k)) = k
                        /\ \A j \in Station : j = k \/ j = Other(k)
  /\ \A k \in Station : k = Store \/ k = Load
BY DEF Station, Client, Store, Load, Other

LEMMA Bits ==
  ASSUME TypeOK
  PROVE  /\ \A s \in Station : /\ joined[s] \in {0, 1} /\ done[s] \in {0, 1} /\ hold[s] \in {0, 1}
                               /\ r[s] \in {0, 1} /\ g[s] \in {0, 1} /\ A[s] \in {0, 1}
                               /\ zack[s] \in {0, 1} /\ ZAck(s) \in {0, 1}
         /\ \A i \in DOMAIN Operand : req[i] \in {0, 1}
         /\ A0 \in {0, 1} /\ q \in {0, 1} /\ R0 \in {0, 1}
         /\ \A b \in Gang : clk[b] \in {0, 1} /\ ram_ack[b] \in {0, 1}
         /\ chained \in {0, 1}
         /\ \A k \in Station : Favours(k) <=> ~Favours(Other(k))
         /\ \E k \in Station : Favours(k)
<1>1. /\ \A s \in Station : /\ joined[s] \in {0, 1} /\ done[s] \in {0, 1} /\ hold[s] \in {0, 1}
                            /\ r[s] \in {0, 1} /\ g[s] \in {0, 1} /\ A[s] \in {0, 1}
                            /\ zack[s] \in {0, 1}
      /\ \A i \in DOMAIN Operand : req[i] \in {0, 1}
      /\ A0 \in {0, 1} /\ q \in {0, 1} /\ R0 \in {0, 1}
      /\ \A b \in Gang : clk[b] \in {0, 1} /\ ram_ack[b] \in {0, 1}
      /\ chained \in {0, 1}
  BY Pair DEF TypeOK, CellTypeOK, Bit
<1>2. \A s \in Station : ZAck(s) \in {0, 1}
  BY <1>1, Pair DEF ZAck
<1>3. /\ \A k \in Station : Favours(k) <=> ~Favours(Other(k))
      /\ \E k \in Station : Favours(k)
  BY <1>1 DEF Favours, Other, Station, Store, Load
<1>4. QED
  BY <1>1, <1>2, <1>3

LEMMA Luts ==
  ASSUME TypeOK
  PROVE  /\ Decision \in Bit /\ Request \in Bit /\ Gathered \in Bit
         /\ \A s \in Station : /\ Grant(s) \in Bit /\ Answer(s) \in Bit /\ Done(s) \in Bit
                               /\ Claim(s) \in Bit /\ Hold(s) \in Bit
BY Bits, Pair DEF Decision, Request, Gathered, Grant, Answer, Done, Claim, Hold, C2, Bit, Client

\* What a station's join has seen when it moves.
LEMMA JoinSaw ==
  ASSUME NEW s \in Station, NEW v, Arrived(s) = {v}
  PROVE  /\ \A i \in Operands(s) : req[i] = v
         /\ s = Load /\ chained = 1 => done[Store] = v
BY Names DEF Arrived, Given, Operands

LEMMA TypeStep == ASSUME TypeOK, [Next]_vars PROVE TypeOK'
<1>1. ASSUME NEW i \in DOMAIN Operand, Offer(i) PROVE TypeOK'
  <2>1. addr' \in [Station -> Addr] /\ wdata' \in Word
    BY <1>1 DEF Offer, TypeOK
  <2>2. QED
    BY <1>1, <2>1 DEF Offer, cell, stations, ram, history, TypeOK, CellTypeOK, Bit
<1>2. ASSUME NEW i \in DOMAIN Operand, Withdraw(i) PROVE TypeOK'
  BY <1>2 DEF Withdraw, cell, stations, ram, history, TypeOK, CellTypeOK, Bit
<1>3. ASSUME NEW s \in Station, Consume(s) PROVE TypeOK'
  BY <1>3 DEF Consume, cell, stations, ram, history, TypeOK, CellTypeOK
<1>4. ASSUME NEW s \in Station, Join(s) PROVE TypeOK'
  <2>1. joined' \in [Station -> Bit]
    BY <1>4, Bits DEF Join, TypeOK, Bit
  <2>2. spec' \in [Addr -> Word]
    BY <1>4 DEF Join, TypeOK, history
  <2>3. edges' \in [Gang -> [Station -> 0..MaxEdges]]
    <3>1. CASE joined[s] = 0
      <4>1. edges' = [b \in Gang |-> [edges[b] EXCEPT ![s] = 0]]
        BY <1>4, <3>1 DEF Join
      <4>2. 0 \in 0..MaxEdges
        BY MemAssumption
      <4>3. QED
        BY <4>1, <4>2 DEF TypeOK
    <3>2. CASE joined[s] # 0
      BY <1>4, <3>2 DEF Join, TypeOK, history
    <3>3. QED
      BY <3>1, <3>2
  <2>4. QED
    BY <1>4, <2>1, <2>2, <2>3 DEF Join, cell, ram, env, TypeOK, CellTypeOK
<1>5. ASSUME NEW s \in Station, SetDone(s) \/ SetClaim(s) \/ SetHold(s) PROVE TypeOK'
  <2>1. /\ done' \in [Station -> Bit] /\ hold' \in [Station -> Bit] /\ r' \in [Station -> Bit]
        /\ joined' = joined /\ UNCHANGED <<cell, A0>>
    <3>1. CASE SetDone(s)
      BY <3>1, Luts DEF SetDone, TypeOK
    <3>2. CASE SetClaim(s)
      BY <3>2, Luts, Pair DEF SetClaim, stations, TypeOK
    <3>3. CASE SetHold(s)
      BY <3>3, Luts DEF SetHold, TypeOK
    <3>4. QED
      BY <1>5, <3>1, <3>2, <3>3
  <2>2. UNCHANGED <<ram, env, history>>
    BY <1>5 DEF SetDone, SetClaim, SetHold
  <2>3. QED
    BY <2>1, <2>2 DEF cell, ram, env, history, TypeOK, CellTypeOK
<1>6. CASE Arbitrate
  <2>1. CellTypeOK'
    <3>1. CASE Decide \/ SetRequest
      BY <3>1, Luts DEF Decide, SetRequest, TypeOK, CellTypeOK
    <3>2. ASSUME NEW s \in Station, SetGrant(s) \/ SetAnswer(s) PROVE CellTypeOK'
      <4>1. CASE SetGrant(s)
        BY <4>1, Luts, Pair DEF SetGrant, TypeOK, CellTypeOK
      <4>2. CASE SetAnswer(s)
        BY <4>2, Luts, Pair DEF SetAnswer, TypeOK, CellTypeOK
      <4>3. QED
        BY <3>2, <4>1, <4>2
    <3>3. QED
      BY <1>6, <3>1, <3>2 DEF Arbitrate
  <2>2. UNCHANGED <<r, A0, stations, ram, env, history>>
    BY <1>6 DEF Arbitrate
  <2>3. QED
    BY <2>1, <2>2 DEF stations, ram, env, history, TypeOK
<1>7. ASSUME NEW b \in Gang, ClockRise(b) PROVE TypeOK'
  <2>1. PICK s \in Station :
          /\ mem' = IF s = Store THEN [mem EXCEPT ![b][addr[s]] = wdata] ELSE mem
          /\ rdata' = [rdata EXCEPT ![b] = mem'[b][addr[s]]]
          /\ edges' = [edges EXCEPT ![b][s] = IF @ < MaxEdges THEN @ + 1 ELSE @]
    BY <1>7 DEF ClockRise
  <2>2. mem' \in [Gang -> [Addr -> Word]]
    BY <2>1 DEF TypeOK
  <2>3. rdata' \in [Gang -> Word]
    BY <2>1, <2>2 DEF TypeOK
  <2>4. edges' \in [Gang -> [Station -> 0..MaxEdges]]
    BY <2>1, MemAssumption DEF TypeOK
  <2>5. QED
    BY <1>7, <2>2, <2>3, <2>4 DEF ClockRise, cell, stations, env, TypeOK, CellTypeOK, Bit
<1>8. ASSUME NEW b \in Gang, ClockFall(b) \/ RamAck(b) PROVE TypeOK'
  <2>1. clk' \in [Gang -> Bit] /\ ram_ack' \in [Gang -> Bit]
    <3>1. CASE ClockFall(b)
      BY <3>1 DEF ClockFall, TypeOK, Bit
    <3>2. CASE RamAck(b)
      BY <3>2 DEF RamAck, TypeOK
    <3>3. QED
      BY <1>8, <3>1, <3>2
  <2>2. QED
    BY <1>8, <2>1 DEF ClockFall, RamAck, cell, stations, env, history, TypeOK, CellTypeOK
<1>x. CASE GangAck
  BY <1>x, Luts DEF GangAck, cell, stations, ram, env, history, TypeOK, CellTypeOK
<1>9. CASE UNCHANGED vars
  BY <1>9 DEF vars, cell, stations, ram, env, history, TypeOK, CellTypeOK
<1>10. QED
  BY <1>1, <1>2, <1>3, <1>4, <1>5, <1>6, <1>7, <1>8, <1>x, <1>9 DEF Next

-----------------------------------------------------------------------------
(* The environment and the station leave the port alone but for a claim.   *)

LEMMA ClocksStay == UNCHANGED clk => Up' = Up /\ Low' = Low
BY DEF Up, Low

LEMMA PortStays ==
  ASSUME Port, UNCHANGED <<cell, r, A0, clk>>
  PROVE  Port'
BY DEF Port, GrantsFavour, Free, Busy, Up, Low, Favours, cell

LEMMA AnswersStay ==
  ASSUME Answers, UNCHANGED <<A0, clk, ram_ack>>
  PROVE  Answers'
BY DEF Answers

LEMMA EdgesStay ==
  ASSUME Edges, UNCHANGED <<q, clk, joined, done, edges>>
  PROVE  Edges'
BY DEF Edges, Spent, Favours

LEMMA WrittenStays ==
  ASSUME Written, UNCHANGED <<joined, done, edges, spec, mem, addr, wdata>>
  PROVE  Written'
BY DEF Written

LEMMA SeenStays ==
  ASSUME Seen, UNCHANGED <<chained, joined, done, edges, zack, spec, rdata, addr>>
  PROVE  Seen'
BY DEF Seen

LEMMA StationsStay ==
  ASSUME Stations, UNCHANGED <<r, A, req, zack, chained, joined, done, hold>>
  PROVE  Stations'
BY DEF Stations, Cycle, ZAck

LEMMA ChainStays ==
  ASSUME Chain, UNCHANGED <<chained, joined, done, hold>>
  PROVE  Chain'
BY DEF Chain

LEMMA OfferStep ==
  ASSUME IInv, NEW i \in DOMAIN Operand, Offer(i)
  PROVE  Port' /\ Stations' /\ Chain' /\ Edges' /\ Written' /\ Seen'
<1> USE DEF IInv
<1> DEFINE s == Operand[i]
<1>1. s \in Station /\ i \in Operands(s) /\ req[i] = 0 /\ hold[s] = 0
  BY Names DEF Offer
<1>2. joined[s] = 0 /\ done[s] = 0 /\ ZAck(s) = 0
  BY <1>1, Bits DEF Stations, Cycle
<1>3. Port' /\ Edges' /\ Chain'
  BY PortStays, EdgesStay, ChainStays DEF Offer, cell, stations, ram, history
<1>4. \A k \in Station : k # s => addr'[k] = addr[k]
  BY <1>1 DEF Offer, TypeOK
<1>5. Stations'
  <2>1. \A k \in Station : \A j \in Operands(k) : j # i => req'[j] = req[j]
    BY DEF Offer, TypeOK
  <2>2. \A k \in Station : k # s => i \notin Operands(k)
    BY DEF Operands
  <2>3. ASSUME NEW k \in Station PROVE Cycle(k)'
    <3>1. ZAck(k)' = ZAck(k)
      BY DEF Offer, ZAck, stations
    <3>2. CASE k = s
      BY <1>1, <1>2, <3>1, <3>2 DEF Offer, stations, cell, Cycle, Stations
    <3>3. CASE k # s
      BY <2>1, <2>2, <3>1, <3>3 DEF Offer, stations, cell, Cycle, Stations
    <3>4. QED
      BY <3>2, <3>3
  <2>4. QED
    BY <2>3 DEF Stations
<1>6. Written'
  <2>1. CASE s = Store
    BY <1>2, <2>1 DEF Offer, Written, stations, ram, history
  <2>2. CASE s # Store
    <3>1. i = "la"
      BY <1>1, <2>2, Names
    <3>2. wdata' = wdata /\ addr'[Store] = addr[Store]
      BY <1>4, <2>2, <3>1, Pair DEF Offer
    <3>3. QED
      BY <3>2 DEF Offer, Written, stations, ram, history
  <2>3. QED
    BY <2>1, <2>2
<1>7. Seen'
  <2>1. CASE s = Load
    <3>1. zack[Load] = 0
      BY <1>2, <2>1, Pair DEF ZAck
    <3>2. QED
      BY <1>2, <2>1, <3>1 DEF Offer, Seen, stations, ram, history
  <2>2. CASE s # Load
    BY <1>4, <2>2, Pair DEF Offer, Seen, stations, ram, history
  <2>3. QED
    BY <2>1, <2>2
<1>8. QED
  BY <1>3, <1>5, <1>6, <1>7

LEMMA WithdrawStep ==
  ASSUME IInv, NEW i \in DOMAIN Operand, Withdraw(i)
  PROVE  Port' /\ Stations' /\ Chain' /\ Edges' /\ Written' /\ Seen'
<1> USE DEF IInv
<1>1. Port' /\ Edges' /\ Chain' /\ Written' /\ Seen'
  BY PortStays, EdgesStay, ChainStays, WrittenStays, SeenStays DEF Withdraw, cell, stations, ram, history
<1>2. ASSUME NEW k \in Station PROVE Cycle(k)'
  <2>1. ZAck(k)' = ZAck(k)
    BY DEF Withdraw, ZAck, stations
  <2>2. \A j \in Operands(k) : req'[j] = IF j = i THEN 0 ELSE req[j]
    BY Names DEF Withdraw, TypeOK
  <2>3. i \in Operands(k) => hold[k] = 1
    BY DEF Withdraw, Operands
  <2>4. QED
    BY <2>1, <2>2, <2>3, Bits DEF Withdraw, stations, cell, Cycle, Stations
<1>3. QED
  BY <1>1, <1>2 DEF Stations

LEMMA ConsumeStep ==
  ASSUME IInv, NEW s \in Station, Consume(s)
  PROVE  Port' /\ Stations' /\ Chain' /\ Edges' /\ Written' /\ Seen'
<1> USE DEF IInv
<1>1. Port' /\ Edges' /\ Chain' /\ Written'
  BY PortStays, EdgesStay, ChainStays, WrittenStays DEF Consume, cell, stations, ram, history
<1>2. ASSUME NEW k \in Station PROVE Cycle(k)'
  <2>1. CASE k = s
    <3>1. ZAck(k)' = done[k]
      BY <2>1, Pair DEF Consume, ZAck, TypeOK
    <3>2. QED
      BY <3>1, Bits DEF Consume, stations, cell, Cycle, Stations
  <2>2. CASE k # s
    <3>1. ZAck(k)' = ZAck(k)
      BY <2>2, Pair DEF Consume, ZAck, TypeOK, stations
    <3>2. QED
      BY <3>1 DEF Consume, stations, cell, Cycle, Stations
  <2>3. QED
    BY <2>1, <2>2
<1>3. Seen'
  BY Bits, Pair DEF Consume, Seen, TypeOK, stations, ram, history
<1>4. QED
  BY <1>1, <1>2, <1>3 DEF Stations

LEMMA JoinStep ==
  ASSUME IInv, NEW s \in Station, Join(s)
  PROVE  Port' /\ Stations' /\ Chain' /\ Edges' /\ Written' /\ Seen'
<1> USE DEF IInv
<1>1. /\ \A i \in Operands(s) : req[i] = 1 - joined[s]
      /\ s = Load /\ chained = 1 => done[Store] = 1 - joined[s]
  BY JoinSaw DEF Join
<1>2. \E i \in Operands(s) : TRUE
  BY Names, Pair
<1>3. joined[s] = 0 => done[s] = 0 /\ hold[s] = 0 /\ r[s] = 0 /\ A[s] = 0 /\ ZAck(s) = 0
  BY <1>1, <1>2, Bits DEF Stations, Cycle
<1>4. joined[s] = 1 => hold[s] = 1 /\ done[s] = 1 /\ ZAck(s) = 1
  BY <1>1, <1>2, Bits DEF Stations, Cycle
<1>5. /\ joined'[s] = 1 - joined[s]
      /\ \A k \in Station : k # s => joined'[k] = joined[k]
      /\ \A k \in Station : ZAck(k)' = ZAck(k)
      /\ joined[s] = 0 => \A b \in Gang :
                          /\ edges'[b][s] = 0
                          /\ \A k \in Station : k # s => edges'[b][k] = edges[b][k]
      /\ joined[s] = 1 => UNCHANGED history
  BY DEF Join, TypeOK, ZAck, env
<1>6. Port'
  BY PortStays DEF Join, ram
<1>7. ASSUME NEW k \in Station PROVE Cycle(k)'
  <2>1. CASE k = s
    BY <1>1, <1>3, <1>4, <1>5, <2>1, Bits DEF Join, Cycle, Stations, cell, env
  <2>2. CASE k # s
    BY <1>5, <2>2, Bits DEF Join, Cycle, Stations, cell, env
  <2>3. QED
    BY <2>1, <2>2
<1>8. Chain'
  <2>1. CASE s = Load
    <3>1. chained = 1 /\ joined[s] = 0 => joined[Store] = 1
      BY <1>1, <1>3, <2>1, Bits, Pair DEF Stations, Cycle, ZAck
    <3>2. QED
      BY <1>1, <1>3, <1>4, <1>5, <2>1, <3>1, Bits, Pair DEF Join, Chain, env
  <2>2. CASE s = Store
    BY <1>1, <1>3, <1>4, <1>5, <2>2, Bits, Pair DEF Join, Chain, ZAck, env
  <2>3. QED
    BY <2>1, <2>2, Pair
<1>9. ASSUME NEW k \in Station PROVE Spent(k)'
  <2>1. CASE k = s
    <3>1. joined[s] = 0 => ~(Favours(s) /\ Up)
      BY <1>3, Bits DEF Port, Free, Busy
    <3>2. QED
      BY <1>3, <1>4, <1>5, <2>1, <3>1, Bits DEF Join, Spent, Edges, Up, Favours, cell, ram, history
  <2>2. CASE k # s
    BY <1>5, <2>2, Bits DEF Join, Spent, Edges, Favours, cell, ram, history
  <2>3. QED
    BY <2>1, <2>2
<1>10. Written'
  <2>1. CASE s = Store /\ joined[s] = 0
    BY <1>3, <1>5, <2>1 DEF Join, Written, ram, env
  <2>2. CASE s = Store /\ joined[s] = 1
    BY <1>4, <1>5, <2>2 DEF Join, Written, ram, env, history
  <2>3. CASE s = Load
    BY <1>5, <2>3, Pair, Bits DEF Join, Written, ram, env, history
  <2>4. QED
    BY <2>1, <2>2, <2>3, Bits, Pair
<1>11. Seen'
  <2>1. CASE s = Load
    BY <1>3, <1>4, <1>5, <2>1, Pair, Bits DEF Join, Seen, ram, env, history, ZAck
  <2>2. CASE s = Store
    <3>1. joined[s] = 0 /\ chained = 1 => joined[Load] = 0 /\ hold[Load] = 0 /\ done[Load] = 0 /\ zack[Load] = 0
      BY <1>3, <2>2, Pair, Bits DEF Chain, ZAck, Stations, Cycle
    <3>2. QED
      BY <1>5, <2>2, <3>1, Pair, Bits DEF Join, Seen, ram, env, history
  <2>3. QED
    BY <2>1, <2>2, Pair
<1>12. QED
  BY <1>6, <1>7, <1>8, <1>9, <1>10, <1>11 DEF Stations, Edges

LEMMA DoneStep ==
  ASSUME IInv, NEW s \in Station, SetDone(s)
  PROVE  Port' /\ Stations' /\ Chain' /\ Edges' /\ Written' /\ Seen'
<1> USE DEF IInv
<1>1. /\ done'[s] = 1 - done[s]
      /\ \A k \in Station : k # s => done'[k] = done[k]
      /\ \A k \in Station : ZAck(k)' = ZAck(k)
  BY Bits, Luts DEF SetDone, TypeOK, ZAck, env, Bit
<1>2. Port'
  BY PortStays DEF SetDone, ram
<1>3. CASE done[s] = 0
  <2>1. joined[s] = 1 /\ A[s] = 1 /\ r[s] = 1 /\ hold[s] = 0 /\ ZAck(s) = 0
    BY <1>3, Bits DEF SetDone, Done, Stations, Cycle
  <2>2. Favours(s) /\ ~Low
    BY <2>1, Bits, Pair DEF Port, Free, Busy
  <2>3. \A b \in Gang : edges[b][s] = 1
    BY <1>3, <2>1, <2>2, Bits DEF Edges, Spent, Low
  <2>4. ASSUME NEW k \in Station PROVE Cycle(k)'
    BY <1>1, <1>3, <2>1, Bits DEF SetDone, Cycle, Stations, cell, env
  <2>5. ASSUME NEW k \in Station PROVE Spent(k)'
    BY <1>1, <1>3, <2>1, <2>3, Bits DEF SetDone, Spent, Edges, Favours, cell, ram, history
  <2>6. Chain'
    BY <1>1, <1>3, <2>1, Bits, Pair DEF SetDone, Chain, ZAck, env
  <2>7. Written'
    BY <1>1, <1>3, <2>1, <2>3, Bits, Pair DEF SetDone, Written, ram, env, history
  <2>8. Seen'
    BY <1>1, <1>3, <2>1, <2>3, Bits, Pair DEF SetDone, Seen, ram, env, history
  <2>9. QED
    BY <1>2, <2>4, <2>5, <2>6, <2>7, <2>8 DEF Stations, Edges
<1>4. CASE done[s] = 1
  <2>1. joined[s] = 0 /\ hold[s] = 1 /\ ZAck(s) = 1
    BY <1>4, Bits DEF SetDone, Done, Stations, Cycle
  <2>2. ASSUME NEW k \in Station PROVE Cycle(k)'
    BY <1>1, <1>4, <2>1, Bits DEF SetDone, Cycle, Stations, cell, env
  <2>3. ASSUME NEW k \in Station PROVE Spent(k)'
    BY <1>1, <1>4, <2>1, Bits DEF SetDone, Spent, Edges, Favours, cell, ram, history
  <2>4. Chain'
    BY <1>1, <1>4, <2>1, Bits, Pair DEF SetDone, Chain, env
  <2>5. Written'
    BY <1>1, <1>4, <2>1, Bits, Pair DEF SetDone, Written, ram, env, history
  <2>6. Seen'
    BY <1>1, <1>4, <2>1, Bits, Pair DEF SetDone, Seen, ram, env, history
  <2>7. QED
    BY <1>2, <2>2, <2>3, <2>4, <2>5, <2>6 DEF Stations, Edges
<1>5. QED
  BY <1>3, <1>4, Bits

\* A claim is made at rest, and dropped only once the RAM has acknowledged it.
LEMMA ClaimStep ==
  ASSUME IInv, NEW s \in Station, SetClaim(s)
  PROVE  Port' /\ Stations' /\ Chain' /\ Edges' /\ Written' /\ Seen'
<1> USE DEF IInv
<1>1. /\ r'[s] = 1 - r[s]
      /\ \A k \in Station : k # s => r'[k] = r[k]
      /\ \A k \in Station : ZAck(k)' = ZAck(k) /\ (Favours(k)' <=> Favours(k))
  BY Bits, Luts DEF SetClaim, TypeOK, ZAck, env, Bit, stations, cell, Favours
<1>2. Chain' /\ Edges' /\ Written' /\ Seen'
  BY ChainStays, EdgesStay, WrittenStays, SeenStays DEF SetClaim, cell, stations, ram, env, history
<1>3. r[s] = 0 => joined[s] = 1 /\ done[s] = 0 /\ hold[s] = 0 /\ A[s] = 0
  BY Bits DEF SetClaim, Claim, Stations, Cycle
<1>4. r[s] = 1 => A[s] = 1 /\ ~(joined[s] = 1 /\ done[s] = 0)
  BY Bits DEF SetClaim, Claim, Stations, Cycle
<1>5. Port'
  <2>1. GrantsFavour'
    BY <1>1 DEF SetClaim, cell, Port, GrantsFavour
  <2>2. A0 = 0 => Free'
    BY ClocksStay, <1>1, <1>3, <1>4, Bits, Pair DEF SetClaim, cell, ram, Port, Free
  <2>3. A0 = 1 => Busy'
    BY ClocksStay, <1>1, <1>3, <1>4, Bits, Pair DEF SetClaim, cell, ram, Port, Busy
  <2>4. QED
    BY <2>1, <2>2, <2>3 DEF SetClaim, Port
<1>6. ASSUME NEW k \in Station PROVE Cycle(k)'
  BY <1>1, <1>3, <1>4, Bits DEF SetClaim, Cycle, Stations, cell, env, stations
<1>7. QED
  BY <1>2, <1>5, <1>6 DEF Stations

LEMMA HoldStep ==
  ASSUME IInv, NEW s \in Station, SetHold(s)
  PROVE  Port' /\ Stations' /\ Chain' /\ Edges' /\ Written' /\ Seen'
<1> USE DEF IInv
<1>1. /\ hold'[s] = 1 - hold[s]
      /\ \A k \in Station : k # s => hold'[k] = hold[k]
      /\ ZAck(s)' = ZAck(s)
      /\ ZAck(Load)' = ZAck(Load)
      /\ s = Load /\ chained = 1 => ZAck(Store) = hold[s] /\ ZAck(Store)' = 1 - hold[s]
      /\ ~(s = Load /\ chained = 1) => ZAck(Store)' = ZAck(Store)
  BY Bits, Luts, Pair DEF SetHold, TypeOK, ZAck, env, Bit
<1>2. Port' /\ Edges' /\ Written' /\ Seen'
  <2>1. /\ UNCHANGED cell /\ UNCHANGED <<r, A0, clk, joined, done, edges>>
        /\ UNCHANGED <<mem, rdata, addr, wdata, spec, chained, zack>>
    BY DEF SetHold, ram, env, history
  <2>2. Port'
    BY <2>1, PortStays
  <2>3. Edges'
    BY <2>1, EdgesStay DEF cell
  <2>4. Written'
    BY <2>1, WrittenStays
  <2>5. Seen'
    BY <2>1, SeenStays
  <2>6. QED
    BY <2>2, <2>3, <2>4, <2>5
<1>3. hold[s] = 0 => joined[s] = 1 /\ done[s] = 1 /\ ZAck(s) = 1
  BY Bits DEF SetHold, Hold, Stations, Cycle
<1>4. hold[s] = 1 => joined[s] = 0 /\ done[s] = 0 /\ ZAck(s) = 0 /\ A[s] = 0 /\ r[s] = 0
  BY Bits DEF SetHold, Hold, Stations, Cycle
<1>5. Chain'
  BY <1>1, <1>3, <1>4, Bits, Pair DEF SetHold, Chain, env
<1>6. Cycle(s)'
  BY <1>1, <1>3, <1>4, Bits DEF SetHold, Cycle, Stations, cell, env
<1>7. ASSUME NEW k \in Station, k # s PROVE Cycle(k)'
  <2>1. CASE ZAck(k)' = ZAck(k)
    BY <1>1, <1>7, <2>1, Bits DEF SetHold, Cycle, Stations, cell, env
  <2>2. CASE ZAck(k)' # ZAck(k)
    <3>1. k = Store /\ s = Load /\ chained = 1
      BY <1>1, <1>7, <2>2, Pair
    <3>2. hold[s] = 0 => joined[Store] = 1 /\ done[Store] = 1
      BY <1>3, <3>1 DEF Chain
    <3>3. hold[s] = 1 => done[Store] = 0 /\ joined[Store] = 0 /\ hold[Store] = 1
      BY <1>1, <1>4, <3>1, Bits, Pair DEF Chain, Stations, Cycle
    <3>4. QED
      BY <1>1, <1>7, <3>1, <3>2, <3>3, Bits DEF SetHold, Cycle, Stations, cell, env
  <2>3. QED
    BY <2>1, <2>2
<1>8. QED
  BY <1>2, <1>5, <1>6, <1>7 DEF Stations

-----------------------------------------------------------------------------
(* The port leaves the stations alone but for an acknowledge.              *)

LEMMA ArbitrateStep ==
  ASSUME IInv, Arbitrate
  PROVE  Port' /\ Stations' /\ Chain' /\ Edges' /\ Written' /\ Seen'
<1> USE DEF IInv
<1>1. Chain' /\ Written' /\ Seen'
  BY ChainStays, WrittenStays, SeenStays DEF Arbitrate, stations, ram, env, history
<1>2. UNCHANGED <<r, A0, clk, joined, done, hold, req, zack, chained, edges>>
  BY DEF Arbitrate, stations, ram, env, history
<1>3. CASE Decide
  <2>1. A0 = 0 /\ \A k \in Station : Favours(k) => r[k] = 0
    BY <1>3, Bits, Pair DEF Decide, Decision, C2, Favours, Store, Load, Station
  <2>2. R0 = 0 /\ ~Up /\ \A k \in Station : g[k] = 0
    BY <2>1, Bits DEF Port, GrantsFavour, Free
  <2>3. Port'
    BY ClocksStay, <1>2, <1>3, <2>1, <2>2 DEF Decide, Port, GrantsFavour, Free
  <2>4. Stations'
    BY StationsStay, <1>2, <1>3 DEF Decide
  <2>5. Edges'
    BY <1>2, <2>2 DEF Edges, Spent, Up
  <2>6. QED
    BY <1>1, <2>3, <2>4, <2>5
<1>4. CASE SetRequest
  <2>1. Stations' /\ Edges'
    BY StationsStay, EdgesStay, <1>2, <1>4 DEF SetRequest
  <2>2. R0 = 0 => \E k \in Station : R0' = 1 /\ r[k] = 1 /\ Favours(k)
    BY <1>4, Pair DEF SetRequest, Request, Grant
  <2>3. R0 = 1 => R0' = 0 /\ \A k \in Station : Favours(k) => r[k] = 0
    BY <1>4, Bits, Pair DEF SetRequest, Request, Grant
  <2>4. \A k \in Station : Favours(k)' <=> Favours(k)
    BY <1>4 DEF SetRequest, Favours
  <2>5. GrantsFavour'
    BY <1>4, <2>4 DEF SetRequest, Port, GrantsFavour
  <2>6. CASE A0 = 0
    <3>1. R0 = 1 => ~Up
      BY <2>3, <2>6, Bits DEF Port, Free
    <3>2. Free'
      BY ClocksStay, <1>2, <1>4, <2>2, <2>3, <2>4, <2>6, <3>1, Bits, Pair DEF SetRequest, Port, Free
    <3>3. QED
      BY <1>1, <1>2, <2>1, <2>5, <2>6, <3>2 DEF Port
  <2>7. CASE A0 = 1
    <3>1. R0 = 1
      BY <2>2, <2>7, Bits DEF Port, Busy
    <3>2. Busy'
      BY ClocksStay, <1>2, <1>4, <2>3, <2>4, <2>7, <3>1, Bits DEF SetRequest, Port, Busy
    <3>3. QED
      BY <1>1, <1>2, <2>1, <2>5, <2>7, <3>2 DEF Port
  <2>8. QED
    BY <2>6, <2>7, Bits
<1>5. ASSUME NEW s \in Station, SetGrant(s) PROVE Port' /\ Stations' /\ Edges'
  <2>1. Stations' /\ Edges'
    BY StationsStay, EdgesStay, <1>2, <1>5 DEF SetGrant
  <2>2. /\ g'[s] = Grant(s) /\ g[s] = 1 - Grant(s)
        /\ \A k \in Station : k # s => g'[k] = g[k]
        /\ \A k \in Station : Favours(k)' <=> Favours(k)
    <3>1. \A k \in Station : k # s => g'[k] = g[k]
      BY <1>5, Pair DEF SetGrant, TypeOK, CellTypeOK
    <3>2. g'[s] = Grant(s) /\ g[s] # Grant(s) /\ UNCHANGED q
      BY <1>5, Pair DEF SetGrant, TypeOK, CellTypeOK
    <3>3. QED
      BY <3>1, <3>2, Bits, Luts DEF Favours, Bit
  <2>3. Grant(s) = IF r[s] = 1 /\ Favours(s) THEN 1 ELSE 0
    BY DEF Grant
  <2>4. GrantsFavour'
    BY <2>2, <2>3 DEF Port, GrantsFavour
  <2>5. A0 = 0 => Free'
    BY ClocksStay, <1>2, <1>5, <2>2, <2>3, Bits, Pair DEF SetGrant, Port, GrantsFavour, Free
  <2>6. A0 = 1 => Busy'
    BY ClocksStay, <1>2, <1>5, <2>2, <2>3, Bits, Pair DEF SetGrant, Port, GrantsFavour, Busy
  <2>7. QED
    BY <1>2, <2>1, <2>4, <2>5, <2>6 DEF Port
<1>6. ASSUME NEW s \in Station, SetAnswer(s) PROVE Port' /\ Stations' /\ Edges'
  <2>1. Edges'
    BY EdgesStay, <1>2, <1>6 DEF SetAnswer
  <2>2. /\ A'[s] = A0 /\ g[s] = A0 /\ A[s] = 1 - A0
        /\ \A k \in Station : k # s => A'[k] = A[k]
        /\ \A k \in Station : Favours(k)' <=> Favours(k)
        /\ \A k \in Station : ZAck(k)' = ZAck(k)
    BY <1>2, <1>6, Bits, Luts, Pair DEF SetAnswer, Answer, C2, TypeOK, CellTypeOK, Favours, ZAck
  <2>3. A0 = 1 => r[s] = 1 /\ Favours(s)
    BY <2>2 DEF Port, GrantsFavour, Busy
  <2>4. A0 = 0 => r[s] = 0
    BY <2>2 DEF Port, Free
  <2>5. GrantsFavour'
    BY <1>6, <2>2 DEF SetAnswer, Port, GrantsFavour
  <2>6. A0 = 0 => Free'
    BY ClocksStay, <1>2, <1>6, <2>2, <2>4, Bits, Pair DEF SetAnswer, Port, Free
  <2>7. A0 = 1 => Busy'
    BY ClocksStay, <1>2, <1>6, <2>2, <2>3, Bits, Pair DEF SetAnswer, Port, Busy
  <2>8. ASSUME NEW k \in Station PROVE Cycle(k)'
    BY <1>2, <2>2, <2>3, <2>4, Bits DEF Cycle, Stations
  <2>9. QED
    BY <1>2, <2>1, <2>5, <2>6, <2>7, <2>8 DEF Port, Stations
<1>7. QED
  BY <1>1, <1>3, <1>4, <1>5, <1>6 DEF Arbitrate

-----------------------------------------------------------------------------
(* The RAM.                                                                *)

\* A clock rises for the favoured station, whose access is under way and has
\* had no edge of this RAM yet.
LEMMA ClockRiseStep ==
  ASSUME IInv, NEW b \in Gang, ClockRise(b)
  PROVE  Port' /\ Stations' /\ Chain' /\ Edges' /\ Written' /\ Seen'
<1> USE DEF IInv
<1>1. PICK s \in Station :
        /\ g[s] = 1
        /\ mem' = IF s = Store THEN [mem EXCEPT ![b][addr[s]] = wdata] ELSE mem
        /\ rdata' = [rdata EXCEPT ![b] = mem'[b][addr[s]]]
        /\ edges' = [edges EXCEPT ![b][s] = IF @ < MaxEdges THEN @ + 1 ELSE @]
  BY DEF ClockRise
<1>2. /\ R0 = 1 /\ clk[b] = 0 /\ clk'[b] = 1
      /\ \A c \in Gang : c # b => clk'[c] = clk[c]
      /\ UNCHANGED <<cell, r, A0, stations, env, spec>>
  BY DEF ClockRise, TypeOK
<1>3. A0 = 0 /\ Favours(s) /\ r[s] = 1 /\ A[s] = 0
  BY <1>1, <1>2, Bits DEF Port, GrantsFavour, Free, Busy, Low
<1>4. joined[s] = 1 /\ done[s] = 0 /\ hold[s] = 0 /\ ZAck(s) = 0
  BY <1>3, Bits DEF Stations, Cycle
<1>5. edges[b][s] = 0
  BY <1>2, <1>4 DEF Edges, Spent
<1>6. /\ edges'[b][s] = 1
      /\ \A c \in Gang, k \in Station : c # b \/ k # s => edges'[c][k] = edges[c][k]
  BY <1>1, <1>5, MemAssumption DEF TypeOK
<1>7. Stations' /\ Chain'
  BY StationsStay, ChainStays, <1>2 DEF cell, stations, env
<1>8. Port'
  <2>1. \A k \in Station : (Favours(k)' <=> Favours(k)) /\ (Favours(k) => k = s)
    BY <1>2, <1>3, Bits, Pair DEF cell, Favours
  <2>2. QED
    BY <1>1, <1>2, <1>3, <2>1, Bits DEF cell, Port, GrantsFavour, Free
<1>9. ASSUME NEW k \in Station, NEW c \in Gang
      PROVE  /\ joined'[k] = 1 /\ done'[k] = 0 =>
                  edges'[c][k] = IF Favours(k)' /\ clk'[c] = 1 THEN 1 ELSE 0
             /\ done'[k] = 1 => edges'[c][k] = 1
  <2>1. UNCHANGED <<joined, done, q>>
    BY <1>2 DEF cell, stations
  <2>2. CASE c = b /\ k = s
    BY <1>2, <1>3, <1>4, <1>6, <2>1, <2>2 DEF Favours
  <2>3. CASE c = b /\ k # s
    BY <1>2, <1>3, <1>6, <2>1, <2>3, Bits, Pair DEF Edges, Spent, Favours
  <2>4. CASE c # b
    BY <1>2, <1>6, <2>1, <2>4 DEF Edges, Spent, Favours
  <2>5. QED
    BY <2>2, <2>3, <2>4
<1>10. Written'
  <2> SUFFICES ASSUME NEW c \in Gang
               PROVE  IF joined[Store] = 1 /\ done[Store] = 0 /\ edges'[c][Store] = 0
                      THEN spec = [mem'[c] EXCEPT ![addr[Store]] = wdata]
                      ELSE spec = mem'[c]
    BY <1>2 DEF Written, stations, env
  <2>1. CASE s = Store /\ c = b
    <3>1. spec = [mem[b] EXCEPT ![addr[Store]] = wdata]
      BY <1>4, <1>5, <2>1 DEF Written
    <3>2. mem'[b] = [mem[b] EXCEPT ![addr[Store]] = wdata]
      BY <1>1, <2>1 DEF TypeOK
    <3>3. QED
      BY <1>6, <2>1, <3>1, <3>2
  <2>2. CASE s # Store \/ c # b
    <3>1. edges'[c][Store] = edges[c][Store] /\ mem'[c] = mem[c]
      BY <1>1, <1>6, <2>2, Pair DEF TypeOK
    <3>2. QED
      BY <3>1 DEF Written
  <2>3. QED
    BY <2>1, <2>2
<1>11. Seen'
  <2>1. CASE s = Store
    <3>1. chained = 1 => joined[Load] = 0 /\ hold[Load] = 0 /\ done[Load] = 0 /\ zack[Load] = 0
      BY <1>4, <2>1, Pair, Bits DEF Chain, ZAck, Stations, Cycle
    <3>2. QED
      BY <1>2, <3>1 DEF Seen, stations, env
  <2>2. CASE s = Load
    <3>1. chained = 1 => joined[Store] = 1 /\ done[Store] = 1
      BY <1>4, <2>2 DEF Chain
    <3>2. chained = 1 => \A c \in Gang : spec = mem[c] /\ mem'[c] = mem[c]
      BY <1>1, <2>2, <3>1, Pair DEF Written
    <3>3. rdata'[b] = mem'[b][addr[Load]] /\ \A c \in Gang : c # b => rdata'[c] = rdata[c]
      BY <1>1, <2>2 DEF TypeOK
    <3>4. \A c \in Gang : c # b => edges'[c][Load] = edges[c][Load]
      BY <1>6, Pair
    <3>5. QED
      BY <1>2, <3>2, <3>3, <3>4 DEF Seen, stations, env
  <2>3. QED
    BY <2>1, <2>2, Pair
<1>12. QED
  BY <1>7, <1>8, <1>9, <1>10, <1>11 DEF Edges, Spent

LEMMA ClockFallStep ==
  ASSUME IInv, NEW b \in Gang, ClockFall(b)
  PROVE  Port' /\ Stations' /\ Chain' /\ Edges' /\ Written' /\ Seen'
<1> USE DEF IInv
<1>1. Stations' /\ Chain' /\ Written' /\ Seen'
  BY StationsStay, ChainStays, WrittenStays, SeenStays DEF ClockFall, cell, stations, env, history
<1>2. A0 = 1 /\ R0 = 0 /\ \A k \in Station : Favours(k) => r[k] = 0 /\ A[k] = 1
  BY Bits DEF ClockFall, Port, Free, Busy, Up
<1>3. \A k \in Station : Favours(k)' <=> Favours(k)
  BY DEF ClockFall, cell, Favours
<1>4. Port'
  BY <1>2, <1>3 DEF ClockFall, cell, Port, GrantsFavour, Busy
<1>5. ASSUME NEW k \in Station PROVE Spent(k)'
  BY <1>2, <1>3, Bits DEF ClockFall, stations, history, Spent, Edges, Stations, Cycle, TypeOK
<1>6. QED
  BY <1>1, <1>4, <1>5 DEF Edges

LEMMA RamAckStep ==
  ASSUME IInv, NEW b \in Gang, RamAck(b)
  PROVE  Port' /\ Stations' /\ Chain' /\ Edges' /\ Written' /\ Seen'
BY PortStays, StationsStay, ChainStays, EdgesStay, WrittenStays, SeenStays
DEF IInv, RamAck, cell, stations, env, history

\* The tree moves only when the clock of every RAM has.
LEMMA Gathers ==
  ASSUME IInv, A0 # Gathered
  PROVE  /\ Gathered = 1 - A0
         /\ \A b \in Gang : ram_ack[b] = 1 - A0 /\ clk[b] = 1 - A0
<1> USE DEF IInv
<1>1. Gathered = 1 - A0 /\ \A b \in Gang : ram_ack[b] = 1 - A0
  BY DEF Gathered
<1>2. QED
  BY <1>1, Bits DEF Answers

LEMMA GangAckStep ==
  ASSUME IInv, GangAck
  PROVE  Port' /\ Stations' /\ Chain' /\ Edges' /\ Written' /\ Seen'
<1> USE DEF IInv
<1>1. Stations' /\ Chain' /\ Edges' /\ Written' /\ Seen'
  BY StationsStay, ChainStays, EdgesStay, WrittenStays, SeenStays
  DEF GangAck, cell, stations, ram, env, history
<1>2. \A k \in Station : Favours(k)' <=> Favours(k)
  BY DEF GangAck, cell, Favours
<1>3. \A k \in Station : g[k] = Grant(k) /\ A[k] = Answer(k)
  BY Pair DEF GangAck, ServerSlower
<1>4. UNCHANGED <<r, g, A, R0, clk>> /\ A0' = 1 - A0 /\ \A b \in Gang : clk[b] = 1 - A0
  BY Gathers DEF GangAck, cell, ram
<1>5. (Up <=> A0 = 0) /\ (Low <=> A0 = 1) /\ Up' = Up /\ Low' = Low
  BY <1>4, MemAssumption, Bits DEF Up, Low
<1>6. GrantsFavour'
  BY <1>2, <1>4 DEF Port, GrantsFavour
<1>7. CASE A0 = 0
  <2>1. Busy'
    BY <1>2, <1>3, <1>4, <1>5, <1>7, Bits, Pair DEF Port, GrantsFavour, Free, Busy, Answer, C2
  <2>2. QED
    BY <1>1, <1>4, <1>6, <1>7, <2>1, Bits DEF Port
<1>8. CASE A0 = 1
  <2>1. R0 = 0 /\ \A k \in Station : Favours(k) => r[k] = 0 /\ A[k] = 1 /\ A[Other(k)] = 0
    BY <1>5, <1>8, Bits DEF Port, Busy
  <2>2. \A k \in Station : g[k] = 0
    BY <1>3, <2>1, Bits DEF Grant
  <2>3. \A k \in Station : A[k] = 1 => r[k] = 0 /\ A[Other(k)] = 0
    BY <2>1, Bits, Pair
  <2>4. Free'
    BY <1>2, <1>4, <1>5, <1>8, <2>1, <2>2, <2>3, Bits DEF Free
  <2>5. QED
    BY <1>1, <1>4, <1>6, <1>8, <2>4, Bits DEF Port
<1>9. QED
  BY <1>7, <1>8, Bits

\* The gang's acknowledge moves last, and no clock before the one before it.
LEMMA AnswersStep ==
  ASSUME IInv, [Next]_vars
  PROVE  Answers'
<1> USE DEF IInv
<1>1. ASSUME NEW b \in Gang, ClockRise(b) PROVE Answers'
  <2>1. A0 = 0 /\ A0' = 0
    BY <1>1, Bits DEF ClockRise, Port, Busy, Low
  <2>2. QED
    BY <1>1, <2>1, Bits DEF ClockRise, Answers, TypeOK
<1>2. ASSUME NEW b \in Gang, ClockFall(b) PROVE Answers'
  <2>1. A0 = 1 /\ A0' = 1
    BY <1>2, Bits DEF ClockFall, Port, Free, Up
  <2>2. QED
    BY <1>2, <2>1, Bits DEF ClockFall, Answers, TypeOK
<1>3. ASSUME NEW b \in Gang, RamAck(b) PROVE Answers'
  BY <1>3 DEF RamAck, Answers, TypeOK
<1>4. CASE GangAck
  BY <1>4, Gathers DEF GangAck, Answers, ram
<1>5. CASE UNCHANGED <<A0, clk, ram_ack>>
  BY <1>5, AnswersStay
<1>6. QED
  BY <1>1, <1>2, <1>3, <1>4, <1>5
  DEF Next, vars, Offer, Withdraw, Consume, Join, SetDone, SetClaim, SetHold, Arbitrate, ram

-----------------------------------------------------------------------------
(* Steps, seen from the invariant.                                         *)

\* Once the grants have settled none moves, and no operand of a slot that is
\* granted moves before the RAM has answered.
LEMMA ShownStep ==
  ASSUME IInv, [Next]_vars, R0 = 1, A0 = 0, ServerSlower
  PROVE  Shown' = Shown
<1> USE DEF IInv
<1>1. \A k \in Station : g[k] = 1 => joined[k] = 1 /\ done[k] = 0 /\ hold[k] = 0
  BY Bits DEF Port, Free, Stations, Cycle
<1>2. g' = g
  BY Pair DEF ServerSlower, Next, vars, Offer, Withdraw, Consume, Join, SetDone, SetClaim, SetHold,
              Arbitrate, Decide, SetRequest, SetGrant, SetAnswer, ClockRise, ClockFall, RamAck, GangAck, cell
<1>3. \A k \in Station : g[k] = 1 => addr'[k] = addr[k] /\ (k = Store => wdata' = wdata)
  <2>1. ASSUME NEW i \in DOMAIN Operand, Offer(i), NEW k \in Station, g[k] = 1
        PROVE  addr'[k] = addr[k] /\ (k = Store => wdata' = wdata)
    <3>1. Operand[i] # k
      BY <1>1, <2>1, Names DEF Offer, Stations, Cycle
    <3>2. k = Store => i # "sd"
      BY <3>1, Names
    <3>3. QED
      BY <2>1, <3>1, <3>2 DEF Offer, TypeOK
  <2>2. (\A i \in DOMAIN Operand : ~Offer(i)) => UNCHANGED <<addr, wdata>>
    BY DEF Next, vars, Withdraw, Consume, Join, SetDone, SetClaim, SetHold,
           Arbitrate, ClockRise, ClockFall, RamAck, GangAck, env
  <2>3. QED
    BY <2>1, <2>2
<1>4. QED
  BY <1>2, <1>3 DEF Shown

\* The join of a station waits for operands that stay, and a token that stays.
LEMMA JoinCommitted ==
  ASSUME IInv, [Next]_vars, NEW s \in Station, Arrived(s) = {1 - joined[s]}, joined'[s] = joined[s]
  PROVE  Arrived(s)' = Arrived(s)
<1> USE DEF IInv
<1>1. /\ \A i \in Operands(s) : req[i] = 1 - joined[s]
      /\ s = Load /\ chained = 1 => done[Store] = 1 - joined[s]
  BY JoinSaw
<1>2. \A i \in Operands(s) : req'[i] = req[i]
  <2>1. ASSUME NEW i \in DOMAIN Operand, Offer(i) \/ Withdraw(i) PROVE i \notin Operands(s)
    BY <1>1, <2>1, Bits DEF Offer, Withdraw, Operands, Stations, Cycle
  <2>2. (\A i \in DOMAIN Operand : ~(Offer(i) \/ Withdraw(i))) => UNCHANGED req
    BY DEF Next, vars, Consume, Join, SetDone, SetClaim, SetHold,
           Arbitrate, ClockRise, ClockFall, RamAck, GangAck, env
  <2>3. QED
    BY <2>1, <2>2, Names DEF Offer, Withdraw, TypeOK
<1>3. s = Load /\ chained = 1 => done'[Store] = done[Store]
  <2>1. ASSUME s = Load, chained = 1, SetDone(Store) PROVE FALSE
    <3>1. CASE joined[Load] = 0
      BY <1>1, <2>1, <3>1, Names, Pair, Bits DEF SetDone, Done, Stations, Cycle, ZAck
    <3>2. CASE joined[Load] = 1
      BY <1>1, <2>1, <3>2, Names, Pair, Bits DEF SetDone, Done, Stations, Cycle, ZAck, Chain
    <3>3. QED
      BY <3>1, <3>2, Pair, Bits
  <2>2. ~SetDone(Store) => done'[Store] = done[Store]
    BY Pair DEF Next, vars, Offer, Withdraw, Consume, Join, SetDone, SetClaim, SetHold,
           Arbitrate, ClockRise, ClockFall, RamAck, GangAck, stations, TypeOK
  <2>3. QED
    BY <2>1, <2>2
<1>4. chained' = chained
  BY DEF Next, vars, Offer, Withdraw, Consume, Join, SetDone, SetClaim, SetHold,
         Arbitrate, ClockRise, ClockFall, RamAck, GangAck, env
<1>5. Given(s)' = Given(s)
  BY <1>2 DEF Given, Operands
<1>6. QED
  BY <1>3, <1>4, <1>5 DEF Arrived

\* Who moves what.
LEMMA Movers ==
  ASSUME TypeOK, [Next]_vars, NEW s \in Station
  PROVE  /\ joined'[s] # joined[s] => Join(s)
         /\ done'[s] # done[s] => SetDone(s)
         /\ hold'[s] # hold[s] => SetHold(s)
         /\ r'[s] # r[s] => SetClaim(s)
         /\ g'[s] # g[s] => SetGrant(s)
         /\ A'[s] # A[s] => SetAnswer(s)
         /\ zack'[s] # zack[s] => Consume(s)
         /\ q' # q => Decide
         /\ A0' # A0 => GangAck
         /\ chained' = chained
<1>1. CASE UNCHANGED vars
  BY <1>1 DEF vars, cell, stations, env
<1>2. ASSUME NEW i \in DOMAIN Operand, Offer(i) \/ Withdraw(i) PROVE UNCHANGED <<cell, stations, r, A0, zack, chained>>
  BY <1>2 DEF Offer, Withdraw
<1>3. CASE \E k \in Station : Consume(k) \/ Join(k) \/ SetDone(k) \/ SetClaim(k) \/ SetHold(k)
  BY <1>3 DEF Consume, Join, SetDone, SetClaim, SetHold, cell, stations, ram, env, TypeOK
<1>4. CASE Arbitrate
  BY <1>4, Pair DEF Arbitrate, Decide, SetRequest, SetGrant, SetAnswer, stations, env, TypeOK, CellTypeOK
<1>5. CASE GangAck \/ \E b \in Gang : ClockRise(b) \/ ClockFall(b) \/ RamAck(b)
  BY <1>5 DEF ClockRise, ClockFall, RamAck, GangAck, cell, stations, ram, env
<1>6. QED
  BY <1>1, <1>2, <1>3, <1>4, <1>5 DEF Next, cell, stations

\* A station that has joined for an access lets go only once it is released.
LEMMA JoinMoves ==
  ASSUME IInv, [Next]_vars, NEW s \in Station, joined'[s] # joined[s]
  PROVE  /\ joined[s] = 1 => done[s] = 1 /\ hold[s] = 1
         /\ joined[s] = 0 => done[s] = 0 /\ hold[s] = 0
<1> USE DEF IInv
<1>1. Arrived(s) = {1 - joined[s]}
  BY Movers DEF Join
<1>2. \A i \in Operands(s) : req[i] = 1 - joined[s]
  BY <1>1, JoinSaw
<1>3. \E i \in DOMAIN Operand : i \in Operands(s)
  BY Names, Pair
<1>4. QED
  BY <1>2, <1>3, Bits DEF Stations, Cycle

LEMMA DoneCommitted ==
  ASSUME IInv, [Next]_vars, NEW s \in Station, done[s] # Done(s), done'[s] = done[s]
  PROVE  done'[s] # Done(s)'
<1> USE DEF IInv
<1>1. joined'[s] = joined[s]
  BY JoinMoves, Bits DEF Done, Stations, Cycle
<1>2. done[s] = 0 => A'[s] = A[s]
  BY Movers, Bits DEF Done, SetAnswer, Answer, C2, Stations, Cycle, Port, Free
<1>3. QED
  BY <1>1, <1>2, Bits DEF Done

LEMMA ClaimCommitted ==
  ASSUME IInv, [Next]_vars, NEW s \in Station, r[s] # Claim(s), r'[s] = r[s]
  PROVE  r'[s] # Claim(s)'
<1> USE DEF IInv
<1>1. CASE r[s] = 0
  <2>1. joined[s] = 1 /\ done[s] = 0
    BY <1>1, Bits DEF Claim
  <2>2. joined'[s] = 1
    BY <2>1, JoinMoves
  <2>3. done'[s] = 0
    BY <1>1, <2>1, Movers, Bits DEF SetDone, Done, Stations, Cycle
  <2>4. QED
    BY <1>1, <2>2, <2>3 DEF Claim
<1>2. CASE r[s] = 1
  <2>1. joined[s] = 0 \/ done[s] = 1
    BY <1>2, Bits DEF Claim
  <2>2. CASE joined[s] = 0
    <3>1. joined'[s] = 0
      BY <1>2, <2>2, JoinMoves, Bits DEF Stations, Cycle
    <3>2. QED
      BY <1>2, <3>1 DEF Claim
  <2>3. CASE joined[s] = 1 /\ done[s] = 1
    <3>1. done'[s] = 1
      BY <2>3, Movers DEF SetDone, Done
    <3>2. QED
      BY <1>2, <3>1 DEF Claim
  <2>4. QED
    BY <2>1, <2>2, <2>3, Bits
<1>3. QED
  BY <1>1, <1>2, Bits

LEMMA GrantCommitted ==
  ASSUME IInv, [Next]_vars, NEW s \in Station, g[s] # Grant(s), g'[s] = g[s]
  PROVE  g'[s] # Grant(s)'
<1> USE DEF IInv
<1>1. CASE g[s] = 0
  <2>1. r[s] = 1 /\ Favours(s)
    BY <1>1, Bits DEF Grant
  <2>2. r'[s] = 1
    <3>1. CASE A[s] = 1
      BY <1>1, <2>1, <3>1, Bits DEF Port, Free, Busy
    <3>2. CASE A[s] = 0
      BY <2>1, <3>2, Movers, Bits DEF SetClaim, Claim, Stations, Cycle
    <3>3. QED
      BY <3>1, <3>2, Bits
  <2>3. q' = q
    BY <2>1, Movers, Pair, Bits DEF Decide, Decision, C2, Favours, Station, Store, Load
  <2>4. QED
    BY <1>1, <2>1, <2>2, <2>3 DEF Grant, Favours
<1>2. CASE g[s] = 1
  <2>1. Favours(s) /\ r[s] = 0
    BY <1>2, Bits DEF Port, GrantsFavour, Grant
  <2>2. r'[s] = 0
    <3>1. A0 = 1 /\ A[s] = 1
      BY <1>2, <2>1, Bits DEF Port, Free, Busy
    <3>2. QED
      BY <2>1, <3>1, Movers, Bits DEF SetClaim, Claim, Stations, Cycle
  <2>3. QED
    BY <1>2, <2>2 DEF Grant
<1>3. QED
  BY <1>1, <1>2, Bits

LEMMA AnswerCommitted ==
  ASSUME IInv, [Next]_vars, NEW s \in Station, A[s] # Answer(s), A'[s] = A[s]
  PROVE  A'[s] # Answer(s)'
<1> USE DEF IInv
<1>1. A0' = A0
  BY Movers, Pair DEF GangAck, ServerSlower
<1>2. g[s] = A0 /\ A[s] = 1 - A0
  BY Bits DEF Answer, C2
<1>3. g'[s] = g[s]
  <2>1. CASE A0 = 1
    BY <1>2, <2>1, Movers, Bits DEF SetGrant, Grant, Port, GrantsFavour, Busy
  <2>2. CASE A0 = 0
    BY <1>2, <2>2, Movers, Bits DEF SetGrant, Grant, Port, Free
  <2>3. QED
    BY <2>1, <2>2, Bits
<1>4. QED
  BY <1>1, <1>2, <1>3, Bits DEF Answer, C2

\* No RAM takes its answer back before the tree has moved.
LEMMA GangCommitted ==
  ASSUME IInv, [Next]_vars, A0 # Gathered, A0' = A0
  PROVE  Gathered' = Gathered
<1> USE DEF IInv
<1>1. \A b \in Gang : ram_ack[b] = 1 - A0 /\ clk[b] = 1 - A0
  BY Gathers
<1>2. ASSUME NEW b \in Gang, RamAck(b) PROVE FALSE
  BY <1>1, <1>2 DEF RamAck
<1>3. ram_ack' = ram_ack
  BY <1>2 DEF Next, vars, Offer, Withdraw, Consume, Join, SetDone, SetClaim, SetHold, Arbitrate,
              ClockRise, ClockFall, GangAck, ram
<1>4. QED
  BY <1>3 DEF Gathered

LEMMA HoldCommitted ==
  ASSUME IInv, [Next]_vars, NEW s \in Station, hold[s] # Hold(s), hold'[s] = hold[s]
  PROVE  hold'[s] # Hold(s)'
<1> USE DEF IInv
<1>1. CASE hold[s] = 0
  <2>1. ZAck(s) = 1 /\ joined[s] = 1 /\ done[s] = 1
    BY <1>1, Bits DEF Hold, Stations, Cycle
  <2>2. ZAck(s)' = 1
    <3>1. CASE s = Store /\ chained = 1
      <4>1. hold[Load] = 1
        BY <2>1, <3>1 DEF ZAck
      <4>2. joined[Load] = 1 /\ done[Load] = 1
        BY <2>1, <3>1, <4>1, Pair, Bits DEF Chain, Stations, Cycle
      <4>3. hold'[Load] = 1
        BY <4>1, <4>2, Movers, Pair DEF SetHold, Hold, Stations, Cycle
      <4>4. QED
        BY <3>1, <4>3, Movers DEF ZAck
    <3>2. CASE ~(s = Store /\ chained = 1)
      <4>1. zack[s] = 1 /\ zack'[s] = 1
        BY <2>1, <3>2, Movers DEF Consume, ZAck
      <4>2. QED
        BY <3>2, <4>1, Movers DEF ZAck
    <3>3. QED
      BY <3>1, <3>2
  <2>3. QED
    BY <1>1, <2>2 DEF Hold
<1>2. CASE hold[s] = 1
  <2>1. ZAck(s) = 0 /\ A[s] = 0 /\ r[s] = 0 /\ done[s] = 0 /\ joined[s] = 0
    BY <1>2, Bits DEF Hold, Stations, Cycle
  <2>2. ZAck(s)' = 0
    <3>1. CASE s = Store /\ chained = 1
      <4>1. hold[Load] = 0
        BY <2>1, <3>1, Pair, Bits DEF ZAck
      <4>2. joined[Load] = 0
        BY <2>1, <3>1, <4>1, Pair, Bits DEF Chain
      <4>3. hold'[Load] = 0
        BY <4>1, <4>2, Movers, Pair, Bits DEF SetHold, Hold, Stations, Cycle
      <4>4. QED
        BY <3>1, <4>3, Movers DEF ZAck
    <3>2. CASE ~(s = Store /\ chained = 1)
      <4>1. zack[s] = 0 /\ zack'[s] = 0
        BY <2>1, <3>2, Movers DEF Consume, ZAck
      <4>2. QED
        BY <3>2, <4>1, Movers DEF ZAck
    <3>3. QED
      BY <3>1, <3>2
  <2>3. A'[s] = 0
    BY <2>1, Movers, Bits DEF SetAnswer, Answer, C2, Port, GrantsFavour, Free, Busy
  <2>4. QED
    BY <1>2, <2>2, <2>3 DEF Hold
<1>3. QED
  BY <1>1, <1>2, Bits

-----------------------------------------------------------------------------
(* The theorems.                                                           *)

LEMMA InitInv == Init => IInv
<1> SUFFICES ASSUME Init PROVE IInv
  OBVIOUS
<1>1. TypeOK
  BY Pair, MemAssumption DEF Init, CellInit, TypeOK, CellTypeOK, Bit
<1>2. Port
  BY Pair DEF Init, CellInit, Port, GrantsFavour, Free, Up
<1>3. Answers /\ Stations /\ Chain /\ Edges /\ Written /\ Seen
  BY Pair DEF Init, CellInit, Answers, Stations, Cycle, ZAck, Chain, Edges, Spent, Written, Seen
<1>4. QED
  BY <1>1, <1>2, <1>3 DEF IInv

LEMMA Step == IInv /\ [Next]_vars => IInv'
<1> SUFFICES ASSUME IInv, [Next]_vars PROVE IInv'
  OBVIOUS
<1>1. TypeOK' /\ Answers'
  BY TypeStep, AnswersStep DEF IInv
<1>2. CASE UNCHANGED vars
  BY <1>1, <1>2, PortStays, StationsStay, ChainStays, EdgesStay, WrittenStays, SeenStays
  DEF IInv, vars, cell, stations, ram, env, history
<1>3. CASE Next
  <2>1. ASSUME NEW i \in DOMAIN Operand, Offer(i) \/ Withdraw(i) PROVE IInv'
    BY <1>1, <2>1, OfferStep, WithdrawStep DEF IInv
  <2>2. ASSUME NEW s \in Station, Consume(s) \/ Join(s) PROVE IInv'
    BY <1>1, <2>2, ConsumeStep, JoinStep DEF IInv
  <2>3. ASSUME NEW s \in Station, SetDone(s) \/ SetClaim(s) \/ SetHold(s) PROVE IInv'
    BY <1>1, <2>3, DoneStep, ClaimStep, HoldStep DEF IInv
  <2>4. ASSUME NEW b \in Gang, ClockRise(b) \/ ClockFall(b) \/ RamAck(b) PROVE IInv'
    BY <1>1, <2>4, ClockRiseStep, ClockFallStep, RamAckStep DEF IInv
  <2>5. CASE Arbitrate \/ GangAck
    BY <1>1, <2>5, ArbitrateStep, GangAckStep DEF IInv
  <2>6. QED
    BY <1>3, <2>1, <2>2, <2>3, <2>4, <2>5 DEF Next
<1>4. QED
  BY <1>2, <1>3

LEMMA Invariant == Spec => []IInv
BY InitInv, Step, PTL DEF Spec

(* Every variable keeps its type. *)
THEOREM TypeCorrect == Spec => []TypeOK
BY Invariant, PTL DEF IInv

(* An access that reports completion has had an edge of its own at every   *)
(* RAM of the gang, and exactly one ("24 accesses, 24 RAM edges").         *)
THEOREM EdgesCorrect == Spec => []OneEdgePerAccess
<1>1. IInv => OneEdgePerAccess
  BY DEF IInv, Edges, Spent, OneEdgePerAccess
<1>2. QED
  BY <1>1, Invariant, PTL

(* For as long as the load's result is on offer it is the word of program  *)
(* order: the last store to that address the token chain put before it,    *)
(* from every RAM of the gang.                                             *)
THEOREM LoadsCorrect == Spec => []LoadsSeeStores
<1>1. IInv => LoadsSeeStores
  BY DEF IInv, Seen, LoadsSeeStores
<1>2. QED
  BY <1>1, Invariant, PTL

(* Bundling at the RAMs: from the moment the grants have settled until the *)
(* gang acknowledges, neither the selected slot nor its payload moves.     *)
THEOREM PayloadCorrect == Spec => PayloadHeld
<1>1. IInv /\ [Next]_vars => [Presented]_vars
  BY ShownStep DEF Presented
<1>2. QED
  BY <1>1, Invariant, PTL DEF Spec, PayloadHeld

(* No LUT of a station, no grant or acknowledge of the arbiter and no move  *)
(* of the gang's tree that is about to happen is called back by another     *)
(* switching first.                                                         *)
THEOREM HazardsCorrect == Spec => StationsHazardFree
<1>1. IInv /\ [Next]_vars => [Committed]_vars
  BY JoinCommitted, DoneCommitted, HoldCommitted, ClaimCommitted, GrantCommitted, AnswerCommitted,
     GangCommitted
  DEF Committed
<1>2. QED
  BY <1>1, Invariant, PTL DEF Spec, StationsHazardFree

-----------------------------------------------------------------------------
(* The compiled loop.                                                      *)

Wire == {"init", "mreq", "join0", "join1", "zreq", "xack", "yack", "share",
         "cmp", "creq", "cfork", "djoin", "dexit", "dback", "dack",
         "kjoin", "kexit", "kback", "kack", "d1", "d2", "d3", "back", "k1", "k2",
         "dsink", "ksink"}
Datum == {"entry", "mux", "cmp", "d1", "d2", "d3"}
Token == [run : Nat, left : 0..MaxTrips]

LoopTypeOK ==
  /\ CellTypeOK
  /\ r \in [Client -> Bit]
  /\ A0 \in Bit
  /\ w \in [Wire -> Bit]
  /\ DOMAIN val = Datum \cup {"index", "cond"}
  /\ \A x \in Datum : val[x] \in Token
  /\ val.index \in Bit /\ val.cond \in Bit
  /\ started \in Nat /\ given \in Nat /\ ended \in Nat
  /\ results \in Seq(Nat)

-----------------------------------------------------------------------------
(* The inductive invariant.  Each line of a part says what must be so      *)
(* while one wire is up, or one counter is ahead of another; no clause     *)
(* relates more than four of them.  It takes them all: what justifies a    *)
(* wire's switching is the phases of its neighbours, and what justifies    *)
(* those is the phases of theirs, around the loop.                         *)

\* The cell: whose request the grant, the acknowledge and the select stand
\* for, in every phase of the merge's handshake.
Granting ==
  /\ r[1] = 1 => /\ A[1] = 1 => g[1] = 1
                 /\ w.k1 = 1 => q = 1
                 /\ R0 = 1 \/ started > ended
                 /\ started > ended \/ q = 1
  /\ r[2] = 1 => /\ A[2] = 1 => w.mreq = 1
                 /\ val.index = 1 /\ w.mreq = 1 => g[2] = 1
                 /\ R0 = 1 \/ started > ended
                 /\ w.cmp = 1 \/ val.cond = 1
  /\ g[1] = 1 => /\ A[1] = 1 => A0 = 1
                 /\ A[1] = 1 \/ r[1] = 1
                 /\ q = 1
  /\ g[2] = 1 => A[2] = 1 \/ r[2] = 1
  /\ A[2] = 1 => /\ g[2] = 1 => A0 = 1
                 /\ w.xack = 0
                 /\ val.index = 1
  /\ A0 = 1 => /\ R0 = 1 => w.mreq = 1
               /\ w.cmp = 1 => w.kack = 1
               /\ g[2] = 1 => A[2] = 1 \/ w.mreq = 1
               /\ val.index = 1 => A[2] = 1 \/ g[2] = 1
               /\ w.mreq = 1 => w.zreq = 1
               /\ val.index = 1 \/ q = 1
  /\ R0 = 1 => /\ A0 = 1 \/ q = 1 \/ r[2] = 1
               /\ w.ksink = 1 \/ started > ended
  /\ q = 1 => /\ A0 = 1 /\ r[1] = 1 => R0 = 1
              /\ A0 = 1 => A[1] = 1 \/ g[1] = 1
              /\ R0 = 1 => A0 = 1 \/ r[1] = 1
              /\ w.back = 1 => val.d1 = val.mux
              /\ val.cond = 1 => Settled("mux")
              /\ w.d2 = 1 => val.d1 = val.mux \/ w.d1 = 1
              /\ w.d3 = 1 => val.d1 = val.mux \/ w.d1 = 1
              /\ g[2] = 0
              /\ val.index = 1 => r[1] = 1
              /\ w.join1 = 0
              /\ w.ksink = 1 => started = ended

\* The mux: its request has an input behind it, the one the select names, and
\* no other is up; its value is settled while it is announced.
Picking ==
  /\ w.mreq = 1 => R0 = 1 \/ w.kjoin = 1
  /\ w.zreq = 1 => /\ A0 = 1 => w.share = 1
                   /\ w.dexit = 1 => w.djoin = 1
                   /\ w.djoin = 1 => w.creq = 1
                   /\ val.index = 1 => w.join1 = 1 \/ w.yack = 1
                   /\ w.join1 = 1 => w.xack = 0
                   /\ w.mreq = 1 => w.join0 = 1 \/ w.join1 = 1
                   /\ w.share = 1 => w.cmp = 1
                   /\ w.yack = 1 => w.share = 1
                   /\ Settled("mux")
                   /\ w.djoin = 1 \/ w.mreq = 1
                   /\ w.djoin = 1 \/ given > Len(results)
                   /\ val.index = 1 \/ w.join0 = 1 \/ w.xack = 1
  /\ w.join0 = 1 => /\ w.d2 = 1 => w.d1 = 1
                    /\ w.d3 = 1 => w.d2 = 1
                    /\ val.index = 0
                    /\ w.k2 = 1 => w.k1 = 1
                    /\ r[2] = 1 => w.k2 = 1
                    /\ w.xack = 1 => w.zreq = 1
                    /\ w.init = 1 \/ w.xack = 1
                    /\ w.mreq = 1 \/ w.zreq = 1
                    /\ q = 1
  /\ w.join1 = 1 => /\ w.d1 = 1 /\ w.d2 = 1 => w.d3 = 0
                    /\ w.d3 = 1 => w.back = 1
                    /\ w.init = 1 => w.dsink = 1
                    /\ r[1] = 1 => w.ksink = 1
                    /\ r[2] = 1 => R0 = 1
                    /\ w.yack = 1 => w.zreq = 1
                    /\ w.d3 = 1 \/ w.yack = 1
                    /\ val.index = 1
                    /\ w.mreq = 1 \/ w.zreq = 1
  /\ w.init = 1 => /\ w.xack = 1 => w.join0 = 1
                   /\ w.dsink = 1 \/ given > Len(results)
                   /\ w.join0 = 1 \/ given > Len(results)

\* The fork of the merged value and the compare: the condition is the one of
\* the value that stands while it is announced.
Comparing ==
  /\ w.share = 1 => /\ w.cmp = 1 => w.creq = 1
                    /\ w.creq = 1 => w.djoin = 1
                    /\ w.d1 = 1 => w.dack = 1
                    /\ w.djoin = 1 => w.dack = 1
                    /\ w.yack = 1 => val.index = 1
                    /\ A0 = 1 \/ w.zreq = 1
                    /\ Settled("mux")
                    /\ w.xack = 1 \/ w.yack = 1 \/ w.zreq = 1
  /\ w.cmp = 1 => /\ w.cfork = 1 => w.dack = 1
                  /\ w.cfork = 1 => w.kack = 1
                  /\ w.share = 1 \/ w.zreq = 1
  /\ w.creq = 1 => /\ val.cmp = val.mux
                   /\ Settled("cond")
                   /\ w.cmp = 1 \/ w.share = 1
                   /\ w.kjoin = 1 \/ w.mreq = 1
  /\ val.cond = 1 => /\ w.dexit = 0
                     /\ w.dsink = 0
                     /\ w.init = 1 => w.join0 = 1
                     /\ w.kexit = 0
                     /\ r[1] = 1 => w.cmp = 1
                     /\ given > Len(results)
                     /\ started > ended
  /\ w.cmp = 0 => Settled("cond")

\* The two branches: each has gone the way the condition said, and waits for
\* the other before the condition may move.
Steering ==
  /\ w.djoin = 1 => /\ w.dack = 1 => w.dback = 1 \/ w.dexit = 1
                    /\ w.dexit = 1 \/ given > Len(results)
                    /\ w.share = 1 \/ w.zreq = 1
  /\ w.dexit = 1 => /\ w.dack = 1 => w.dsink = 1
                    /\ w.djoin = 1 \/ w.dsink = 1
                    /\ w.dsink = 1 \/ given > Len(results)
  /\ w.dback = 1 => /\ w.dack = 1 => w.d1 = 1
                    /\ val.cond = 1
                    /\ w.d1 = 1 \/ w.djoin = 1
                    /\ w.djoin = 1 \/ w.share = 1
  /\ w.dack = 1 => w.djoin = 1 \/ w.share = 1
  /\ w.dsink = 1 => /\ w.cfork = 1 => w.dack = 1
                    /\ w.d2 = 1 => w.d3 = 1
                    /\ Len(results) > ended \/ w.cfork = 1 \/ w.ksink = 1
                    /\ w.dack = 1 \/ w.dexit = 1
  /\ w.kjoin = 1 => /\ R0 = 1 => w.mreq = 1
                    /\ w.mreq = 1 => w.creq = 1
                    /\ R0 = 1 \/ w.kack = 1
  /\ w.kexit = 1 => w.kjoin = 1 \/ w.ksink = 1
  /\ w.kback = 1 => /\ w.k1 = 1 \/ w.kjoin = 1
                    /\ val.cmp.left > 0
  /\ w.kack = 1 => /\ w.kback = 1 => w.k1 = 1
                   /\ w.kexit = 1 => w.ksink = 1
                   /\ w.kjoin = 1 => w.kback = 1 \/ w.kexit = 1
                   /\ w.mreq = 1 => w.kjoin = 1
                   /\ A0 = 1 \/ R0 = 1
                   /\ A0 = 1 \/ w.cmp = 1
                   /\ w.cfork = 1 \/ w.cmp = 1
  /\ w.ksink = 1 => /\ Len(results) <= ended
                    /\ ended > Len(results) \/ w.cfork = 1 \/ w.dsink = 1
                    /\ w.kack = 1 \/ w.kexit = 1
                    /\ w.kack = 1 \/ w.kjoin = 1
  /\ Len(results) > ended => w.cmp = 1

\* The stages of the way back: full ones are closed in order, and what they
\* hold is what the branch sent, until the mux has picked it up.
GoingBack ==
  /\ w.d1 = 1 => /\ val.cond = 1
                 /\ w.dack = 1 \/ w.dback = 1
                 /\ val.mux.run = given
  /\ w.d2 = 1 => /\ w.back = 1 \/ val.cond = 1
                 /\ w.back = 1 \/ w.d1 = 1 \/ val.d1.run = given
  /\ w.d3 = 1 => /\ w.d1 = 1 => w.back = 1 \/ w.d2 = 1
                 /\ w.yack = 1 => w.join1 = 1
                 /\ w.back = 1 \/ val.cond = 1
                 /\ w.back = 1 \/ w.d2 = 1 \/ val.d2.run = given
  /\ w.back = 1 => /\ w.d3 = 1 => val.d3 = val.d2
                   /\ val.d2 = val.d1 \/ w.d1 = 1
                   /\ val.d2 = val.d1 \/ w.join1 = 1
                   /\ val.cond = 1 \/ w.join1 = 1
                   /\ w.d3 = 1 \/ w.join1 = 1
                   /\ w.dsink = 1 \/ val.d1.run = given
  /\ w.k1 = 1 => /\ val.cond = 1
                 /\ w.kack = 1 \/ w.kback = 1
                 /\ w.kack = 1 \/ w.kjoin = 1
  /\ w.k2 = 1 => val.cond = 1 \/ r[2] = 1
  /\ w.d1 = 0 /\ w.d2 = 0 => val.d2 = val.d1

\* The environment's four counters are never more than one run apart.
Counting ==
  /\ ended <= started /\ started <= ended + 1
  /\ Len(results) <= given /\ given <= Len(results) + 1
  /\ ended <= Len(results) + 1 /\ Len(results) <= ended + 1
  /\ ended > Len(results) => started <= ended /\ given > Len(results)
  /\ Len(results) > ended => started > ended /\ given <= Len(results)

\* Every value inside belongs to a run that was given, the entry value to the
\* last, and the values that left are those of the runs in order.
Labelled ==
  /\ val.entry.run = given
  /\ val.mux.run <= given /\ val.d1.run <= given /\ val.d2.run <= given /\ val.d3.run <= given
  /\ \A i \in 1..Len(results) : results[i] = i

LoopInv == /\ LoopTypeOK
           /\ Granting /\ Picking /\ Comparing /\ Steering /\ GoingBack
           /\ Counting /\ Labelled

-----------------------------------------------------------------------------
(* What a step leaves alone, and what it changes.                          *)

AskedOf ==
  /\ Asked.init = w.init
  /\ Asked.mreq = R0
  /\ Asked.join0 = C2(w.init, And(w.mreq, 1 - val.index), w.join0)
  /\ Asked.join1 = C2(w.back, And(w.mreq, val.index), w.join1)
  /\ Asked.zreq = Or(w.join0, w.join1)
  /\ Asked.xack = C2(w.join0, w.share, w.xack)
  /\ Asked.yack = C2(w.join1, w.share, w.yack)
  /\ Asked.share = C2(w.cmp, w.dack, w.share)
  /\ Asked.cmp = C2(w.zreq, 1 - w.cfork, w.cmp)
  /\ Asked.creq = w.cmp
  /\ Asked.cfork = C2(w.dack, w.kack, w.cfork)
  /\ Asked.djoin = C2(w.creq, w.zreq, w.djoin)
  /\ Asked.dexit = And(w.djoin, 1 - val.cond)
  /\ Asked.dback = And(w.djoin, val.cond)
  /\ Asked.dack = Or(w.dsink, w.d1)
  /\ Asked.kjoin = C2(w.creq, w.mreq, w.kjoin)
  /\ Asked.kexit = And(w.kjoin, 1 - val.cond)
  /\ Asked.kback = And(w.kjoin, val.cond)
  /\ Asked.kack = Or(w.ksink, w.k1)
  /\ Asked.d1 = C2(w.dback, 1 - w.d2, w.d1)
  /\ Asked.d2 = C2(w.d1, 1 - w.d3, w.d2)
  /\ Asked.d3 = C2(w.d2, 1 - w.yack, w.d3)
  /\ Asked.back = w.d3
  /\ Asked.k1 = C2(w.kback, 1 - w.k2, w.k1)
  /\ Asked.k2 = C2(w.k1, 1 - r[2], w.k2)
  /\ Asked.dsink = w.dexit
  /\ Asked.ksink = w.kexit

\* What every LUT is asked to output, spelt out, before a step and after it.
LEMMA AskedIs == AskedOf /\ AskedOf'
<1>1. AskedOf
  BY DEF AskedOf, Asked, Pick, Joined, Controller
<1>2. AskedOf'
  BY DEF AskedOf, Asked, Pick, Joined, Controller
<1> QED BY <1>1, <1>2

ComputedOf ==
  /\ Computed.entry = val.entry
  /\ Computed.index = Or(g[2], A[2])
  /\ Computed.mux = IF val.index = 1 THEN Less(val.d3) ELSE val.entry
  /\ Computed.cmp = IF w.cmp = 1 THEN val.mux ELSE val.cmp
  /\ Computed.cond = IF val.cmp.left > 0 THEN 1 ELSE 0
  /\ Computed.d1 = IF w.d1 = 1 THEN val.mux ELSE val.d1
  /\ Computed.d2 = IF w.d2 = 1 THEN val.d1 ELSE val.d2
  /\ Computed.d3 = IF w.d3 = 1 THEN val.d2 ELSE val.d3

\* The same of the data.
LEMMA ComputedIs == ComputedOf /\ ComputedOf'
<1>1. ComputedOf
  BY DEF ComputedOf, Computed, Latch, Won
<1>2. ComputedOf'
  BY DEF ComputedOf, Computed, Latch, Won
<1> QED BY <1>1, <1>2

\* The decrement keeps the run and stays in range, zero included: it wraps.
LEMMA LessIs ==
  ASSUME NEW v \in Token
  PROVE  Less(v) \in Token /\ Less(v).run = v.run
BY LoopAssumption DEF Less, Token

\* Every wire has one of two levels.
LEMMA Levels ==
  ASSUME LoopTypeOK
  PROVE  /\ \A x \in Wire : w[x] = 0 \/ w[x] = 1
         /\ \A k \in {1, 2} : /\ r[k] = 0 \/ r[k] = 1
                              /\ g[k] = 0 \/ g[k] = 1
                              /\ A[k] = 0 \/ A[k] = 1
         /\ q = 0 \/ q = 1
         /\ R0 = 0 \/ R0 = 1
         /\ A0 = 0 \/ A0 = 1
         /\ val.index = 0 \/ val.index = 1
         /\ val.cond = 0 \/ val.cond = 1
BY DEF LoopTypeOK, CellTypeOK, Bit, Client

\* The condition is settled when it says whether iterations are left.
LEMMA Condition ==
  ASSUME LoopTypeOK
  PROVE  Settled("cond") <=> (val.cond = 1 <=> val.cmp.left > 0)
BY ComputedIs, Levels DEF ComputedOf, Settled

\* A settled mux shows the run of the input its select names.
LEMMA MuxRun ==
  ASSUME LoopTypeOK, Settled("mux")
  PROVE  val.mux.run = IF val.index = 1 THEN val.d3.run ELSE val.entry.run
BY ComputedIs, LessIs DEF ComputedOf, Settled, LoopTypeOK, Datum

\* Inputs are only given between runs.
LEMMA AnsweredIs ==
  ASSUME LoopTypeOK, NEW n \in Nat, Answered(n)
  PROVE  n <= ended /\ ended <= n /\ ended <= Len(results) /\ Len(results) <= ended
BY DEF Answered, LoopTypeOK

\* The ranges the counters and the data live in.
LEMMA Values ==
  ASSUME LoopTypeOK
  PROVE  /\ \A x \in Datum : val[x] \in Token /\ val[x].run \in Nat /\ val[x].left \in Nat
         /\ started \in Nat /\ given \in Nat /\ ended \in Nat /\ Len(results) \in Nat
BY LoopAssumption DEF LoopTypeOK, Token

\* What the switching of one wire does, and all it does.
LEMMA Switched ==
  ASSUME LoopTypeOK, NEW x \in Wire, Switch(x)
  PROVE  /\ w'[x] = 1 - w[x]
         /\ \A y \in Wire \ {x} : w'[y] = w[y]
         /\ UNCHANGED <<q, g, R0, A, r, A0, val, started, given>>
         /\ Settled("mux")' <=> Settled("mux")
         /\ Settled("cond")' <=> Settled("cond")
         /\ x # "ksink" => ended' = ended
         /\ x # "dsink" => results' = results
<1>1. /\ w'[x] = 1 - w[x]
      /\ \A y \in Wire \ {x} : w'[y] = w[y]
      /\ UNCHANGED <<q, g, R0, A, r, A0, val, started, given>>
      /\ x # "ksink" => ended' = ended
      /\ x # "dsink" => results' = results
  BY DEF Switch, LoopTypeOK, cell
<1>2. (Settled("mux")' <=> Settled("mux")) /\ (Settled("cond")' <=> Settled("cond"))
  BY <1>1, ComputedIs DEF ComputedOf, Settled
<1> QED BY <1>1, <1>2

\* What the settling of one datum does, and all it does.
LEMMA Followed ==
  ASSUME LoopTypeOK, NEW x \in DOMAIN val, Follow(x)
  PROVE  /\ val'[x] = Computed[x] /\ Computed[x] # val[x]
         /\ \A y \in DOMAIN val \ {x} : val'[y] = val[y]
         /\ UNCHANGED <<q, g, R0, A, r, A0, w, started, given, ended, results>>
BY DEF Follow, Settled, LoopTypeOK, cell, runs

\* Who is asked to switch and does not is still asked.
Steady == \A y \in Wire : w'[y] = w[y] /\ w[y] # Asked[y] => w[y] # Asked'[y]

\* Steadiness is what the property asks of the wires.
LEMMA Quiet ==
  ASSUME LoopTypeOK, LoopTypeOK',
         Steady
  PROVE  WiresStand
BY DEF Steady, WiresStand, Excited, LoopTypeOK

-----------------------------------------------------------------------------
(* The loop's LUTs and delay lines, one lemma each: when it switches, the  *)
(* invariant goes on to hold and no LUT is called back.  LoopTypeOK' is    *)
(* LoopTypeStep's, below.                                                  *)

\* The merge's request leaves its delay line, the select settled before it.
LEMMA MreqStep ==
  ASSUME LoopInv, LoopTypeOK', Switch("mreq"), w.mreq # Asked.mreq
  PROVE  LoopInv' /\ WiresStand
<1>1. /\ w'.mreq = 1 - w.mreq
      /\ \A y \in Wire \ {"mreq"} : w'[y] = w[y]
      /\ UNCHANGED <<q, g, R0, A, r, A0, val, started, given, ended, results>>
      /\ Settled("mux")' <=> Settled("mux")
      /\ Settled("cond")' <=> Settled("cond")
  BY Switched DEF LoopInv, Wire
<1>2. w.mreq # R0
  BY AskedIs DEF AskedOf
<1>3. w.mreq = 0 => val.index = Or(g[2], A[2])
  BY AskedIs, ComputedIs DEF AskedOf, ComputedOf, Switch, Matched, Captured, Settled
<1>4. Granting'
  BY <1>1, <1>2, <1>3, Levels DEF LoopInv, Granting, Picking, Or, Wire
<1>5. Picking'
  BY <1>1, <1>2, <1>3, Levels
     DEF LoopInv, Granting, Picking, Comparing, Steering, Or, Wire
<1>6. Comparing'
  BY <1>1, <1>2, <1>3, Levels DEF LoopInv, Picking, Comparing, Or, Wire
<1>7. Steering'
  BY <1>1, <1>2, <1>3, Levels
     DEF LoopInv, Granting, Picking, Comparing, Steering, Or, Wire
<1>8. GoingBack' /\ Counting' /\ Labelled'
  BY <1>1 DEF LoopInv, GoingBack, Counting, Labelled, Wire
<1>9. Steady
  BY <1>1, <1>2, <1>3, AskedIs, Levels
     DEF Steady, LoopInv, Granting, Picking, Comparing, Steering, AskedOf, C2, And,
         Or, Wire
<1> QED
  BY <1>4, <1>5, <1>6, <1>7, <1>8, <1>9, Quiet DEF LoopInv

\* The mux's join of the entry value.
LEMMA Join0Step ==
  ASSUME LoopInv, LoopTypeOK', Switch("join0"), w.join0 # Asked.join0
  PROVE  LoopInv' /\ WiresStand
<1>1. /\ w'.join0 = 1 - w.join0
      /\ \A y \in Wire \ {"join0"} : w'[y] = w[y]
      /\ UNCHANGED <<q, g, R0, A, r, A0, val, started, given, ended, results>>
      /\ Settled("mux")' <=> Settled("mux")
      /\ Settled("cond")' <=> Settled("cond")
  BY Switched DEF LoopInv, Wire
<1>2. w.join0 # C2(w.init, And(w.mreq, 1 - val.index), w.join0)
  BY AskedIs DEF AskedOf
<1>3. Picking'
  BY <1>1, <1>2, Levels
     DEF LoopInv, Granting, Picking, Comparing, Steering, GoingBack, C2, And, Wire
<1>4. Comparing'
  BY <1>1, <1>2, Levels DEF LoopInv, Comparing, C2, And, Wire
<1>5. Granting' /\ Steering' /\ GoingBack' /\ Counting' /\ Labelled'
  BY <1>1 DEF LoopInv, Granting, Steering, GoingBack, Counting, Labelled, Wire
<1>6. Steady
  BY <1>1, <1>2, AskedIs, Levels
     DEF Steady, LoopInv, Picking, AskedOf, C2, And, Or, Wire
<1> QED
  BY <1>3, <1>4, <1>5, <1>6, Quiet DEF LoopInv

\* The mux's join of the value coming back.
LEMMA Join1Step ==
  ASSUME LoopInv, LoopTypeOK', Switch("join1"), w.join1 # Asked.join1
  PROVE  LoopInv' /\ WiresStand
<1>1. /\ w'.join1 = 1 - w.join1
      /\ \A y \in Wire \ {"join1"} : w'[y] = w[y]
      /\ UNCHANGED <<q, g, R0, A, r, A0, val, started, given, ended, results>>
      /\ Settled("mux")' <=> Settled("mux")
      /\ Settled("cond")' <=> Settled("cond")
  BY Switched DEF LoopInv, Wire
<1>2. w.join1 # C2(w.back, And(w.mreq, val.index), w.join1)
  BY AskedIs DEF AskedOf
<1>3. Granting'
  BY <1>1, <1>2, Levels
     DEF LoopInv, Granting, Picking, Comparing, GoingBack, C2, And, Wire
<1>4. Picking'
  BY <1>1, <1>2, Levels
     DEF LoopInv, Granting, Picking, Comparing, Steering, GoingBack, C2, And, Wire
<1>5. GoingBack'
  BY <1>1, <1>2, Levels DEF LoopInv, Picking, GoingBack, C2, And, Wire
<1>6. Comparing' /\ Steering' /\ Counting' /\ Labelled'
  BY <1>1 DEF LoopInv, Comparing, Steering, Counting, Labelled, Wire
<1>7. Steady
  BY <1>1, <1>2, AskedIs, Levels
     DEF Steady, LoopInv, Picking, GoingBack, AskedOf, C2, And, Or, Wire
<1> QED
  BY <1>3, <1>4, <1>5, <1>6, <1>7, Quiet DEF LoopInv

\* The mux's request leaves its delay line, the value settled before it.
LEMMA ZreqStep ==
  ASSUME LoopInv, LoopTypeOK', Switch("zreq"), w.zreq # Asked.zreq
  PROVE  LoopInv' /\ WiresStand
<1>1. /\ w'.zreq = 1 - w.zreq
      /\ \A y \in Wire \ {"zreq"} : w'[y] = w[y]
      /\ UNCHANGED <<q, g, R0, A, r, A0, val, started, given, ended, results>>
      /\ Settled("mux")' <=> Settled("mux")
      /\ Settled("cond")' <=> Settled("cond")
  BY Switched DEF LoopInv, Wire
<1>2. w.zreq # Or(w.join0, w.join1)
  BY AskedIs DEF AskedOf
<1>3. w.zreq = 0 => /\ Settled("mux")
                    /\ w.xack = C2(w.join0, w.share, w.xack)
                    /\ w.yack = C2(w.join1, w.share, w.yack)
  BY AskedIs, ComputedIs DEF AskedOf, ComputedOf, Switch, Matched, Captured, Settled
<1>4. Granting'
  BY <1>1, <1>2, <1>3, Levels DEF LoopInv, Granting, Picking, Or, C2, Wire
<1>5. Picking'
  BY <1>1, <1>2, <1>3, Levels, Values
     DEF LoopInv, Granting, Picking, Comparing, Steering, Counting, Or, C2, Wire
<1>6. Comparing'
  BY <1>1, <1>2, <1>3, Levels
     DEF LoopInv, Picking, Comparing, Steering, Or, C2, Wire
<1>7. Steering'
  BY <1>1, <1>2, <1>3, Levels
     DEF LoopInv, Picking, Comparing, Steering, Or, C2, Wire
<1>8. GoingBack' /\ Counting' /\ Labelled'
  BY <1>1 DEF LoopInv, GoingBack, Counting, Labelled, Wire
<1>9. Steady
  BY <1>1, <1>2, <1>3, AskedIs, Levels
     DEF Steady, LoopInv, Granting, Picking, Comparing, Steering, AskedOf, C2, And,
         Or, Wire
<1> QED
  BY <1>4, <1>5, <1>6, <1>7, <1>8, <1>9, Quiet DEF LoopInv

\* The mux acknowledges the entry value.
LEMMA XackStep ==
  ASSUME LoopInv, LoopTypeOK', Switch("xack"), w.xack # Asked.xack
  PROVE  LoopInv' /\ WiresStand
<1>1. /\ w'.xack = 1 - w.xack
      /\ \A y \in Wire \ {"xack"} : w'[y] = w[y]
      /\ UNCHANGED <<q, g, R0, A, r, A0, val, started, given, ended, results>>
      /\ Settled("mux")' <=> Settled("mux")
      /\ Settled("cond")' <=> Settled("cond")
  BY Switched DEF LoopInv, Wire
<1>2. w.xack # C2(w.join0, w.share, w.xack)
  BY AskedIs DEF AskedOf
<1>3. Granting'
  BY <1>1, <1>2, Levels DEF LoopInv, Granting, Picking, C2, Wire
<1>4. Picking'
  BY <1>1, <1>2, Levels
     DEF LoopInv, Granting, Picking, Comparing, Steering, C2, Wire
<1>5. Comparing'
  BY <1>1, <1>2, Levels DEF LoopInv, Comparing, C2, Wire
<1>6. Steering' /\ GoingBack' /\ Counting' /\ Labelled'
  BY <1>1 DEF LoopInv, Steering, GoingBack, Counting, Labelled, Wire
<1>7. Steady
  BY <1>1, <1>2, AskedIs, Levels DEF Steady, LoopInv, AskedOf, C2, And, Or, Wire
<1> QED
  BY <1>3, <1>4, <1>5, <1>6, <1>7, Quiet DEF LoopInv

\* The mux acknowledges the value coming back.
LEMMA YackStep ==
  ASSUME LoopInv, LoopTypeOK', Switch("yack"), w.yack # Asked.yack
  PROVE  LoopInv' /\ WiresStand
<1>1. /\ w'.yack = 1 - w.yack
      /\ \A y \in Wire \ {"yack"} : w'[y] = w[y]
      /\ UNCHANGED <<q, g, R0, A, r, A0, val, started, given, ended, results>>
      /\ Settled("mux")' <=> Settled("mux")
      /\ Settled("cond")' <=> Settled("cond")
  BY Switched DEF LoopInv, Wire
<1>2. w.yack # C2(w.join1, w.share, w.yack)
  BY AskedIs DEF AskedOf
<1>3. Picking'
  BY <1>1, <1>2, Levels DEF LoopInv, Granting, Picking, Comparing, C2, Wire
<1>4. Comparing'
  BY <1>1, <1>2, Levels DEF LoopInv, Picking, Comparing, C2, Wire
<1>5. GoingBack'
  BY <1>1, <1>2, Levels DEF LoopInv, GoingBack, C2, Wire
<1>6. Granting' /\ Steering' /\ Counting' /\ Labelled'
  BY <1>1 DEF LoopInv, Granting, Steering, Counting, Labelled, Wire
<1>7. Steady
  BY <1>1, <1>2, AskedIs, Levels
     DEF Steady, LoopInv, Picking, GoingBack, AskedOf, C2, And, Or, Wire
<1> QED
  BY <1>3, <1>4, <1>5, <1>6, <1>7, Quiet DEF LoopInv

\* The fork of the merged value has both acknowledges, or has lost both.
LEMMA ShareStep ==
  ASSUME LoopInv, LoopTypeOK', Switch("share"), w.share # Asked.share
  PROVE  LoopInv' /\ WiresStand
<1>1. /\ w'.share = 1 - w.share
      /\ \A y \in Wire \ {"share"} : w'[y] = w[y]
      /\ UNCHANGED <<q, g, R0, A, r, A0, val, started, given, ended, results>>
      /\ Settled("mux")' <=> Settled("mux")
      /\ Settled("cond")' <=> Settled("cond")
  BY Switched DEF LoopInv, Wire
<1>2. w.share # C2(w.cmp, w.dack, w.share)
  BY AskedIs DEF AskedOf
<1>3. Picking'
  BY <1>1, <1>2, Levels DEF LoopInv, Picking, C2, Wire
<1>4. Comparing'
  BY <1>1, <1>2, Levels DEF LoopInv, Picking, Comparing, Steering, C2, Wire
<1>5. Steering'
  BY <1>1, <1>2, Levels DEF LoopInv, Comparing, Steering, C2, Wire
<1>6. Granting' /\ GoingBack' /\ Counting' /\ Labelled'
  BY <1>1 DEF LoopInv, Granting, GoingBack, Counting, Labelled, Wire
<1>7. Steady
  BY <1>1, <1>2, AskedIs, Levels
     DEF Steady, LoopInv, Granting, Picking, Comparing, Steering, AskedOf, C2, And,
         Or, Wire
<1> QED
  BY <1>3, <1>4, <1>5, <1>6, <1>7, Quiet DEF LoopInv

\* The compare's link opens or closes.  It closes when both branches have
\* acknowledged the condition, and opens on a new value.
LEMMA CmpStep ==
  ASSUME LoopInv, LoopTypeOK', Switch("cmp"), w.cmp # Asked.cmp
  PROVE  LoopInv' /\ WiresStand
<1>1. /\ w'.cmp = 1 - w.cmp
      /\ \A y \in Wire \ {"cmp"} : w'[y] = w[y]
      /\ UNCHANGED <<q, g, R0, A, r, A0, val, started, given, ended, results>>
      /\ Settled("mux")' <=> Settled("mux")
      /\ Settled("cond")' <=> Settled("cond")
  BY Switched DEF LoopInv, Wire
<1>2. w.cmp # C2(w.zreq, 1 - w.cfork, w.cmp)
  BY AskedIs DEF AskedOf
<1>3. w.cmp = 1 => val.cmp = val.mux
  BY AskedIs, ComputedIs DEF AskedOf, ComputedOf, Switch, Matched, Captured, Settled
<1>4. w.cmp = 0 => w.zreq = 1 /\ w.cfork = 0
  BY <1>2, Levels DEF LoopInv, C2, Wire
<1>5. w.cmp = 1 => /\ w.zreq = 0 /\ w.cfork = 1 /\ w.dack = 1 /\ w.kack = 1
                   /\ w.share = 1 /\ A0 = 1 /\ w.mreq = 0
                   /\ w.creq = 1 /\ w.kjoin = 1
  BY <1>2, Levels DEF LoopInv, Granting, Comparing, C2, Wire
<1>6. w.cmp = 1 => val.cond = 1 \/ w.ksink = 1
  BY <1>5, Levels DEF LoopInv, Steering, GoingBack, Wire
<1>7. w.cmp = 1 /\ r[2] = 1 => val.cond = 1
  <2>1. A0 = 1 /\ w.mreq = 0 /\ r[2] = 1 => started > ended /\ q = 1
    BY Levels, Values DEF LoopInv, Granting, Wire
  <2>2. w.ksink = 1 /\ started > ended => q = 0
    BY Levels, Values DEF LoopInv, Granting, Steering, Comparing, Wire
  <2> QED
    BY <1>5, <1>6, <2>1, <2>2 DEF LoopInv
<1>8. w.cmp = 1 => Len(results) <= ended
  BY <1>5, <1>6, Values DEF LoopInv, Comparing, Steering, Counting
<1>9. Granting' /\ Picking'
  BY <1>1, <1>4, <1>5, <1>7, Levels DEF LoopInv, Granting, Picking, Wire
<1>10. Comparing'
  BY <1>1, <1>4, <1>5, <1>3, Levels
     DEF LoopInv, Granting, Picking, Comparing, Steering, Wire
<1>11. Steering'
  BY <1>1, <1>4, <1>5, <1>8, Levels, Values DEF LoopInv, Steering, Wire
<1>12. GoingBack' /\ Counting' /\ Labelled'
  BY <1>1 DEF LoopInv, GoingBack, Counting, Labelled, Wire
<1>13. Steady
  BY <1>1, <1>4, <1>5, AskedIs, Levels
     DEF Steady, LoopInv, Picking, Comparing, AskedOf, C2, And, Or, Wire
<1> QED
  BY <1>9, <1>10, <1>11, <1>12, <1>13, Quiet DEF LoopInv

\* The condition's request leaves its delay line, the condition settled.
LEMMA CreqStep ==
  ASSUME LoopInv, LoopTypeOK', Switch("creq"), w.creq # Asked.creq
  PROVE  LoopInv' /\ WiresStand
<1>1. /\ w'.creq = 1 - w.creq
      /\ \A y \in Wire \ {"creq"} : w'[y] = w[y]
      /\ UNCHANGED <<q, g, R0, A, r, A0, val, started, given, ended, results>>
      /\ Settled("mux")' <=> Settled("mux")
      /\ Settled("cond")' <=> Settled("cond")
  BY Switched DEF LoopInv, Wire
<1>2. w.creq # w.cmp
  BY AskedIs DEF AskedOf
<1>3. w.creq = 0 => Settled("cond") /\ (w.cmp = 1 => val.cmp = val.mux)
  BY AskedIs, ComputedIs DEF AskedOf, ComputedOf, Switch, Matched, Captured, Settled
<1>4. Picking'
  BY <1>1, <1>2, <1>3, Levels DEF LoopInv, Picking, Comparing, Wire
<1>5. Comparing'
  BY <1>1, <1>2, <1>3, Levels DEF LoopInv, Picking, Comparing, Wire
<1>6. Steering'
  BY <1>1, <1>2, <1>3, Levels
     DEF LoopInv, Granting, Picking, Comparing, Steering, Wire
<1>7. Granting' /\ GoingBack' /\ Counting' /\ Labelled'
  BY <1>1 DEF LoopInv, Granting, GoingBack, Counting, Labelled, Wire
<1>8. Steady
  BY <1>1, <1>2, <1>3, AskedIs, Levels
     DEF Steady, LoopInv, Granting, Picking, Comparing, AskedOf, C2, And, Or, Wire
<1> QED
  BY <1>4, <1>5, <1>6, <1>7, <1>8, Quiet DEF LoopInv

\* The fork of the condition.
LEMMA CforkStep ==
  ASSUME LoopInv, LoopTypeOK', Switch("cfork"), w.cfork # Asked.cfork
  PROVE  LoopInv' /\ WiresStand
<1>1. /\ w'.cfork = 1 - w.cfork
      /\ \A y \in Wire \ {"cfork"} : w'[y] = w[y]
      /\ UNCHANGED <<q, g, R0, A, r, A0, val, started, given, ended, results>>
      /\ Settled("mux")' <=> Settled("mux")
      /\ Settled("cond")' <=> Settled("cond")
  BY Switched DEF LoopInv, Wire
<1>2. w.cfork # C2(w.dack, w.kack, w.cfork)
  BY AskedIs DEF AskedOf
<1>3. Comparing'
  BY <1>1, <1>2, Levels DEF LoopInv, Comparing, C2, Wire
<1>4. Steering'
  BY <1>1, <1>2, Levels DEF LoopInv, Comparing, Steering, C2, Wire
<1>5. Granting' /\ Picking' /\ GoingBack' /\ Counting' /\ Labelled'
  BY <1>1 DEF LoopInv, Granting, Picking, GoingBack, Counting, Labelled, Wire
<1>6. Steady
  BY <1>1, <1>2, AskedIs, Levels
     DEF Steady, LoopInv, Comparing, Steering, AskedOf, C2, And, Or, Wire
<1> QED
  BY <1>3, <1>4, <1>5, <1>6, Quiet DEF LoopInv

\* The value branch: condition and value have met.
LEMMA DjoinStep ==
  ASSUME LoopInv, LoopTypeOK', Switch("djoin"), w.djoin # Asked.djoin
  PROVE  LoopInv' /\ WiresStand
<1>1. /\ w'.djoin = 1 - w.djoin
      /\ \A y \in Wire \ {"djoin"} : w'[y] = w[y]
      /\ UNCHANGED <<q, g, R0, A, r, A0, val, started, given, ended, results>>
      /\ Settled("mux")' <=> Settled("mux")
      /\ Settled("cond")' <=> Settled("cond")
  BY Switched DEF LoopInv, Wire
<1>2. w.djoin # C2(w.creq, w.zreq, w.djoin)
  BY AskedIs DEF AskedOf
<1>3. Picking'
  BY <1>1, <1>2, Levels DEF LoopInv, Picking, C2, Wire
<1>4. Comparing'
  BY <1>1, <1>2, Levels DEF LoopInv, Comparing, C2, Wire
<1>5. Steering'
  BY <1>1, <1>2, Levels DEF LoopInv, Picking, Comparing, Steering, C2, Wire
<1>6. Granting' /\ GoingBack' /\ Counting' /\ Labelled'
  BY <1>1 DEF LoopInv, Granting, GoingBack, Counting, Labelled, Wire
<1>7. Steady
  BY <1>1, <1>2, AskedIs, Levels
     DEF Steady, LoopInv, Picking, Comparing, Steering, AskedOf, C2, And, Or, Wire
<1> QED
  BY <1>3, <1>4, <1>5, <1>6, <1>7, Quiet DEF LoopInv

\* The value is steered to the result ...
LEMMA DexitStep ==
  ASSUME LoopInv, LoopTypeOK', Switch("dexit"), w.dexit # Asked.dexit
  PROVE  LoopInv' /\ WiresStand
<1>1. /\ w'.dexit = 1 - w.dexit
      /\ \A y \in Wire \ {"dexit"} : w'[y] = w[y]
      /\ UNCHANGED <<q, g, R0, A, r, A0, val, started, given, ended, results>>
      /\ Settled("mux")' <=> Settled("mux")
      /\ Settled("cond")' <=> Settled("cond")
  BY Switched DEF LoopInv, Wire
<1>2. w.dexit # And(w.djoin, 1 - val.cond)
  BY AskedIs DEF AskedOf
<1>3. Picking'
  BY <1>1, <1>2, Levels DEF LoopInv, Picking, And, Wire
<1>4. Comparing'
  BY <1>1, <1>2, Levels DEF LoopInv, Comparing, And, Wire
<1>5. Steering'
  BY <1>1, <1>2, Levels, Values
     DEF LoopInv, Picking, Comparing, Steering, Counting, And, Wire
<1>6. Granting' /\ GoingBack' /\ Counting' /\ Labelled'
  BY <1>1 DEF LoopInv, Granting, GoingBack, Counting, Labelled, Wire
<1>7. Steady
  BY <1>1, <1>2, AskedIs, Levels
     DEF Steady, LoopInv, Comparing, Steering, AskedOf, C2, And, Or, Wire
<1> QED
  BY <1>3, <1>4, <1>5, <1>6, <1>7, Quiet DEF LoopInv

\* ... or back into the loop.
LEMMA DbackStep ==
  ASSUME LoopInv, LoopTypeOK', Switch("dback"), w.dback # Asked.dback
  PROVE  LoopInv' /\ WiresStand
<1>1. /\ w'.dback = 1 - w.dback
      /\ \A y \in Wire \ {"dback"} : w'[y] = w[y]
      /\ UNCHANGED <<q, g, R0, A, r, A0, val, started, given, ended, results>>
      /\ Settled("mux")' <=> Settled("mux")
      /\ Settled("cond")' <=> Settled("cond")
  BY Switched DEF LoopInv, Wire
<1>2. w.dback # And(w.djoin, val.cond)
  BY AskedIs DEF AskedOf
<1>3. Steering'
  BY <1>1, <1>2, Levels DEF LoopInv, Comparing, Steering, And, Wire
<1>4. GoingBack'
  BY <1>1, <1>2, Levels DEF LoopInv, Comparing, Steering, GoingBack, And, Wire
<1>5. Granting' /\ Picking' /\ Comparing' /\ Counting' /\ Labelled'
  BY <1>1 DEF LoopInv, Granting, Picking, Comparing, Counting, Labelled, Wire
<1>6. Steady
  BY <1>1, <1>2, AskedIs, Levels
     DEF Steady, LoopInv, Comparing, Steering, GoingBack, AskedOf, C2, And, Or, Wire
<1> QED
  BY <1>3, <1>4, <1>5, <1>6, Quiet DEF LoopInv

\* Either side's acknowledge is the value branch's.
LEMMA DackStep ==
  ASSUME LoopInv, LoopTypeOK', Switch("dack"), w.dack # Asked.dack
  PROVE  LoopInv' /\ WiresStand
<1>1. /\ w'.dack = 1 - w.dack
      /\ \A y \in Wire \ {"dack"} : w'[y] = w[y]
      /\ UNCHANGED <<q, g, R0, A, r, A0, val, started, given, ended, results>>
      /\ Settled("mux")' <=> Settled("mux")
      /\ Settled("cond")' <=> Settled("cond")
  BY Switched DEF LoopInv, Wire
<1>2. w.dack # Or(w.dsink, w.d1)
  BY AskedIs DEF AskedOf
<1>3. Comparing'
  BY <1>1, <1>2, Levels DEF LoopInv, Comparing, Steering, Or, Wire
<1>4. Steering'
  BY <1>1, <1>2, Levels, Values
     DEF LoopInv, Picking, Comparing, Steering, GoingBack, Counting, Or, Wire
<1>5. GoingBack'
  BY <1>1, <1>2, Levels DEF LoopInv, GoingBack, Or, Wire
<1>6. Granting' /\ Picking' /\ Counting' /\ Labelled'
  BY <1>1 DEF LoopInv, Granting, Picking, Counting, Labelled, Wire
<1>7. Steady
  BY <1>1, <1>2, AskedIs, Levels
     DEF Steady, LoopInv, Granting, Picking, Comparing, Steering, GoingBack,
         AskedOf, C2, And, Or, Wire
<1> QED
  BY <1>3, <1>4, <1>5, <1>6, <1>7, Quiet DEF LoopInv

\* The control branch: condition and control token have met.
LEMMA KjoinStep ==
  ASSUME LoopInv, LoopTypeOK', Switch("kjoin"), w.kjoin # Asked.kjoin
  PROVE  LoopInv' /\ WiresStand
<1>1. /\ w'.kjoin = 1 - w.kjoin
      /\ \A y \in Wire \ {"kjoin"} : w'[y] = w[y]
      /\ UNCHANGED <<q, g, R0, A, r, A0, val, started, given, ended, results>>
      /\ Settled("mux")' <=> Settled("mux")
      /\ Settled("cond")' <=> Settled("cond")
  BY Switched DEF LoopInv, Wire
<1>2. w.kjoin # C2(w.creq, w.mreq, w.kjoin)
  BY AskedIs DEF AskedOf
<1>3. Picking'
  BY <1>1, <1>2, Levels DEF LoopInv, Picking, C2, Wire
<1>4. Comparing'
  BY <1>1, <1>2, Levels DEF LoopInv, Comparing, C2, Wire
<1>5. Steering'
  BY <1>1, <1>2, Levels DEF LoopInv, Picking, Steering, C2, Wire
<1>6. GoingBack'
  BY <1>1, <1>2, Levels DEF LoopInv, Steering, GoingBack, C2, Wire
<1>7. Granting' /\ Counting' /\ Labelled'
  BY <1>1 DEF LoopInv, Granting, Counting, Labelled, Wire
<1>8. Steady
  BY <1>1, <1>2, AskedIs, Levels
     DEF Steady, LoopInv, Comparing, Steering, GoingBack, AskedOf, C2, And, Or, Wire
<1> QED
  BY <1>3, <1>4, <1>5, <1>6, <1>7, <1>8, Quiet DEF LoopInv

\* The control token is steered to the kernel's end ...
LEMMA KexitStep ==
  ASSUME LoopInv, LoopTypeOK', Switch("kexit"), w.kexit # Asked.kexit
  PROVE  LoopInv' /\ WiresStand
<1>1. /\ w'.kexit = 1 - w.kexit
      /\ \A y \in Wire \ {"kexit"} : w'[y] = w[y]
      /\ UNCHANGED <<q, g, R0, A, r, A0, val, started, given, ended, results>>
      /\ Settled("mux")' <=> Settled("mux")
      /\ Settled("cond")' <=> Settled("cond")
  BY Switched DEF LoopInv, Wire
<1>2. w.kexit # And(w.kjoin, 1 - val.cond)
  BY AskedIs DEF AskedOf
<1>3. Comparing'
  BY <1>1, <1>2, Levels DEF LoopInv, Comparing, And, Wire
<1>4. Steering'
  BY <1>1, <1>2, Levels DEF LoopInv, Comparing, Steering, GoingBack, And, Wire
<1>5. Granting' /\ Picking' /\ GoingBack' /\ Counting' /\ Labelled'
  BY <1>1 DEF LoopInv, Granting, Picking, GoingBack, Counting, Labelled, Wire
<1>6. Steady
  BY <1>1, <1>2, AskedIs, Levels
     DEF Steady, LoopInv, Comparing, Steering, GoingBack, AskedOf, C2, And, Or, Wire
<1> QED
  BY <1>3, <1>4, <1>5, <1>6, Quiet DEF LoopInv

\* ... or back into the loop.
LEMMA KbackStep ==
  ASSUME LoopInv, LoopTypeOK', Switch("kback"), w.kback # Asked.kback
  PROVE  LoopInv' /\ WiresStand
<1>1. /\ w'.kback = 1 - w.kback
      /\ \A y \in Wire \ {"kback"} : w'[y] = w[y]
      /\ UNCHANGED <<q, g, R0, A, r, A0, val, started, given, ended, results>>
      /\ Settled("mux")' <=> Settled("mux")
      /\ Settled("cond")' <=> Settled("cond")
  BY Switched DEF LoopInv, Wire
<1>2. w.kback # And(w.kjoin, val.cond)
  BY AskedIs DEF AskedOf
<1>3. Steering'
  BY <1>1, <1>2, Levels, Condition
     DEF LoopInv, Comparing, Steering, GoingBack, And, Wire
<1>4. GoingBack'
  BY <1>1, <1>2, Levels DEF LoopInv, GoingBack, And, Wire
<1>5. Granting' /\ Picking' /\ Comparing' /\ Counting' /\ Labelled'
  BY <1>1 DEF LoopInv, Granting, Picking, Comparing, Counting, Labelled, Wire
<1>6. Steady
  BY <1>1, <1>2, AskedIs, Levels, Condition
     DEF Steady, LoopInv, Comparing, Steering, GoingBack, AskedOf, C2, And, Or, Wire
<1> QED
  BY <1>3, <1>4, <1>5, <1>6, Quiet DEF LoopInv

\* Either side's acknowledge is the control branch's.
LEMMA KackStep ==
  ASSUME LoopInv, LoopTypeOK', Switch("kack"), w.kack # Asked.kack
  PROVE  LoopInv' /\ WiresStand
<1>1. /\ w'.kack = 1 - w.kack
      /\ \A y \in Wire \ {"kack"} : w'[y] = w[y]
      /\ UNCHANGED <<q, g, R0, A, r, A0, val, started, given, ended, results>>
      /\ Settled("mux")' <=> Settled("mux")
      /\ Settled("cond")' <=> Settled("cond")
  BY Switched DEF LoopInv, Wire
<1>2. w.kack # Or(w.ksink, w.k1)
  BY AskedIs DEF AskedOf
<1>3. Granting'
  BY <1>1, <1>2, Levels
     DEF LoopInv, Granting, Picking, Comparing, Steering, Or, Wire
<1>4. Comparing'
  BY <1>1, <1>2, Levels DEF LoopInv, Picking, Comparing, Steering, Or, Wire
<1>5. Steering'
  BY <1>1, <1>2, Levels, Condition
     DEF LoopInv, Granting, Picking, Comparing, Steering, GoingBack, Or, Wire
<1>6. GoingBack'
  BY <1>1, <1>2, Levels DEF LoopInv, GoingBack, Or, Wire
<1>7. Picking' /\ Counting' /\ Labelled'
  BY <1>1 DEF LoopInv, Picking, Counting, Labelled, Wire
<1>8. Steady
  BY <1>1, <1>2, AskedIs, Levels
     DEF Steady, LoopInv, Picking, Comparing, Steering, GoingBack, AskedOf, C2, And,
         Or, Wire
<1> QED
  BY <1>3, <1>4, <1>5, <1>6, <1>7, <1>8, Quiet DEF LoopInv

\* The three stages of the value on its way back.  The first captures.
LEMMA D1Step ==
  ASSUME LoopInv, LoopTypeOK', Switch("d1"), w.d1 # Asked.d1
  PROVE  LoopInv' /\ WiresStand
<1>1. /\ w'.d1 = 1 - w.d1
      /\ \A y \in Wire \ {"d1"} : w'[y] = w[y]
      /\ UNCHANGED <<q, g, R0, A, r, A0, val, started, given, ended, results>>
      /\ Settled("mux")' <=> Settled("mux")
      /\ Settled("cond")' <=> Settled("cond")
  BY Switched DEF LoopInv, Wire
<1>2. w.d1 # C2(w.dback, 1 - w.d2, w.d1)
  BY AskedIs DEF AskedOf
<1>3. w.d1 = 1 => val.d1 = val.mux
  BY AskedIs, ComputedIs DEF AskedOf, ComputedOf, Switch, Matched, Captured, Settled
<1>4. Granting'
  BY <1>1, <1>2, <1>3, Levels DEF LoopInv, Granting, C2, Wire
<1>5. Picking'
  BY <1>1, <1>2, <1>3, Levels
     DEF LoopInv, Picking, Comparing, Steering, GoingBack, C2, Wire
<1>6. Comparing'
  BY <1>1, <1>2, <1>3, Levels DEF LoopInv, Comparing, Steering, C2, Wire
<1>7. Steering'
  BY <1>1, <1>2, <1>3, Levels DEF LoopInv, Steering, C2, Wire
<1>8. GoingBack'
  <2>1. (w.back = 1 => val.d2 = val.d1 \/ w.d1 = 1)'
    <3>1. /\ w.djoin = 1 => (w.dack = 1 => w.dback = 1 \/ w.dexit = 1)
          /\ w.dack = 1 => w.djoin = 1 \/ w.share = 1
          /\ val.cond = 1 => w.dexit = 0
          /\ w.join1 = 1 => (w.yack = 1 => w.zreq = 1)
          /\ w.zreq = 1 => (w.share = 1 => w.cmp = 1)
          /\ w.join1 = 1 => w.d3 = 1 \/ w.yack = 1
          /\ w.share = 1 => (w.creq = 1 => w.djoin = 1)
          /\ w.join1 = 1 => (w.d1 = 1 /\ w.d2 = 1 => w.d3 = 0)
          /\ w.d1 = 1 => val.cond = 1
          /\ w.d1 = 1 => w.dack = 1 \/ w.dback = 1
          /\ w.back = 1 => val.d2 = val.d1 \/ w.join1 = 1
          /\ w.share = 1 => (w.cmp = 1 => w.creq = 1)
      BY DEF LoopInv, Picking, Comparing, Steering, GoingBack
    <3>2. QED
      BY <3>1, <1>1, <1>2, <1>3, Levels DEF LoopInv, Wire, C2
  <2>2. (w.d1 = 1 => (w.d3 = 1 => w.back = 1 \/ w.d2 = 1))'
    <3>1. /\ w.dback = 1 => w.d1 = 1 \/ w.djoin = 1
          /\ A0 = 1 => (w.zreq = 1 => w.share = 1)
          /\ w.share = 1 => (w.djoin = 1 => w.dack = 1)
          /\ w.zreq = 1 => (w.djoin = 1 => w.creq = 1)
          /\ w.djoin = 1 => w.share = 1 \/ w.zreq = 1
          /\ w.creq = 1 => w.kjoin = 1 \/ w.mreq = 1
          /\ R0 = 1 => (w.kjoin = 1 => w.mreq = 1)
          /\ w.kack = 1 => A0 = 1 \/ R0 = 1
          /\ w.kjoin = 1 => R0 = 1 \/ w.kack = 1
          /\ w.join1 = 1 => (w.d3 = 1 => w.back = 1)
          /\ w.join0 = 1 => (w.d3 = 1 => w.d2 = 1)
          /\ w.mreq = 1 => (w.zreq = 1 => w.join0 = 1 \/ w.join1 = 1)
          /\ w.dback = 1 => (w.dack = 1 => w.d1 = 1)
      BY DEF LoopInv, Picking, Comparing, Steering
    <3>2. QED
      BY <3>1, <1>1, <1>2, <1>3, Levels DEF LoopInv, Wire, C2
  <2>3. (w.d1 = 1 => val.cond = 1)'
    BY <1>1, <1>2, <1>3, Levels DEF LoopInv, Steering, C2, Wire
  <2>4. (w.d1 = 1 => w.dack = 1 \/ w.dback = 1)'
    BY <1>1, <1>2, <1>3, Levels DEF LoopInv, GoingBack, C2, Wire
  <2>5. (w.d1 = 1 => val.mux.run = given)'
    <3>1. /\ val.cond = 1 => w.dsink = 0
          /\ w.dback = 1 => val.cond = 1
          /\ w.dback = 1 => w.d1 = 1 \/ w.djoin = 1
          /\ w.join1 = 1 => w.d3 = 1 \/ w.yack = 1
          /\ w.zreq = 1 => (w.yack = 1 => w.share = 1)
          /\ w.zreq = 1 => Settled("mux")
          /\ w.share = 1 => (w.djoin = 1 => w.dack = 1)
          /\ w.djoin = 1 => w.share = 1 \/ w.zreq = 1
          /\ val.d2 = val.d1 \/ w.d1 = 1 \/ w.d2 = 1
          /\ w.d3 = 1 => (w.back = 1 => val.d3 = val.d2)
          /\ w.zreq = 1 => (val.index = 1 => w.join1 = 1 \/ w.yack = 1)
          /\ w.join1 = 1 => (w.d3 = 1 => w.back = 1)
          /\ w.back = 1 => w.dsink = 1 \/ val.d1.run = given
          /\ w.dback = 1 => (w.dack = 1 => w.d1 = 1)
          /\ val.entry.run = given
      BY Levels DEF LoopInv, Picking, Comparing, Steering, GoingBack, Labelled, Wire
    <3>2. QED
      BY <3>1, <1>1, <1>2, <1>3, Levels, MuxRun, Values
         DEF LoopInv, Counting, Wire, C2
  <2>6. (w.d2 = 1 => w.back = 1 \/ w.d1 = 1 \/ val.d1.run = given)'
    BY <1>1, <1>2, <1>3, Levels DEF LoopInv, GoingBack, C2, Wire
  <2>7. (val.d2 = val.d1 \/ w.d1 = 1 \/ w.d2 = 1)'
    BY <1>1, <1>2, <1>3, Levels DEF LoopInv, GoingBack, C2, Wire
  <2> QED
    BY <1>1, <2>1, <2>2, <2>3, <2>4, <2>5, <2>6, <2>7 DEF LoopInv, GoingBack, Wire
<1>9. Counting' /\ Labelled'
  BY <1>1 DEF LoopInv, Counting, Labelled, Wire
<1>10. Steady
  BY <1>1, <1>2, <1>3, AskedIs, Levels
     DEF Steady, LoopInv, Steering, GoingBack, AskedOf, C2, And, Or, Wire
<1> QED
  BY <1>4, <1>5, <1>6, <1>7, <1>8, <1>9, <1>10, Quiet DEF LoopInv

\* The second stage.
LEMMA D2Step ==
  ASSUME LoopInv, LoopTypeOK', Switch("d2"), w.d2 # Asked.d2
  PROVE  LoopInv' /\ WiresStand
<1>1. /\ w'.d2 = 1 - w.d2
      /\ \A y \in Wire \ {"d2"} : w'[y] = w[y]
      /\ UNCHANGED <<q, g, R0, A, r, A0, val, started, given, ended, results>>
      /\ Settled("mux")' <=> Settled("mux")
      /\ Settled("cond")' <=> Settled("cond")
  BY Switched DEF LoopInv, Wire
<1>2. w.d2 # C2(w.d1, 1 - w.d3, w.d2)
  BY AskedIs DEF AskedOf
<1>3. w.d2 = 1 => val.d2 = val.d1
  BY AskedIs, ComputedIs DEF AskedOf, ComputedOf, Switch, Matched, Captured, Settled
<1>4. Granting'
  BY <1>1, <1>2, <1>3, Levels DEF LoopInv, Granting, C2, Wire
<1>5. Picking'
  BY <1>1, <1>2, <1>3, Levels DEF LoopInv, Picking, C2, Wire
<1>6. Steering'
  BY <1>1, <1>2, <1>3, Levels DEF LoopInv, Comparing, Steering, GoingBack, C2, Wire
<1>7. GoingBack'
  BY <1>1, <1>2, <1>3, Levels, Values DEF LoopInv, GoingBack, C2, Wire
<1>8. Comparing' /\ Counting' /\ Labelled'
  BY <1>1 DEF LoopInv, Comparing, Counting, Labelled, Wire
<1>9. Steady
  BY <1>1, <1>2, <1>3, AskedIs, Levels
     DEF Steady, LoopInv, AskedOf, C2, And, Or, Wire
<1> QED
  BY <1>4, <1>5, <1>6, <1>7, <1>8, <1>9, Quiet DEF LoopInv

\* The third stage.
LEMMA D3Step ==
  ASSUME LoopInv, LoopTypeOK', Switch("d3"), w.d3 # Asked.d3
  PROVE  LoopInv' /\ WiresStand
<1>1. /\ w'.d3 = 1 - w.d3
      /\ \A y \in Wire \ {"d3"} : w'[y] = w[y]
      /\ UNCHANGED <<q, g, R0, A, r, A0, val, started, given, ended, results>>
      /\ Settled("mux")' <=> Settled("mux")
      /\ Settled("cond")' <=> Settled("cond")
  BY Switched DEF LoopInv, Wire
<1>2. w.d3 # C2(w.d2, 1 - w.yack, w.d3)
  BY AskedIs DEF AskedOf
<1>3. w.d3 = 1 => val.d3 = val.d2
  BY AskedIs, ComputedIs DEF AskedOf, ComputedOf, Switch, Matched, Captured, Settled
<1>4. Granting'
  BY <1>1, <1>2, <1>3, Levels DEF LoopInv, Granting, C2, Wire
<1>5. Picking'
  BY <1>1, <1>2, <1>3, Levels DEF LoopInv, Picking, C2, Wire
<1>6. Steering'
  BY <1>1, <1>2, <1>3, Levels DEF LoopInv, Steering, C2, Wire
<1>7. GoingBack'
  BY <1>1, <1>2, <1>3, Levels, Values DEF LoopInv, Picking, GoingBack, C2, Wire
<1>8. Comparing' /\ Counting' /\ Labelled'
  BY <1>1 DEF LoopInv, Comparing, Counting, Labelled, Wire
<1>9. Steady
  BY <1>1, <1>2, <1>3, AskedIs, Levels
     DEF Steady, LoopInv, Picking, GoingBack, AskedOf, C2, And, Or, Wire
<1> QED
  BY <1>4, <1>5, <1>6, <1>7, <1>8, <1>9, Quiet DEF LoopInv

\* The value that came back is announced to the mux.
LEMMA BackStep ==
  ASSUME LoopInv, LoopTypeOK', Switch("back"), w.back # Asked.back
  PROVE  LoopInv' /\ WiresStand
<1>1. /\ w'.back = 1 - w.back
      /\ \A y \in Wire \ {"back"} : w'[y] = w[y]
      /\ UNCHANGED <<q, g, R0, A, r, A0, val, started, given, ended, results>>
      /\ Settled("mux")' <=> Settled("mux")
      /\ Settled("cond")' <=> Settled("cond")
  BY Switched DEF LoopInv, Wire
<1>2. w.back # w.d3
  BY AskedIs DEF AskedOf
<1>3. w.back = 0 => /\ w.d1 = 1 => val.d1 = val.mux
                    /\ w.d2 = 1 => val.d2 = val.d1
                    /\ w.d3 = 1 => val.d3 = val.d2
  BY AskedIs, ComputedIs DEF AskedOf, ComputedOf, Switch, Matched, Captured, Settled
<1>4. Granting'
  BY <1>1, <1>2, <1>3, Levels DEF LoopInv, Granting, Wire
<1>5. Picking'
  BY <1>1, <1>2, <1>3, Levels DEF LoopInv, Picking, Wire
<1>6. GoingBack'
  BY <1>1, <1>2, <1>3, Levels, Values
     DEF LoopInv, Picking, Comparing, Steering, GoingBack, Wire
<1>7. Comparing' /\ Steering' /\ Counting' /\ Labelled'
  BY <1>1 DEF LoopInv, Comparing, Steering, Counting, Labelled, Wire
<1>8. Steady
  BY <1>1, <1>2, <1>3, AskedIs, Levels
     DEF Steady, LoopInv, Picking, GoingBack, AskedOf, C2, And, Or, Wire
<1> QED
  BY <1>4, <1>5, <1>6, <1>7, <1>8, Quiet DEF LoopInv

\* The stages of the control token on its way back.
LEMMA K1Step ==
  ASSUME LoopInv, LoopTypeOK', Switch("k1"), w.k1 # Asked.k1
  PROVE  LoopInv' /\ WiresStand
<1>1. /\ w'.k1 = 1 - w.k1
      /\ \A y \in Wire \ {"k1"} : w'[y] = w[y]
      /\ UNCHANGED <<q, g, R0, A, r, A0, val, started, given, ended, results>>
      /\ Settled("mux")' <=> Settled("mux")
      /\ Settled("cond")' <=> Settled("cond")
  BY Switched DEF LoopInv, Wire
<1>2. w.k1 # C2(w.kback, 1 - w.k2, w.k1)
  BY AskedIs DEF AskedOf
<1>3. Granting'
  BY <1>1, <1>2, Levels, Condition
     DEF LoopInv, Granting, Picking, Comparing, Steering, C2, Wire
<1>4. Picking'
  BY <1>1, <1>2, Levels
     DEF LoopInv, Picking, Comparing, Steering, GoingBack, C2, Wire
<1>5. Steering'
  BY <1>1, <1>2, Levels DEF LoopInv, Steering, C2, Wire
<1>6. GoingBack'
  BY <1>1, <1>2, Levels, Condition
     DEF LoopInv, Comparing, Steering, GoingBack, C2, Wire
<1>7. Comparing' /\ Counting' /\ Labelled'
  BY <1>1 DEF LoopInv, Comparing, Counting, Labelled, Wire
<1>8. Steady
  BY <1>1, <1>2, AskedIs, Levels
     DEF Steady, LoopInv, Steering, GoingBack, AskedOf, C2, And, Or, Wire
<1> QED
  BY <1>3, <1>4, <1>5, <1>6, <1>7, <1>8, Quiet DEF LoopInv

\* The second; the third is the request r[2].
LEMMA K2Step ==
  ASSUME LoopInv, LoopTypeOK', Switch("k2"), w.k2 # Asked.k2
  PROVE  LoopInv' /\ WiresStand
<1>1. /\ w'.k2 = 1 - w.k2
      /\ \A y \in Wire \ {"k2"} : w'[y] = w[y]
      /\ UNCHANGED <<q, g, R0, A, r, A0, val, started, given, ended, results>>
      /\ Settled("mux")' <=> Settled("mux")
      /\ Settled("cond")' <=> Settled("cond")
  BY Switched DEF LoopInv, Wire
<1>2. w.k2 # C2(w.k1, 1 - r[2], w.k2)
  BY AskedIs DEF AskedOf
<1>3. Picking'
  BY <1>1, <1>2, Levels DEF LoopInv, Picking, C2, Wire
<1>4. GoingBack'
  BY <1>1, <1>2, Levels DEF LoopInv, GoingBack, C2, Wire
<1>5. Granting' /\ Comparing' /\ Steering' /\ Counting' /\ Labelled'
  BY <1>1 DEF LoopInv, Granting, Comparing, Steering, Counting, Labelled, Wire
<1>6. Steady
  BY <1>1, <1>2, AskedIs, Levels DEF Steady, LoopInv, AskedOf, C2, And, Or, Wire
<1> QED
  BY <1>3, <1>4, <1>5, <1>6, Quiet DEF LoopInv

\* The environment takes a value: it is the one of the latest run, with no
\* iterations left, and the first of that run to leave.
LEMMA DsinkStep ==
  ASSUME LoopInv, LoopTypeOK', Switch("dsink"), w.dsink # Asked.dsink
  PROVE  LoopInv' /\ WiresStand
<1>1. /\ w'.dsink = 1 - w.dsink
      /\ \A y \in Wire \ {"dsink"} : w'[y] = w[y]
      /\ UNCHANGED <<q, g, R0, A, r, A0, val, started, given, ended>>
      /\ Settled("mux")' <=> Settled("mux")
      /\ Settled("cond")' <=> Settled("cond")
  BY Switched DEF LoopInv, Wire
<1>2. w.dsink # w.dexit
  BY AskedIs DEF AskedOf
<1>3. ASSUME w.dsink = 0
      PROVE  /\ w.dexit = 1 /\ w.dack = 0 /\ w.djoin = 1 /\ w.share = 0
             /\ w.zreq = 1 /\ w.creq = 1 /\ w.cmp = 1 /\ w.cfork = 0
             /\ val.cond = 0
             /\ given > Len(results)
  BY <1>2, <1>3, Levels DEF LoopInv, Picking, Comparing, Steering, Wire
<1>4. ASSUME w.dsink = 1 PROVE w.dexit = 0 /\ w.dack = 1 /\ val.cond = 0
  BY <1>2, <1>4, Levels DEF LoopInv, Comparing, Steering, Wire
<1>5. ASSUME w.dsink = 0 PROVE val.mux.run = given /\ val.mux.left = 0
  <2>1. val.cmp = val.mux /\ Settled("cond") /\ Settled("mux")
    BY <1>3, <1>5 DEF LoopInv, Picking, Comparing
  <2>2. val.mux.left = 0
    BY <2>1, <1>3, <1>5, Condition, Values DEF LoopInv, Datum
  <2>3. val.index = 1 => val.d3.run = given
    <3>1. val.index = 1 => w.join1 = 1 /\ w.d3 = 1 /\ w.back = 1
      BY <1>3, <1>5, Levels DEF LoopInv, Picking, Wire
    <3>2. val.index = 1 => val.d3 = val.d2 /\ val.d2 = val.d1 /\ val.d1.run = given
      BY <3>1, <1>3, <1>5, Levels DEF LoopInv, GoingBack, Wire
    <3> QED BY <3>2
  <2> QED
    BY <2>1, <2>2, <2>3, MuxRun DEF LoopInv, Labelled
<1>6. ASSUME w.dsink = 0 PROVE started > ended \/ ended > Len(results)
  <2>1. R0 = 1
    BY <1>3, <1>6, Levels DEF LoopInv, Picking, Comparing, Steering, Wire
  <2> QED
    BY <2>1, <1>3, <1>6, Levels DEF LoopInv, Granting, Steering, Wire
<1>7. /\ w.dsink = 0 => results' = Append(results, given) /\ given = Len(results) + 1
      /\ w.dsink = 1 => results' = results
  <2>1. results' = IF w.dsink = 0
                   THEN Append(results, IF val.mux.left = 0 THEN val.mux.run ELSE 0)
                   ELSE results
    BY DEF Switch
  <2>2. given > Len(results) => given = Len(results) + 1
    BY Values DEF LoopInv, Counting
  <2> QED
    BY <2>1, <2>2, <1>3, <1>5
<1>8. /\ Len(results') = IF w.dsink = 0 THEN Len(results) + 1 ELSE Len(results)
      /\ \A i \in 1..Len(results') : results'[i] = IF i = Len(results) + 1 THEN given ELSE results[i]
  <2>1. results \in Seq(Nat) /\ given \in Nat
    BY DEF LoopInv, LoopTypeOK
  <2>2. CASE w.dsink = 0
    BY <1>7, <2>1, <2>2, AppendProperties
  <2>3. CASE w.dsink = 1
    BY <1>7, <2>1, <2>3
  <2> QED
    BY <2>2, <2>3, Levels DEF LoopInv, Wire
<1>9. Counting'
  BY <1>1, <1>3, <1>6, <1>7, <1>8, Levels, Values DEF LoopInv, Counting, Wire
<1>10. Labelled'
  <2>1. \A i \in 1..Len(results') : results'[i] = i
    BY <1>7, <1>8, Levels, Values DEF LoopInv, Labelled, Wire
  <2> QED
    BY <2>1, <1>1 DEF LoopInv, Labelled
<1>11. Granting' /\ GoingBack'
  BY <1>1, <1>3, <1>4, Levels
     DEF LoopInv, Granting, Picking, Comparing, Steering, GoingBack, Wire
<1>12. Picking'
  BY <1>1, <1>3, <1>4, <1>8, Levels, Values
     DEF LoopInv, Granting, Picking, Comparing, Steering, Wire
<1>13. Comparing'
  BY <1>1, <1>3, <1>4, <1>8, Levels, Values DEF LoopInv, Comparing, Wire
<1>14. Steering'
  <2>1. (w.ksink = 1 => Len(results) <= ended)'
    <3>1. /\ w.dexit = 1 => (w.dack = 1 => w.dsink = 1)
          /\ w.dexit = 1 => w.djoin = 1 \/ w.dsink = 1
          /\ w.share = 1 => (w.djoin = 1 => w.dack = 1)
          /\ w.zreq = 1 => (w.djoin = 1 => w.creq = 1)
          /\ w.djoin = 1 => w.share = 1 \/ w.zreq = 1
          /\ w.creq = 1 => w.cmp = 1 \/ w.share = 1
          /\ w.ksink = 1 => Len(results) <= ended
          /\ w.ksink = 1 => ended > Len(results) \/ w.cfork = 1 \/ w.dsink = 1
          /\ w.cmp = 1 => (w.cfork = 1 => w.dack = 1)
      BY DEF LoopInv, Picking, Comparing, Steering
    <3>2. QED
      BY <3>1, <1>1, <1>2, <1>3, <1>4, <1>6, <1>8, Levels, Values
         DEF LoopInv, Counting, Wire
  <2>2. (Len(results) > ended => w.cmp = 1)'
    <3>1. /\ w.dexit = 1 => (w.dack = 1 => w.dsink = 1)
          /\ w.dexit = 1 => w.djoin = 1 \/ w.dsink = 1
          /\ w.share = 1 => (w.djoin = 1 => w.dack = 1)
          /\ w.zreq = 1 => (w.djoin = 1 => w.creq = 1)
          /\ w.djoin = 1 => w.share = 1 \/ w.zreq = 1
          /\ w.creq = 1 => w.cmp = 1 \/ w.share = 1
          /\ Len(results) > ended => w.cmp = 1
      BY DEF LoopInv, Picking, Comparing, Steering
    <3>2. QED
      BY <3>1, <1>1, <1>2, <1>3, <1>4, <1>6, <1>8, Levels, Values
         DEF LoopInv, Counting, Wire
  <2>3. (w.cfork = 1 => (w.dsink = 1 => w.dack = 1))'
    BY <1>1, <1>2, <1>3, <1>4, <1>6, <1>8, Levels
       DEF LoopInv, Picking, Comparing, Steering, Wire
  <2>4. (w.dsink = 1 => (w.d2 = 1 => w.d3 = 1))'
    <3>1. /\ w.dexit = 1 => (w.dack = 1 => w.dsink = 1)
          /\ val.cond = 1 => w.dexit = 0
          /\ w.join1 = 1 => w.d3 = 1 \/ w.yack = 1
          /\ w.dexit = 1 => w.djoin = 1 \/ w.dsink = 1
          /\ w.share = 1 => (w.djoin = 1 => w.dack = 1)
          /\ w.zreq = 1 => (w.yack = 1 => w.share = 1)
          /\ w.djoin = 1 => w.share = 1 \/ w.zreq = 1
          /\ w.d2 = 1 => w.back = 1 \/ val.cond = 1
          /\ w.back = 1 => val.cond = 1 \/ w.join1 = 1
      BY DEF LoopInv, Picking, Comparing, Steering, GoingBack
    <3>2. QED
      BY <3>1, <1>1, <1>2, <1>3, <1>4, <1>6, <1>8, Levels DEF LoopInv, Wire
  <2>5. (w.dexit = 1 => (w.dack = 1 => w.dsink = 1))'
    BY <1>1, <1>2, <1>3, <1>4, <1>6, <1>8, Levels DEF LoopInv, Steering, Wire
  <2>6. (w.dexit = 1 => w.djoin = 1 \/ w.dsink = 1)'
    BY <1>1, <1>2, <1>3, <1>4, <1>6, <1>8, Levels DEF LoopInv, Steering, Wire
  <2>7. (w.dexit = 1 => w.dsink = 1 \/ given > Len(results))'
    BY <1>1, <1>2, <1>3, <1>4, <1>6, <1>8, Levels, Values
       DEF LoopInv, Counting, Wire
  <2>8. (w.djoin = 1 => w.dexit = 1 \/ given > Len(results))'
    BY <1>1, <1>2, <1>3, <1>4, <1>6, <1>8, Levels, Values
       DEF LoopInv, Steering, Counting, Wire
  <2>9. (w.dsink = 1 => Len(results) > ended \/ w.cfork = 1 \/ w.ksink = 1)'
    <3>1. /\ w.dexit = 1 => (w.dack = 1 => w.dsink = 1)
          /\ w.dexit = 1 => w.djoin = 1 \/ w.dsink = 1
          /\ A0 = 1 => (w.zreq = 1 => w.share = 1)
          /\ w.share = 1 => (w.djoin = 1 => w.dack = 1)
          /\ w.zreq = 1 => (w.djoin = 1 => w.creq = 1)
          /\ w.djoin = 1 => w.share = 1 \/ w.zreq = 1
          /\ w.creq = 1 => w.kjoin = 1 \/ w.mreq = 1
          /\ w.kack = 1 => A0 = 1 \/ R0 = 1
          /\ R0 = 1 => w.ksink = 1 \/ started > ended
          /\ w.kjoin = 1 => R0 = 1 \/ w.kack = 1
          /\ w.mreq = 1 => R0 = 1 \/ w.kjoin = 1
      BY DEF LoopInv, Granting, Picking, Comparing, Steering
    <3>2. QED
      BY <3>1, <1>1, <1>2, <1>3, <1>4, <1>6, <1>8, Levels, Values
         DEF LoopInv, Counting, Wire
  <2>10. (w.dsink = 1 => w.dack = 1 \/ w.dexit = 1)'
    BY <1>1, <1>2, <1>3, <1>4, <1>6, <1>8, Levels DEF LoopInv, Steering, Wire
  <2>11. (w.ksink = 1 => ended > Len(results) \/ w.cfork = 1 \/ w.dsink = 1)'
    <3>1. /\ w.djoin = 1 => (w.dack = 1 => w.dback = 1 \/ w.dexit = 1)
          /\ w.dack = 1 => w.djoin = 1 \/ w.share = 1
          /\ w.dback = 1 => val.cond = 1
          /\ val.cond = 1 => w.dsink = 0
          /\ w.share = 1 => (w.creq = 1 => w.djoin = 1)
          /\ w.dsink = 1 => w.dack = 1 \/ w.dexit = 1
          /\ R0 = 1 => (w.kjoin = 1 => w.mreq = 1)
          /\ w.kack = 1 => w.cfork = 1 \/ w.cmp = 1
          /\ w.mreq = 1 => (w.kjoin = 1 => w.creq = 1)
          /\ w.kjoin = 1 => R0 = 1 \/ w.kack = 1
          /\ w.ksink = 1 => w.kack = 1 \/ w.kjoin = 1
          /\ w.share = 1 => (w.cmp = 1 => w.creq = 1)
      BY DEF LoopInv, Comparing, Steering
    <3>2. QED
      BY <3>1, <1>1, <1>2, <1>3, <1>4, <1>6, <1>8, Levels, Values
         DEF LoopInv, Counting, Wire
  <2> QED
    BY <1>1, <2>1, <2>2, <2>3, <2>4, <2>5, <2>6, <2>7, <2>8, <2>9, <2>10, <2>11
       DEF LoopInv, Steering, Wire
<1>15. Steady
  BY <1>1, <1>3, <1>4, AskedIs, Levels
     DEF Steady, LoopInv, AskedOf, C2, And, Or, Wire
<1> QED
  BY <1>9, <1>10, <1>11, <1>12, <1>13, <1>14, <1>15, Quiet DEF LoopInv

\* The environment takes the control token: a run was under way.
LEMMA KsinkStep ==
  ASSUME LoopInv, LoopTypeOK', Switch("ksink"), w.ksink # Asked.ksink
  PROVE  LoopInv' /\ WiresStand
<1>1. /\ w'.ksink = 1 - w.ksink
      /\ \A y \in Wire \ {"ksink"} : w'[y] = w[y]
      /\ UNCHANGED <<q, g, R0, A, r, A0, val, started, given, results>>
      /\ Settled("mux")' <=> Settled("mux")
      /\ Settled("cond")' <=> Settled("cond")
  BY Switched DEF LoopInv, Wire
<1>2. w.ksink # w.kexit
  BY AskedIs DEF AskedOf
<1>3. ended' = IF w.ksink = 0 THEN ended + 1 ELSE ended
  BY DEF Switch
<1>4. ASSUME w.ksink = 0
      PROVE  /\ w.kexit = 1 /\ w.kack = 0 /\ w.kjoin = 1 /\ R0 = 1 /\ w.mreq = 1
             /\ w.creq = 1 /\ val.cond = 0
             /\ started > ended
  BY <1>2, <1>4, Levels DEF LoopInv, Granting, Comparing, Steering, Wire
<1>5. ASSUME w.ksink = 0 PROVE w.cmp = 1 /\ w.cfork = 0 /\ w.zreq = 1
  BY <1>4, <1>5, Levels DEF LoopInv, Granting, Picking, Comparing, Steering, Wire
<1>6. ASSUME w.ksink = 1 PROVE w.kexit = 0 /\ w.kack = 1
  BY <1>2, <1>6, Levels DEF LoopInv, Steering, Wire
<1>7. ASSUME w.ksink = 0
      PROVE  given > Len(results) \/ (w.dsink = 1 /\ Len(results) > ended)
  BY <1>4, <1>5, <1>7, Levels DEF LoopInv, Picking, Steering, Wire
<1>8. Counting'
  BY <1>1, <1>3, <1>4, <1>7, Levels, Values DEF LoopInv, Counting, Wire
<1>9. Labelled' /\ GoingBack'
  BY <1>1 DEF LoopInv, Labelled, GoingBack, Wire
<1>10. Granting'
  BY <1>1, <1>3, <1>4, <1>5, <1>6, Levels, Values
     DEF LoopInv, Granting, Picking, Comparing, Steering, GoingBack, Counting, Wire
<1>11. Picking'
  BY <1>1, <1>3, <1>4, <1>5, <1>6, Levels, Values
     DEF LoopInv, Granting, Picking, Comparing, Steering, Wire
<1>12. Comparing'
  BY <1>1, <1>3, <1>4, <1>5, <1>6, Levels, Values DEF LoopInv, Comparing, Wire
<1>13. Steering'
  <2>1. (w.ksink = 1 => Len(results) <= ended)'
    BY <1>1, <1>2, <1>3, <1>4, <1>5, <1>6, <1>7, Levels, Values
       DEF LoopInv, Counting, Wire
  <2>2. (Len(results) > ended => w.cmp = 1)'
    BY <1>1, <1>2, <1>3, <1>4, <1>5, <1>6, <1>7, Levels, Values
       DEF LoopInv, Steering, Counting, Wire
  <2>3. (w.dsink = 1 => Len(results) > ended \/ w.cfork = 1 \/ w.ksink = 1)'
    <3>1. /\ w.cmp = 1 => w.share = 1 \/ w.zreq = 1
          /\ val.cond = 1 => w.dsink = 0
          /\ w.k1 = 1 => val.cond = 1
          /\ w.zreq = 1 => w.djoin = 1 \/ w.mreq = 1
          /\ w.zreq = 1 => (w.djoin = 1 => w.creq = 1)
          /\ w.creq = 1 => w.kjoin = 1 \/ w.mreq = 1
          /\ w.kback = 1 => (w.kack = 1 => w.k1 = 1)
          /\ w.kjoin = 1 => (w.kack = 1 => w.kback = 1 \/ w.kexit = 1)
          /\ w.mreq = 1 => (w.kack = 1 => w.kjoin = 1)
          /\ w.kack = 1 => w.cfork = 1 \/ w.cmp = 1
          /\ w.ksink = 1 => w.kack = 1 \/ w.kexit = 1
          /\ w.share = 1 => (w.cmp = 1 => w.creq = 1)
      BY DEF LoopInv, Picking, Comparing, Steering, GoingBack
    <3>2. QED
      BY <3>1, <1>1, <1>2, <1>3, <1>4, <1>5, <1>6, <1>7, Levels, Values
         DEF LoopInv, Counting, Wire
  <2>4. (w.kexit = 1 => (w.kack = 1 => w.ksink = 1))'
    BY <1>1, <1>2, <1>3, <1>4, <1>5, <1>6, <1>7, Levels DEF LoopInv, Steering, Wire
  <2>5. (w.kexit = 1 => w.kjoin = 1 \/ w.ksink = 1)'
    BY <1>1, <1>2, <1>3, <1>4, <1>5, <1>6, <1>7, Levels DEF LoopInv, Steering, Wire
  <2>6. (w.ksink = 1 => ended > Len(results) \/ w.cfork = 1 \/ w.dsink = 1)'
    <3>1. /\ w.cmp = 1 => w.share = 1 \/ w.zreq = 1
          /\ w.dexit = 1 => w.dsink = 1 \/ given > Len(results)
          /\ w.share = 1 => (w.creq = 1 => w.djoin = 1)
          /\ w.djoin = 1 => w.dexit = 1 \/ given > Len(results)
          /\ w.zreq = 1 => w.djoin = 1 \/ given > Len(results)
          /\ w.kexit = 1 => (w.kack = 1 => w.ksink = 1)
          /\ R0 = 1 => (w.kjoin = 1 => w.mreq = 1)
          /\ Len(results) > ended => w.cmp = 1
          /\ w.kexit = 1 => w.kjoin = 1 \/ w.ksink = 1
          /\ w.mreq = 1 => (w.kjoin = 1 => w.creq = 1)
          /\ w.kjoin = 1 => R0 = 1 \/ w.kack = 1
      BY DEF LoopInv, Picking, Comparing, Steering
    <3>2. QED
      BY <3>1, <1>1, <1>2, <1>3, <1>4, <1>5, <1>6, <1>7, Levels, Values
         DEF LoopInv, Counting, Wire
  <2>7. (w.ksink = 1 => w.kack = 1 \/ w.kexit = 1)'
    BY <1>1, <1>2, <1>3, <1>4, <1>5, <1>6, <1>7, Levels DEF LoopInv, Steering, Wire
  <2>8. (w.ksink = 1 => w.kack = 1 \/ w.kjoin = 1)'
    BY <1>1, <1>2, <1>3, <1>4, <1>5, <1>6, <1>7, Levels DEF LoopInv, Steering, Wire
  <2> QED
    BY <1>1, <2>1, <2>2, <2>3, <2>4, <2>5, <2>6, <2>7, <2>8
       DEF LoopInv, Steering, Wire
<1>14. Steady
  BY <1>1, <1>4, <1>5, <1>6, AskedIs, Levels
     DEF Steady, LoopInv, AskedOf, C2, And, Or, Wire
<1> QED
  BY <1>8, <1>9, <1>10, <1>11, <1>12, <1>13, <1>14, Quiet DEF LoopInv

-----------------------------------------------------------------------------
(* The data, the arbiter's LUTs, and the environment.                      *)

\* The select settles.
LEMMA FollowIndexStep ==
  ASSUME LoopInv, LoopTypeOK', Follow("index")
  PROVE  LoopInv' /\ WiresStand
<1>1. /\ val'.index = Or(g[2], A[2])
      /\ val'.index # val.index
      /\ val'.entry = val.entry /\ val'.mux = val.mux /\ val'.cmp = val.cmp /\ val'.cond = val.cond
      /\ val'.d1 = val.d1 /\ val'.d2 = val.d2 /\ val'.d3 = val.d3
      /\ UNCHANGED <<q, g, R0, A, r, A0, w, started, given, ended, results>>
  BY Followed, ComputedIs DEF LoopInv, LoopTypeOK, Datum, ComputedOf, Or
<1>2. /\ Settled("cond")' <=> Settled("cond")
  BY <1>1, ComputedIs DEF ComputedOf, Settled
<1>3. Granting'
  BY <1>1, <1>2, Levels
     DEF LoopInv, Granting, Picking, Comparing, Steering, Or, Wire
<1>4. Picking'
  BY <1>1, <1>2, Levels
     DEF LoopInv, Granting, Picking, Comparing, Steering, Or, Wire
<1>5. Comparing'
  BY <1>1, <1>2, Levels
     DEF LoopInv, Granting, Picking, Comparing, Steering, Or, Wire
<1>6. Steering' /\ GoingBack' /\ Counting' /\ Labelled'
  BY <1>1, <1>2 DEF LoopInv, Steering, GoingBack, Counting, Labelled, Wire
<1>7. Steady
  BY <1>1, <1>2, AskedIs, Levels
     DEF Steady, LoopInv, Granting, Picking, Comparing, Steering, GoingBack,
         AskedOf, C2, And, Or, Wire
<1> QED
  BY <1>3, <1>4, <1>5, <1>6, <1>7, Quiet DEF LoopInv

\* The mux settles.
LEMMA FollowMuxStep ==
  ASSUME LoopInv, LoopTypeOK', Follow("mux")
  PROVE  LoopInv' /\ WiresStand
<1>1. /\ val'.mux = IF val.index = 1 THEN Less(val.d3) ELSE val.entry
      /\ val'.mux # val.mux
      /\ val'.entry = val.entry /\ val'.index = val.index /\ val'.cmp = val.cmp /\ val'.cond = val.cond
      /\ val'.d1 = val.d1 /\ val'.d2 = val.d2 /\ val'.d3 = val.d3
      /\ UNCHANGED <<q, g, R0, A, r, A0, w, started, given, ended, results>>
  BY Followed, ComputedIs DEF LoopInv, LoopTypeOK, Datum, ComputedOf
<1>2. /\ ~Settled("mux") /\ Settled("mux")'
      /\ Settled("cond")' <=> Settled("cond")
  BY <1>1, ComputedIs DEF ComputedOf, Settled
<1>3. Granting'
  BY <1>1, <1>2, Levels DEF LoopInv, Granting, GoingBack, Wire
<1>4. Picking'
  BY <1>1, <1>2, Levels DEF LoopInv, Picking, Wire
<1>5. Comparing'
  BY <1>1, <1>2, Levels DEF LoopInv, Picking, Comparing, Wire
<1>6. GoingBack'
  BY <1>1, <1>2, Levels, MuxRun, Values
     DEF LoopInv, Picking, Comparing, Steering, GoingBack, Wire
<1>7. Labelled'
  <2>1. val.d3 \in Token /\ val.entry.run <= given /\ val.d3.run <= given
    BY Values DEF LoopInv, Labelled, Datum
  <2>2. val'.mux.run <= given
    BY <1>1, <2>1, LessIs
  <2> QED
    BY <1>1, <2>2 DEF LoopInv, Labelled
<1>8. Steering' /\ Counting'
  BY <1>1, <1>2 DEF LoopInv, Steering, Counting, Wire
<1>9. Steady
  BY <1>1, <1>2, AskedIs, Levels DEF Steady, LoopInv, AskedOf, C2, And, Or, Wire
<1> QED
  BY <1>3, <1>4, <1>5, <1>6, <1>7, <1>8, <1>9, Quiet DEF LoopInv

\* The compare's latch follows.
LEMMA FollowComparedStep ==
  ASSUME LoopInv, LoopTypeOK', Follow("cmp")
  PROVE  LoopInv' /\ WiresStand
<1>1. /\ val'.cmp = IF w.cmp = 1 THEN val.mux ELSE val.cmp
      /\ val'.cmp # val.cmp
      /\ val'.entry = val.entry /\ val'.index = val.index /\ val'.mux = val.mux /\ val'.cond = val.cond
      /\ val'.d1 = val.d1 /\ val'.d2 = val.d2 /\ val'.d3 = val.d3
      /\ UNCHANGED <<q, g, R0, A, r, A0, w, started, given, ended, results>>
  BY Followed, ComputedIs DEF LoopInv, LoopTypeOK, Datum, ComputedOf
<1>2. /\ Settled("mux")' <=> Settled("mux")
  BY <1>1, ComputedIs DEF ComputedOf, Settled
<1>3. Comparing'
  BY <1>1, <1>2, Levels DEF LoopInv, Comparing, Wire
<1>4. Steering'
  BY <1>1, <1>2, Levels, Condition
     DEF LoopInv, Picking, Comparing, Steering, GoingBack, Wire
<1>5. Granting' /\ Picking' /\ GoingBack' /\ Counting' /\ Labelled'
  BY <1>1, <1>2 DEF LoopInv, Granting, Picking, GoingBack, Counting, Labelled, Wire
<1>6. Steady
  BY <1>1, <1>2, AskedIs, Levels DEF Steady, LoopInv, AskedOf, C2, And, Or, Wire
<1> QED
  BY <1>3, <1>4, <1>5, <1>6, Quiet DEF LoopInv

\* The condition settles.
LEMMA FollowConditionStep ==
  ASSUME LoopInv, LoopTypeOK', Follow("cond")
  PROVE  LoopInv' /\ WiresStand
<1>1. /\ val'.cond = IF val.cmp.left > 0 THEN 1 ELSE 0
      /\ val'.cond # val.cond
      /\ val'.entry = val.entry /\ val'.index = val.index /\ val'.mux = val.mux /\ val'.cmp = val.cmp
      /\ val'.d1 = val.d1 /\ val'.d2 = val.d2 /\ val'.d3 = val.d3
      /\ UNCHANGED <<q, g, R0, A, r, A0, w, started, given, ended, results>>
  BY Followed, ComputedIs DEF LoopInv, LoopTypeOK, Datum, ComputedOf
<1>2. /\ Settled("mux")' <=> Settled("mux")
      /\ ~Settled("cond") /\ Settled("cond")'
  BY <1>1, ComputedIs DEF ComputedOf, Settled
<1>3. Granting'
  BY <1>1, <1>2, Levels DEF LoopInv, Granting, Picking, Comparing, Wire
<1>4. Comparing'
  BY <1>1, <1>2, Levels DEF LoopInv, Granting, Picking, Comparing, Steering, Wire
<1>5. Steering'
  BY <1>1, <1>2, Levels DEF LoopInv, Picking, Comparing, Steering, Wire
<1>6. GoingBack'
  BY <1>1, <1>2, Levels, Condition
     DEF LoopInv, Granting, Picking, Comparing, Steering, GoingBack, Wire
<1>7. Picking' /\ Counting' /\ Labelled'
  BY <1>1, <1>2 DEF LoopInv, Picking, Counting, Labelled, Wire
<1>8. Steady
  BY <1>1, <1>2, AskedIs, Levels
     DEF Steady, LoopInv, Picking, Comparing, Steering, AskedOf, C2, And, Or, Wire
<1> QED
  BY <1>3, <1>4, <1>5, <1>6, <1>7, <1>8, Quiet DEF LoopInv

\* The latches of the way back follow.
LEMMA FollowValue1Step ==
  ASSUME LoopInv, LoopTypeOK', Follow("d1")
  PROVE  LoopInv' /\ WiresStand
<1>1. /\ val'.d1 = IF w.d1 = 1 THEN val.mux ELSE val.d1
      /\ val'.d1 # val.d1
      /\ val'.entry = val.entry /\ val'.index = val.index /\ val'.mux = val.mux /\ val'.cmp = val.cmp
      /\ val'.cond = val.cond /\ val'.d2 = val.d2 /\ val'.d3 = val.d3
      /\ UNCHANGED <<q, g, R0, A, r, A0, w, started, given, ended, results>>
  BY Followed, ComputedIs DEF LoopInv, LoopTypeOK, Datum, ComputedOf
<1>2. /\ Settled("mux")' <=> Settled("mux")
      /\ Settled("cond")' <=> Settled("cond")
  BY <1>1, ComputedIs DEF ComputedOf, Settled
<1>3. Granting'
  BY <1>1, <1>2, Levels DEF LoopInv, Granting, Wire
<1>4. GoingBack'
  BY <1>1, <1>2, Levels, Values
     DEF LoopInv, Granting, Picking, Comparing, Steering, GoingBack, Wire
<1>5. Labelled'
  BY <1>1, <1>2, Values, LessIs DEF LoopInv, Labelled, LoopTypeOK, Datum
<1>6. Picking' /\ Comparing' /\ Steering' /\ Counting'
  BY <1>1, <1>2 DEF LoopInv, Picking, Comparing, Steering, Counting, Wire
<1>7. Steady
  BY <1>1, <1>2, AskedIs, Levels DEF Steady, LoopInv, AskedOf, C2, And, Or, Wire
<1> QED
  BY <1>3, <1>4, <1>5, <1>6, <1>7, Quiet DEF LoopInv

\* The second latch.
LEMMA FollowValue2Step ==
  ASSUME LoopInv, LoopTypeOK', Follow("d2")
  PROVE  LoopInv' /\ WiresStand
<1>1. /\ val'.d2 = IF w.d2 = 1 THEN val.d1 ELSE val.d2
      /\ val'.d2 # val.d2
      /\ val'.entry = val.entry /\ val'.index = val.index /\ val'.mux = val.mux /\ val'.cmp = val.cmp
      /\ val'.cond = val.cond /\ val'.d1 = val.d1 /\ val'.d3 = val.d3
      /\ UNCHANGED <<q, g, R0, A, r, A0, w, started, given, ended, results>>
  BY Followed, ComputedIs DEF LoopInv, LoopTypeOK, Datum, ComputedOf
<1>2. /\ Settled("mux")' <=> Settled("mux")
      /\ Settled("cond")' <=> Settled("cond")
  BY <1>1, ComputedIs DEF ComputedOf, Settled
<1>3. GoingBack'
  BY <1>1, <1>2, Levels, Values DEF LoopInv, Picking, GoingBack, Wire
<1>4. Labelled'
  BY <1>1, <1>2, Values, LessIs DEF LoopInv, Labelled, LoopTypeOK, Datum
<1>5. Granting' /\ Picking' /\ Comparing' /\ Steering' /\ Counting'
  BY <1>1, <1>2 DEF LoopInv, Granting, Picking, Comparing, Steering, Counting, Wire
<1>6. Steady
  BY <1>1, <1>2, AskedIs, Levels DEF Steady, LoopInv, AskedOf, C2, And, Or, Wire
<1> QED
  BY <1>3, <1>4, <1>5, <1>6, Quiet DEF LoopInv

\* The third latch, which the mux may be reading.
LEMMA FollowValue3Step ==
  ASSUME LoopInv, LoopTypeOK', Follow("d3")
  PROVE  LoopInv' /\ WiresStand
<1>1. /\ val'.d3 = IF w.d3 = 1 THEN val.d2 ELSE val.d3
      /\ val'.d3 # val.d3
      /\ val'.entry = val.entry /\ val'.index = val.index /\ val'.mux = val.mux /\ val'.cmp = val.cmp
      /\ val'.cond = val.cond /\ val'.d1 = val.d1 /\ val'.d2 = val.d2
      /\ UNCHANGED <<q, g, R0, A, r, A0, w, started, given, ended, results>>
  BY Followed, ComputedIs DEF LoopInv, LoopTypeOK, Datum, ComputedOf
<1>2. /\ val.index = 0 => (Settled("mux")' <=> Settled("mux"))
      /\ Settled("cond")' <=> Settled("cond")
  BY <1>1, ComputedIs DEF ComputedOf, Settled
<1>3. Granting'
  BY <1>1, <1>2, Levels DEF LoopInv, Granting, Picking, Comparing, GoingBack, Wire
<1>4. Picking'
  BY <1>1, <1>2, Levels DEF LoopInv, Picking, GoingBack, Wire
<1>5. Comparing'
  BY <1>1, <1>2, Levels DEF LoopInv, Granting, Picking, Comparing, GoingBack, Wire
<1>6. GoingBack'
  BY <1>1, <1>2, Levels DEF LoopInv, GoingBack, Wire
<1>7. Labelled'
  BY <1>1, <1>2, Values, LessIs DEF LoopInv, Labelled, LoopTypeOK, Datum
<1>8. Steering' /\ Counting'
  BY <1>1, <1>2 DEF LoopInv, Steering, Counting, Wire
<1>9. Steady
  BY <1>1, <1>2, AskedIs, Levels DEF Steady, LoopInv, AskedOf, C2, And, Or, Wire
<1> QED
  BY <1>3, <1>4, <1>5, <1>6, <1>7, <1>8, <1>9, Quiet DEF LoopInv

\* The arbiter decides, between two services of the loop.
LEMMA DecideStep ==
  ASSUME LoopInv, LoopTypeOK', Decide, UNCHANGED <<r, A0, w, val, runs>>
  PROVE  LoopInv' /\ WiresStand
<1>1. /\ A0 = 0 /\ q' = 1 - q
      /\ q = 0 => r[1] = 1 /\ r[2] = 0
      /\ q = 1 => r[1] = 0 /\ r[2] = 1
      /\ UNCHANGED <<g, R0, A, r, A0, w, val, started, given, ended, results>>
  <2>1. /\ A0 = 0 /\ q' = 1 - q
        /\ q = 0 => r[1] = 1 /\ r[2] = 0
        /\ q = 1 => r[1] = 0 /\ r[2] = 1
    BY Levels DEF LoopInv, Decide, Decision, C2
  <2>2. /\ UNCHANGED <<g, R0, A, r, A0, w, val, started, given, ended, results>>
    BY DEF Decide, runs
  <2> QED
    BY <2>1, <2>2
<1>2. /\ Settled("mux")' <=> Settled("mux")
      /\ Settled("cond")' <=> Settled("cond")
  BY <1>1, ComputedIs DEF ComputedOf, Settled
<1>3. Granting'
  BY <1>1, <1>2, Levels, Values
     DEF LoopInv, Granting, Picking, Comparing, Steering, GoingBack, Counting, Wire
<1>4. Picking'
  BY <1>1, <1>2, Levels DEF LoopInv, Granting, Picking, Steering, GoingBack, Wire
<1>5. Comparing' /\ Steering' /\ GoingBack' /\ Counting' /\ Labelled'
  BY <1>1, <1>2
     DEF LoopInv, Comparing, Steering, GoingBack, Counting, Labelled, Wire
<1>6. Steady
  BY <1>1, <1>2, AskedIs, Levels DEF Steady, LoopInv, AskedOf, C2, And, Or, Wire
<1> QED
  BY <1>3, <1>4, <1>5, <1>6, Quiet DEF LoopInv

\* The start token is granted, or its grant falls.
LEMMA Grant1Step ==
  ASSUME LoopInv, LoopTypeOK', SetGrant(1), UNCHANGED <<r, A0, w, val, runs>>
  PROVE  LoopInv' /\ WiresStand
<1>1. /\ g'[1] = (IF r[1] = 1 /\ q = 1 THEN 1 ELSE 0) /\ g'[1] # g[1] /\ g'[2] = g[2]
      /\ UNCHANGED <<q, R0, A, r, A0, w, val, started, given, ended, results>>
  BY DEF LoopInv, runs, LoopTypeOK, CellTypeOK, Client, SetGrant, Grant, Favours
<1>2. /\ Settled("mux")' <=> Settled("mux")
      /\ Settled("cond")' <=> Settled("cond")
  BY <1>1, ComputedIs DEF ComputedOf, Settled
<1>3. Granting'
  BY <1>1, <1>2, Levels DEF LoopInv, Granting, Wire
<1>4. Picking' /\ Comparing' /\ Steering' /\ GoingBack' /\ Counting' /\ Labelled'
  BY <1>1, <1>2
     DEF LoopInv, Picking, Comparing, Steering, GoingBack, Counting, Labelled, Wire
<1>5. Steady
  BY <1>1, <1>2, AskedIs, Levels DEF Steady, LoopInv, AskedOf, C2, And, Or, Wire
<1> QED
  BY <1>3, <1>4, <1>5, Quiet DEF LoopInv

\* The token coming back is granted, or its grant falls.
LEMMA Grant2Step ==
  ASSUME LoopInv, LoopTypeOK', SetGrant(2), UNCHANGED <<r, A0, w, val, runs>>
  PROVE  LoopInv' /\ WiresStand
<1>1. /\ g'[2] = (IF r[2] = 1 /\ q = 0 THEN 1 ELSE 0) /\ g'[2] # g[2] /\ g'[1] = g[1]
      /\ UNCHANGED <<q, R0, A, r, A0, w, val, started, given, ended, results>>
  BY DEF LoopInv, runs, LoopTypeOK, CellTypeOK, Client, SetGrant, Grant, Favours
<1>2. /\ Settled("mux")' <=> Settled("mux")
      /\ Settled("cond")' <=> Settled("cond")
  BY <1>1, ComputedIs DEF ComputedOf, Settled
<1>3. Granting'
  BY <1>1, <1>2, Levels DEF LoopInv, Granting, Wire
<1>4. Picking' /\ Comparing' /\ Steering' /\ GoingBack' /\ Counting' /\ Labelled'
  BY <1>1, <1>2
     DEF LoopInv, Picking, Comparing, Steering, GoingBack, Counting, Labelled, Wire
<1>5. Steady
  BY <1>1, <1>2, AskedIs, Levels DEF Steady, LoopInv, AskedOf, C2, And, Or, Wire
<1> QED
  BY <1>3, <1>4, <1>5, Quiet DEF LoopInv

\* The arbiter's request to the loop.
LEMMA RequestStep ==
  ASSUME LoopInv, LoopTypeOK', SetRequest, UNCHANGED <<r, A0, w, val, runs>>
  PROVE  LoopInv' /\ WiresStand
<1>r. /\ Request = 0 \/ Request = 1
      /\ Request = 1 <=> (r[1] = 1 /\ q = 1) \/ (r[2] = 1 /\ q = 0)
  <2>1. (\E k \in Client : Grant(k) = 1) <=> Grant(1) = 1 \/ Grant(2) = 1
    BY DEF Client
  <2>2. (Favours(1) <=> q = 1) /\ (Favours(2) <=> q = 0)
    BY DEF Favours
  <2>3. \A k \in {1, 2} : Grant(k) = 1 <=> r[k] = 1 /\ Favours(k)
    BY DEF Grant
  <2> QED
    BY <2>1, <2>2, <2>3 DEF Request
<1>1. /\ R0' = 1 - R0
      /\ R0 = 0 => (r[1] = 1 /\ q = 1) \/ (r[2] = 1 /\ q = 0)
      /\ R0 = 1 => (r[1] = 1 => q = 0) /\ (r[2] = 1 => q = 1)
      /\ UNCHANGED <<q, g, A, r, A0, w, val, started, given, ended, results>>
  <2>1. /\ R0' = 1 - R0
        /\ R0 = 0 => (r[1] = 1 /\ q = 1) \/ (r[2] = 1 /\ q = 0)
        /\ R0 = 1 => (r[1] = 1 => q = 0) /\ (r[2] = 1 => q = 1)
    BY <1>r, Levels DEF LoopInv, SetRequest
  <2>2. /\ UNCHANGED <<q, g, A, r, A0, w, val, started, given, ended, results>>
    BY DEF SetRequest, runs
  <2> QED
    BY <2>1, <2>2
<1>2. /\ Settled("mux")' <=> Settled("mux")
      /\ Settled("cond")' <=> Settled("cond")
  BY <1>1, ComputedIs DEF ComputedOf, Settled
<1>3. Granting'
  BY <1>1, <1>2, Levels DEF LoopInv, Granting, Picking, Comparing, GoingBack, Wire
<1>4. Picking'
  BY <1>1, <1>2, Levels DEF LoopInv, Granting, Picking, Steering, Wire
<1>5. Steering'
  BY <1>1, <1>2, Levels DEF LoopInv, Granting, Picking, Comparing, Steering, Wire
<1>6. Comparing' /\ GoingBack' /\ Counting' /\ Labelled'
  BY <1>1, <1>2 DEF LoopInv, Comparing, GoingBack, Counting, Labelled, Wire
<1>7. Steady
  BY <1>1, <1>2, AskedIs, Levels
     DEF Steady, LoopInv, Granting, Picking, Steering, AskedOf, C2, And, Or, Wire
<1> QED
  BY <1>3, <1>4, <1>5, <1>6, <1>7, Quiet DEF LoopInv

\* The start token is acknowledged.
LEMMA Answer1Step ==
  ASSUME LoopInv, LoopTypeOK', SetAnswer(1), UNCHANGED <<r, A0, w, val, runs>>
  PROVE  LoopInv' /\ WiresStand
<1>1. /\ A'[1] = C2(g[1], A0, A[1]) /\ A'[1] # A[1] /\ A'[2] = A[2]
      /\ UNCHANGED <<q, g, R0, r, A0, w, val, started, given, ended, results>>
  BY DEF LoopInv, runs, LoopTypeOK, CellTypeOK, Client, SetAnswer, Answer, C2
<1>2. /\ Settled("mux")' <=> Settled("mux")
      /\ Settled("cond")' <=> Settled("cond")
  BY <1>1, ComputedIs DEF ComputedOf, Settled
<1>3. Granting'
  BY <1>1, <1>2, Levels DEF LoopInv, Granting, C2, Wire
<1>4. Picking' /\ Comparing' /\ Steering' /\ GoingBack' /\ Counting' /\ Labelled'
  BY <1>1, <1>2
     DEF LoopInv, Picking, Comparing, Steering, GoingBack, Counting, Labelled, Wire
<1>5. Steady
  BY <1>1, <1>2, AskedIs, Levels DEF Steady, LoopInv, AskedOf, C2, And, Or, Wire
<1> QED
  BY <1>3, <1>4, <1>5, Quiet DEF LoopInv

\* The token coming back is acknowledged.
LEMMA Answer2Step ==
  ASSUME LoopInv, LoopTypeOK', SetAnswer(2), UNCHANGED <<r, A0, w, val, runs>>
  PROVE  LoopInv' /\ WiresStand
<1>1. /\ A'[2] = C2(g[2], A0, A[2]) /\ A'[2] # A[2] /\ A'[1] = A[1]
      /\ UNCHANGED <<q, g, R0, r, A0, w, val, started, given, ended, results>>
  BY DEF LoopInv, runs, LoopTypeOK, CellTypeOK, Client, SetAnswer, Answer, C2
<1>2. /\ Settled("mux")' <=> Settled("mux")
      /\ Settled("cond")' <=> Settled("cond")
  BY <1>1, ComputedIs DEF ComputedOf, Settled
<1>3. Granting'
  BY <1>1, <1>2, Levels DEF LoopInv, Granting, Picking, C2, Wire
<1>4. Picking' /\ Comparing' /\ Steering' /\ GoingBack' /\ Counting' /\ Labelled'
  BY <1>1, <1>2
     DEF LoopInv, Picking, Comparing, Steering, GoingBack, Counting, Labelled, Wire
<1>5. Steady
  BY <1>1, <1>2, AskedIs, Levels DEF Steady, LoopInv, AskedOf, C2, And, Or, Wire
<1> QED
  BY <1>3, <1>4, <1>5, Quiet DEF LoopInv

\* The third control stage: the token asks for another iteration, or has it.
LEMMA ReturnStep ==
  ASSUME LoopInv, LoopTypeOK', Return
  PROVE  LoopInv' /\ WiresStand
<1>1. /\ r'[2] = C2(w.k2, 1 - A[2], r[2]) /\ r'[2] # r[2] /\ r'[1] = r[1]
      /\ UNCHANGED <<q, g, R0, A, A0, w, val, started, given, ended, results>>
  BY DEF LoopInv, Return, Returning, runs, cell, LoopTypeOK, Client, C2
<1>2. /\ Settled("mux")' <=> Settled("mux")
      /\ Settled("cond")' <=> Settled("cond")
  BY <1>1, ComputedIs DEF ComputedOf, Settled
<1>3. Granting'
  BY <1>1, <1>2, Levels
     DEF LoopInv, Granting, Picking, Comparing, Steering, GoingBack, C2, Wire
<1>4. Picking'
  BY <1>1, <1>2, Levels
     DEF LoopInv, Granting, Picking, Comparing, Steering, C2, Wire
<1>5. GoingBack'
  BY <1>1, <1>2, Levels DEF LoopInv, GoingBack, C2, Wire
<1>6. Comparing' /\ Steering' /\ Counting' /\ Labelled'
  BY <1>1, <1>2 DEF LoopInv, Comparing, Steering, Counting, Labelled, Wire
<1>7. Steady
  BY <1>1, <1>2, AskedIs, Levels DEF Steady, LoopInv, AskedOf, C2, And, Or, Wire
<1> QED
  BY <1>3, <1>4, <1>5, <1>6, <1>7, Quiet DEF LoopInv

\* The loop acknowledges the merge, grants and acknowledges having settled.
LEMMA AcknowledgeStep ==
  ASSUME LoopInv, LoopTypeOK', Acknowledge
  PROVE  LoopInv' /\ WiresStand
<1>1. /\ A0' = C2(w.share, w.kack, A0) /\ A0' # A0
      /\ g[1] = (IF r[1] = 1 /\ q = 1 THEN 1 ELSE 0) /\ A[1] = C2(g[1], A0, A[1])
      /\ g[2] = (IF r[2] = 1 /\ q = 0 THEN 1 ELSE 0) /\ A[2] = C2(g[2], A0, A[2])
      /\ UNCHANGED <<q, g, R0, A, r, w, val, started, given, ended, results>>
  BY DEF LoopInv, Acknowledge, Merged, ServerSlower, Grant, Favours, Answer, runs,
     cell, Client, C2
<1>2. /\ Settled("mux")' <=> Settled("mux")
      /\ Settled("cond")' <=> Settled("cond")
  BY <1>1, ComputedIs DEF ComputedOf, Settled
<1>3. Granting'
  BY <1>1, <1>2, Levels
     DEF LoopInv, Granting, Picking, Comparing, Steering, C2, Wire
<1>4. Picking'
  BY <1>1, <1>2, Levels DEF LoopInv, Picking, C2, Wire
<1>5. Comparing'
  BY <1>1, <1>2, Levels DEF LoopInv, Comparing, C2, Wire
<1>6. Steering'
  BY <1>1, <1>2, Levels DEF LoopInv, Steering, C2, Wire
<1>7. GoingBack' /\ Counting' /\ Labelled'
  BY <1>1, <1>2 DEF LoopInv, GoingBack, Counting, Labelled, Wire
<1>8. Steady
  BY <1>1, <1>2, AskedIs, Levels DEF Steady, LoopInv, AskedOf, C2, And, Or, Wire
<1> QED
  BY <1>3, <1>4, <1>5, <1>6, <1>7, <1>8, Quiet DEF LoopInv

\* The environment starts a run.
LEMMA StartStep ==
  ASSUME LoopInv, LoopTypeOK', Start
  PROVE  LoopInv' /\ WiresStand
<1>1. /\ r[1] = 0 /\ A[1] = 0 /\ Answered(started)
      /\ r'[1] = 1 /\ r'[2] = r[2] /\ started' = started + 1
      /\ UNCHANGED <<q, g, R0, A, A0, w, val, given, ended, results>>
  <2>1. /\ r[1] = 0 /\ A[1] = 0 /\ Answered(started)
        /\ UNCHANGED <<q, g, R0, A, A0, w, val, given, ended, results>>
    BY DEF Start, cell
  <2>2. /\ r'[1] = 1 /\ r'[2] = r[2] /\ started' = started + 1
    BY DEF LoopInv, LoopTypeOK, Client, Start
  <2> QED
    BY <2>1, <2>2
<1>2. /\ Settled("mux")' <=> Settled("mux")
      /\ Settled("cond")' <=> Settled("cond")
  BY <1>1, ComputedIs DEF ComputedOf, Settled
<1>3. Granting'
  BY <1>1, <1>2, Levels, AnsweredIs, Values
     DEF LoopInv, Granting, Comparing, Steering, GoingBack, Counting, Wire
<1>4. Picking'
  BY <1>1, <1>2, Levels, AnsweredIs, Values
     DEF LoopInv, Granting, Picking, Comparing, Steering, GoingBack, Counting, Wire
<1>5. Comparing'
  BY <1>1, <1>2, Levels, AnsweredIs, Values DEF LoopInv, Comparing, Counting, Wire
<1>6. Counting'
  BY <1>1, <1>2, Values, AnsweredIs DEF LoopInv, Counting
<1>7. Steering' /\ GoingBack' /\ Labelled'
  BY <1>1, <1>2 DEF LoopInv, Steering, GoingBack, Labelled, Wire
<1>8. Steady
  BY <1>1, <1>2, AskedIs, Levels DEF Steady, LoopInv, AskedOf, C2, And, Or, Wire
<1> QED
  BY <1>3, <1>4, <1>5, <1>6, <1>7, <1>8, Quiet DEF LoopInv

\* It withdraws the start token, acknowledged.
LEMMA WithdrawStartStep ==
  ASSUME LoopInv, LoopTypeOK', WithdrawStart
  PROVE  LoopInv' /\ WiresStand
<1>1. /\ r[1] = 1 /\ A[1] = 1 /\ r'[1] = 0 /\ r'[2] = r[2]
      /\ UNCHANGED <<q, g, R0, A, A0, w, val, started, given, ended, results>>
  BY DEF LoopInv, WithdrawStart, runs, cell, LoopTypeOK, Client
<1>2. /\ Settled("mux")' <=> Settled("mux")
      /\ Settled("cond")' <=> Settled("cond")
  BY <1>1, ComputedIs DEF ComputedOf, Settled
<1>3. Granting'
  BY <1>1, <1>2, Levels DEF LoopInv, Granting, Picking, Wire
<1>4. Picking'
  BY <1>1, <1>2, Levels DEF LoopInv, Picking, Wire
<1>5. Comparing'
  BY <1>1, <1>2, Levels DEF LoopInv, Comparing, Wire
<1>6. Steering' /\ GoingBack' /\ Counting' /\ Labelled'
  BY <1>1, <1>2 DEF LoopInv, Steering, GoingBack, Counting, Labelled, Wire
<1>7. Steady
  BY <1>1, <1>2, AskedIs, Levels DEF Steady, LoopInv, AskedOf, C2, And, Or, Wire
<1> QED
  BY <1>3, <1>4, <1>5, <1>6, <1>7, Quiet DEF LoopInv

\* It withdraws the entry value, acknowledged.
LEMMA WithdrawValueStep ==
  ASSUME LoopInv, LoopTypeOK', WithdrawValue
  PROVE  LoopInv' /\ WiresStand
<1>1. /\ w.init = 1 /\ w.xack = 1 /\ w'.init = 0
      /\ \A y \in Wire \ {"init"} : w'[y] = w[y]
      /\ UNCHANGED <<q, g, R0, A, r, A0, val, started, given, ended, results>>
  BY DEF LoopInv, WithdrawValue, runs, cell, LoopTypeOK, Wire
<1>2. /\ Settled("mux")' <=> Settled("mux")
      /\ Settled("cond")' <=> Settled("cond")
  BY <1>1, ComputedIs DEF ComputedOf, Settled
<1>3. Picking'
  BY <1>1, <1>2, Levels DEF LoopInv, Picking, Wire
<1>4. Comparing'
  BY <1>1, <1>2, Levels DEF LoopInv, Comparing, Wire
<1>5. Granting' /\ Steering' /\ GoingBack' /\ Counting' /\ Labelled'
  BY <1>1, <1>2 DEF LoopInv, Granting, Steering, GoingBack, Counting, Labelled, Wire
<1>6. Steady
  BY <1>1, <1>2, AskedIs, Levels
     DEF Steady, LoopInv, Picking, AskedOf, C2, And, Or, Wire
<1> QED
  BY <1>3, <1>4, <1>5, <1>6, Quiet DEF LoopInv

\* The environment gives the entry value of a run.
LEMMA GiveStep ==
  ASSUME LoopInv, LoopTypeOK', Give
  PROVE  LoopInv' /\ WiresStand
<1>1. /\ w.init = 0 /\ w.xack = 0 /\ Answered(given)
      /\ w'.init = 1
      /\ \A y \in Wire \ {"init"} : w'[y] = w[y]
      /\ given' = given + 1 /\ val'.entry.run = given'
      /\ val'.index = val.index /\ val'.mux = val.mux /\ val'.cmp = val.cmp /\ val'.cond = val.cond
      /\ val'.d1 = val.d1 /\ val'.d2 = val.d2 /\ val'.d3 = val.d3
      /\ UNCHANGED <<q, g, R0, A, r, A0, started, ended, results>>
  <2>1. /\ w.init = 0 /\ w.xack = 0 /\ Answered(given)
    BY DEF Give
  <2>2. /\ w'.init = 1
        /\ \A y \in Wire \ {"init"} : w'[y] = w[y]
    BY DEF Give, LoopInv, LoopTypeOK, Wire
  <2>3. /\ given' = given + 1 /\ val'.entry.run = given'
        /\ val'.index = val.index /\ val'.mux = val.mux /\ val'.cmp = val.cmp /\ val'.cond = val.cond
        /\ val'.d1 = val.d1 /\ val'.d2 = val.d2 /\ val'.d3 = val.d3
    BY DEF Give, LoopInv, LoopTypeOK, Datum
  <2>4. /\ UNCHANGED <<q, g, R0, A, r, A0, started, ended, results>>
    BY DEF Give, cell
  <2> QED
    BY <2>1, <2>2, <2>3, <2>4
<1>2. /\ val.index = 1 => (Settled("mux")' <=> Settled("mux"))
      /\ Settled("cond")' <=> Settled("cond")
  BY <1>1, ComputedIs DEF ComputedOf, Settled
<1>3. Granting'
  BY <1>1, <1>2, Levels, AnsweredIs, Values
     DEF LoopInv, Granting, Comparing, Counting, Wire
<1>4. Picking'
  BY <1>1, <1>2, Levels, AnsweredIs, Values
     DEF LoopInv, Granting, Picking, Comparing, Steering, Counting, Wire
<1>5. Comparing'
  BY <1>1, <1>2, Levels, AnsweredIs, Values
     DEF LoopInv, Picking, Comparing, Counting, Wire
<1>6. Steering'
  BY <1>1, <1>2, Levels, AnsweredIs, Values DEF LoopInv, Steering, Counting, Wire
<1>7. GoingBack'
  <2>1. (w.back = 1 => w.dsink = 1 \/ val.d1.run = given)'
    <3>1. /\ w.cmp = 1 => w.share = 1 \/ w.zreq = 1
          /\ q = 1 => w.join1 = 0
          /\ r[2] = 1 => w.cmp = 1 \/ val.cond = 1
          /\ A0 = 1 => (w.mreq = 1 => w.zreq = 1)
          /\ w.join1 = 1 => (w.yack = 1 => w.zreq = 1)
          /\ val.cond = 1 => given > Len(results)
          /\ w.share = 1 => w.xack = 1 \/ w.yack = 1 \/ w.zreq = 1
          /\ w.join1 = 1 => w.mreq = 1 \/ w.zreq = 1
          /\ w.dexit = 1 => w.dsink = 1 \/ given > Len(results)
          /\ w.djoin = 1 => w.dexit = 1 \/ given > Len(results)
          /\ w.zreq = 1 => w.djoin = 1 \/ given > Len(results)
          /\ w.creq = 1 => w.cmp = 1 \/ w.share = 1
          /\ R0 = 1 => A0 = 1 \/ q = 1 \/ r[2] = 1
          /\ w.mreq = 1 => (w.kjoin = 1 => w.creq = 1)
          /\ w.back = 1 => val.cond = 1 \/ w.join1 = 1
          /\ w.mreq = 1 => R0 = 1 \/ w.kjoin = 1
      BY DEF LoopInv, Granting, Picking, Comparing, Steering, GoingBack
    <3>2. QED
      BY <3>1, <1>1, <1>2, AnsweredIs, Levels, Values DEF LoopInv, Counting, Wire
  <2>2. (w.d1 = 1 => val.mux.run = given)'
    BY <1>1, <1>2, AnsweredIs, Levels, Values
       DEF LoopInv, Comparing, GoingBack, Counting, Wire
  <2>3. (w.d2 = 1 => w.back = 1 \/ w.d1 = 1 \/ val.d1.run = given)'
    BY <1>1, <1>2, AnsweredIs, Levels, Values
       DEF LoopInv, Comparing, GoingBack, Counting, Wire
  <2>4. (w.d3 = 1 => w.back = 1 \/ w.d2 = 1 \/ val.d2.run = given)'
    BY <1>1, <1>2, AnsweredIs, Levels, Values
       DEF LoopInv, Comparing, GoingBack, Counting, Wire
  <2> QED
    BY <1>1, <2>1, <2>2, <2>3, <2>4 DEF LoopInv, GoingBack, Wire
<1>8. Labelled'
  <2>1. /\ val.mux.run \in Nat /\ val.d1.run \in Nat /\ val.d2.run \in Nat /\ val.d3.run \in Nat
        /\ given \in Nat
    BY Values DEF LoopInv, Datum
  <2> QED
    BY <1>1, <2>1 DEF LoopInv, Labelled
<1>9. Counting'
  BY <1>1, <1>2, Values, AnsweredIs DEF LoopInv, Counting
<1>10. Steady
  BY <1>1, <1>2, AskedIs, Levels
     DEF Steady, LoopInv, Picking, AskedOf, C2, And, Or, Wire
<1> QED
  BY <1>3, <1>4, <1>5, <1>6, <1>7, <1>8, <1>9, <1>10, Quiet DEF LoopInv

-----------------------------------------------------------------------------
(* Types, the initial state, and the step.                                 *)

\* What is computed is of the type of what is shown.
LEMMA ComputedTypes ==
  ASSUME LoopTypeOK
  PROVE  /\ \A x \in Datum : Computed[x] \in Token
         /\ Computed.index \in Bit /\ Computed.cond \in Bit
<1>1. val.entry \in Token /\ val.mux \in Token /\ val.cmp \in Token
      /\ val.d1 \in Token /\ val.d2 \in Token /\ val.d3 \in Token
  BY DEF LoopTypeOK, Datum
<1>2. Less(val.d3) \in Token
  BY <1>1, LessIs
<1> QED
  BY <1>1, <1>2, ComputedIs DEF ComputedOf, Datum, Bit, Or

\* Types, action by action.
LEMMA SwitchTypes ==
  ASSUME LoopTypeOK, NEW x \in Wire, Switch(x)
  PROVE  LoopTypeOK'
<1>1. CellTypeOK' /\ r' = r /\ A0' = A0 /\ val' = val /\ started' = started /\ given' = given
  BY DEF Switch, LoopTypeOK, CellTypeOK, cell
<1>2. w' \in [Wire -> Bit]
  <2>1. w \in [Wire -> Bit] /\ w' = [w EXCEPT ![x] = 1 - w[x]]
    BY DEF Switch, LoopTypeOK
  <2>2. \A y \in Bit : 1 - y \in Bit
    BY DEF Bit
  <2> QED
    BY <2>1, <2>2
<1>3. ended' \in Nat
  BY DEF Switch, LoopTypeOK
<1>4. results' \in Seq(Nat)
  <2>1. results \in Seq(Nat) /\ (IF val.mux.left = 0 THEN val.mux.run ELSE 0) \in Nat
    BY Values DEF Datum, LoopTypeOK
  <2>2. results' = results \/ results' = Append(results, IF val.mux.left = 0 THEN val.mux.run ELSE 0)
    BY DEF Switch
  <2> QED
    BY <2>1, <2>2, AppendProperties
<1> QED
  BY <1>1, <1>2, <1>3, <1>4 DEF LoopTypeOK

LEMMA FollowTypes ==
  ASSUME LoopTypeOK, NEW x \in DOMAIN val, Follow(x)
  PROVE  LoopTypeOK'
<1>1. /\ CellTypeOK' /\ r' = r /\ A0' = A0 /\ w' = w
      /\ started' = started /\ given' = given /\ ended' = ended /\ results' = results
  BY DEF Follow, LoopTypeOK, CellTypeOK, cell, runs
<1>2. val' = [val EXCEPT ![x] = Computed[x]]
  BY DEF Follow
<1>3. DOMAIN val' = DOMAIN val /\ \A y \in DOMAIN val : val'[y] = IF y = x THEN Computed[x] ELSE val[y]
  BY <1>2
<1>4. \A y \in Datum : val'[y] \in Token
  BY <1>3, ComputedTypes DEF LoopTypeOK
<1>5. val'.index \in Bit /\ val'.cond \in Bit
  BY <1>3, ComputedTypes DEF LoopTypeOK
<1> QED
  BY <1>1, <1>3, <1>4, <1>5 DEF LoopTypeOK

LEMMA CellTypes ==
  ASSUME LoopTypeOK, Arbitration
  PROVE  LoopTypeOK'
<1>1. UNCHANGED <<r, A0, w, val, started, given, ended, results>>
  BY DEF Arbitration, runs
<1>2. CellTypeOK'
  BY DEF Arbitration, Decide, Decision, SetRequest, Request, SetGrant, Grant,
     SetAnswer, Answer,
         C2, Bit, LoopTypeOK, CellTypeOK, Client
<1> QED
  BY <1>1, <1>2 DEF LoopTypeOK

LEMMA LoopTypeStep == ASSUME LoopTypeOK, [LoopNext]_loopVars PROVE LoopTypeOK'
<1>1. ASSUME NEW x \in Excited, Switch(x) PROVE LoopTypeOK'
  BY <1>1, SwitchTypes DEF Excited, LoopTypeOK
<1>2. ASSUME NEW x \in DOMAIN val, Follow(x) PROVE LoopTypeOK'
  BY <1>2, FollowTypes
<1>3. CASE Arbitration
  BY <1>3, CellTypes
<1>4. CASE Return
  BY <1>4 DEF Return, Returning, C2, cell, runs, LoopTypeOK, CellTypeOK, Bit, Client
<1>5. CASE Acknowledge
  BY <1>5 DEF Acknowledge, Merged, C2, cell, runs, LoopTypeOK, CellTypeOK, Bit, Wire
<1>6. CASE WithdrawStart
  BY <1>6 DEF WithdrawStart, cell, runs, LoopTypeOK, CellTypeOK, Bit, Client
<1>7. CASE WithdrawValue
  BY <1>7 DEF WithdrawValue, cell, runs, LoopTypeOK, CellTypeOK, Bit
<1>8. CASE Start
  BY <1>8 DEF Start, cell, LoopTypeOK, CellTypeOK, Bit, Client
<1>9. CASE Give
  <2>1. PICK k \in 0..MaxTrips : val' = [val EXCEPT !.entry = [run |-> given', left |-> k]]
    BY <1>9 DEF Give
  <2>2. given' = given + 1 /\ w' = [w EXCEPT !.init = 1]
        /\ UNCHANGED <<q, g, R0, A, r, A0, started, ended, results>>
    BY <1>9 DEF Give, cell
  <2>3. [run |-> given', left |-> k] \in Token
    BY <2>1, <2>2 DEF LoopTypeOK, Token
  <2>4. DOMAIN val' = DOMAIN val /\ \A y \in Datum : val'[y] \in Token
    BY <2>1, <2>3 DEF LoopTypeOK
  <2>5. val'.index = val.index /\ val'.cond = val.cond
    BY <2>1 DEF LoopTypeOK
  <2>6. CellTypeOK' /\ w' \in [Wire -> Bit]
    BY <2>2 DEF LoopTypeOK, CellTypeOK, Bit
  <2> QED
    BY <2>2, <2>4, <2>5, <2>6 DEF LoopTypeOK
<1>10. CASE UNCHANGED loopVars
  BY <1>10 DEF loopVars, cell, runs, LoopTypeOK, CellTypeOK
<1> QED
  BY <1>1, <1>2, <1>3, <1>4, <1>5, <1>6, <1>7, <1>8, <1>9, <1>10
     DEF LoopNext, Circuit

\* Nothing moves.
LEMMA StillStep ==
  ASSUME LoopInv, UNCHANGED loopVars
  PROVE  LoopInv' /\ WiresStand
<1>1. UNCHANGED <<q, g, R0, A, r, A0, w, val, started, given, ended, results>>
  BY DEF loopVars, cell, runs
<1>2. LoopTypeOK'
  BY <1>1 DEF LoopInv, LoopTypeOK, CellTypeOK
<1>3. /\ Settled("mux")' <=> Settled("mux")
      /\ Settled("cond")' <=> Settled("cond")
  BY <1>1, ComputedIs DEF ComputedOf, Settled
<1>4. Granting' /\ Picking' /\ Comparing'
  BY <1>1, <1>3 DEF LoopInv, Granting, Picking, Comparing
<1>5. Steering' /\ GoingBack' /\ Counting' /\ Labelled'
  BY <1>1, <1>3 DEF LoopInv, Steering, GoingBack, Counting, Labelled
<1>6. Steady
  BY <1>1, AskedIs DEF Steady, AskedOf, C2, And, Or, Wire
<1> QED
  BY <1>2, <1>4, <1>5, <1>6, Quiet DEF LoopInv

\* Everything is down: the invariant holds.
LEMMA LoopInitInv == LoopInit => LoopInv
<1> SUFFICES ASSUME LoopInit PROVE LoopInv
  OBVIOUS
<1>1. /\ \A x \in Wire : w[x] = 0
      /\ \A k \in {1, 2} : r[k] = 0 /\ g[k] = 0 /\ A[k] = 0
      /\ q = 1 /\ R0 = 0 /\ A0 = 0
      /\ val.index = 0 /\ val.cond = 0
      /\ \A x \in Datum : val[x] = [run |-> 0, left |-> 0]
      /\ started = 0 /\ given = 0 /\ ended = 0 /\ results = <<>>
  BY DEF LoopInit, CellInit, Wire, Datum, Client
<1>2. LoopTypeOK
  <2>1. [run |-> 0, left |-> 0] \in Token
    BY LoopAssumption DEF Token
  <2>2. DOMAIN val = Datum \cup {"index", "cond"} /\ w \in [Wire -> Bit]
    BY DEF LoopInit, Datum, Wire, Bit
  <2>3. CellTypeOK /\ r \in [Client -> Bit]
    BY DEF LoopInit, CellInit, CellTypeOK, Bit, Client
  <2> QED
    BY <1>1, <2>1, <2>2, <2>3 DEF LoopTypeOK, Bit, Datum
<1>3. Settled("mux") /\ Settled("cond")
  BY <1>1, ComputedIs DEF ComputedOf, Settled, Datum
<1>4. Granting /\ Picking /\ Comparing
  BY <1>1, <1>3 DEF Granting, Picking, Comparing, Wire
<1>5. Steering /\ GoingBack
  BY <1>1, <1>3 DEF Steering, GoingBack, Wire, Datum
<1>6. Counting /\ Labelled
  BY <1>1, <1>3 DEF Counting, Labelled, Wire, Datum
<1> QED
  BY <1>2, <1>4, <1>5, <1>6 DEF LoopInv

\* Every wire that switches, to its own lemma.
LEMMA SwitchStep ==
  ASSUME LoopInv, LoopTypeOK', NEW x \in Excited, Switch(x)
  PROVE  LoopInv' /\ WiresStand
<1>1. x \in Wire /\ w[x] # Asked[x]
  BY DEF Excited, LoopInv, LoopTypeOK
<1>2. x # "init"
  BY <1>1, AskedIs DEF AskedOf
<1>3. CASE x = "mreq"
  BY <1>1, <1>3, MreqStep
<1>4. CASE x = "join0"
  BY <1>1, <1>4, Join0Step
<1>5. CASE x = "join1"
  BY <1>1, <1>5, Join1Step
<1>6. CASE x = "zreq"
  BY <1>1, <1>6, ZreqStep
<1>7. CASE x = "xack"
  BY <1>1, <1>7, XackStep
<1>8. CASE x = "yack"
  BY <1>1, <1>8, YackStep
<1>9. CASE x = "share"
  BY <1>1, <1>9, ShareStep
<1>10. CASE x = "cmp"
  BY <1>1, <1>10, CmpStep
<1>11. CASE x = "creq"
  BY <1>1, <1>11, CreqStep
<1>12. CASE x = "cfork"
  BY <1>1, <1>12, CforkStep
<1>13. CASE x = "djoin"
  BY <1>1, <1>13, DjoinStep
<1>14. CASE x = "dexit"
  BY <1>1, <1>14, DexitStep
<1>15. CASE x = "dback"
  BY <1>1, <1>15, DbackStep
<1>16. CASE x = "dack"
  BY <1>1, <1>16, DackStep
<1>17. CASE x = "kjoin"
  BY <1>1, <1>17, KjoinStep
<1>18. CASE x = "kexit"
  BY <1>1, <1>18, KexitStep
<1>19. CASE x = "kback"
  BY <1>1, <1>19, KbackStep
<1>20. CASE x = "kack"
  BY <1>1, <1>20, KackStep
<1>21. CASE x = "d1"
  BY <1>1, <1>21, D1Step
<1>22. CASE x = "d2"
  BY <1>1, <1>22, D2Step
<1>23. CASE x = "d3"
  BY <1>1, <1>23, D3Step
<1>24. CASE x = "back"
  BY <1>1, <1>24, BackStep
<1>25. CASE x = "k1"
  BY <1>1, <1>25, K1Step
<1>26. CASE x = "k2"
  BY <1>1, <1>26, K2Step
<1>27. CASE x = "dsink"
  BY <1>1, <1>27, DsinkStep
<1>28. CASE x = "ksink"
  BY <1>1, <1>28, KsinkStep
<1> QED
  BY <1>1, <1>2, <1>3, <1>4, <1>5, <1>6, <1>7, <1>8, <1>9, <1>10, <1>11, <1>12,
     <1>13, <1>14, <1>15, <1>16, <1>17, <1>18, <1>19, <1>20, <1>21, <1>22, <1>23,
     <1>24, <1>25, <1>26, <1>27, <1>28
     DEF Wire

\* Every action of LoopNext, to its own lemma.
LEMMA LoopStep == ASSUME LoopInv, [LoopNext]_loopVars PROVE LoopInv' /\ WiresStand
<1>1. LoopTypeOK'
  BY LoopTypeStep DEF LoopInv
<1>2. ASSUME NEW x \in Excited, Switch(x) PROVE LoopInv' /\ WiresStand
  BY <1>1, <1>2, SwitchStep
<1>3. ASSUME NEW x \in DOMAIN val, Follow(x) PROVE LoopInv' /\ WiresStand
  <2>1. x \in {"entry", "mux", "cmp", "d1", "d2", "d3", "index", "cond"}
    BY DEF LoopInv, LoopTypeOK, Datum
  <2>2. x # "entry"
    BY <1>3, ComputedIs DEF ComputedOf, Follow, Settled
  <2> QED
    BY <1>1, <1>3, <2>1, <2>2, FollowIndexStep, FollowMuxStep, FollowComparedStep,
       FollowConditionStep, FollowValue1Step, FollowValue2Step, FollowValue3Step
<1>4. CASE Arbitration
  BY <1>1, <1>4, DecideStep, RequestStep, Grant1Step, Grant2Step, Answer1Step,
     Answer2Step
     DEF Arbitration, Client
<1> QED
  BY <1>1, <1>2, <1>3, <1>4, ReturnStep, AcknowledgeStep, WithdrawStartStep,
     WithdrawValueStep,
     StartStep, GiveStep, StillStep
     DEF LoopNext, Circuit

-----------------------------------------------------------------------------
(* The outputs that are not wires of w: the cell's own, its acknowledge,   *)
(* and the last stage of the control pipe.                                 *)

CellOf ==
  /\ Returning = C2(w.k2, 1 - A[2], r[2])
  /\ Merged = C2(w.share, w.kack, A0)
  /\ Decision = IF A0 = 1 THEN q ELSE C2(r[1], 1 - r[2], q)
  /\ Request = IF (r[1] = 1 /\ q = 1) \/ (r[2] = 1 /\ q = 0) THEN 1 ELSE 0
  /\ Grant(1) = IF r[1] = 1 /\ q = 1 THEN 1 ELSE 0
  /\ Grant(2) = IF r[2] = 1 /\ q = 0 THEN 1 ELSE 0
  /\ Answer(1) = C2(g[1], A0, A[1])
  /\ Answer(2) = C2(g[2], A0, A[2])

\* What each is asked to output, spelt out, before a step and after it.
LEMMA CellIs == CellOf /\ CellOf'
<1>1. CellOf
  BY DEF CellOf, Returning, Merged, Decision, Request, Grant, Favours, Answer, Client
<1>2. CellOf'
  BY DEF CellOf, Returning, Merged, Decision, Request, Grant, Favours, Answer, Client
<1> QED BY <1>1, <1>2

CellSteady ==
  /\ r[2] # Returning /\ r'[2] = r[2] => r[2] # Returning'
  /\ A0 # Merged /\ A0' = A0 => A0 # Merged'
  /\ q # Decision /\ q' = q => q # Decision'
  /\ R0 # Request /\ R0' = R0 => R0 # Request'
  /\ g[1] # Grant(1) /\ g'[1] = g[1] => g[1] # Grant(1)'
  /\ g[2] # Grant(2) /\ g'[2] = g[2] => g[2] # Grant(2)'
  /\ A[1] # Answer(1) /\ A'[1] = A[1] => A[1] # Answer(1)'
  /\ A[2] # Answer(2) /\ A'[2] = A[2] => A[2] # Answer(2)'

LEMMA CellQuiet == CellSteady => CellStands
BY DEF CellSteady, CellStands, Stands, Client

\* What the phases around the cell exclude: the states in which one of its
\* inputs could turn back before it has answered.
LEMMA CellPhases ==
  ASSUME LoopInv
  PROVE  /\ r[2] = 1 /\ A[2] = 1 => g[2] = 1 /\ A0 = 1 /\ R0 = 1 /\ q = 0
         /\ r[1] = 1 /\ A[1] = 1 => g[1] = 1 /\ A0 = 1 /\ R0 = 1 /\ q = 1
         /\ r[2] = 0 /\ A[2] = 0 => g[2] = 0
         /\ r[1] = 0 /\ A[1] = 0 => g[1] = 0
         /\ g[2] = 1 => q = 0
         /\ g[1] = 1 => q = 1
<1>1. r[1] = 1 /\ A[1] = 1 => g[1] = 1 /\ A0 = 1 /\ R0 = 1 /\ q = 1
  BY Levels DEF LoopInv, Granting
<1>2. r[2] = 1 /\ A[2] = 1 => g[2] = 1 /\ A0 = 1 /\ q = 0 /\ val.index = 1 /\ w.mreq = 1
  BY Levels DEF LoopInv, Granting
<1>3. r[2] = 1 /\ A[2] = 1 => R0 = 1
  BY <1>2, Levels DEF LoopInv, Granting, Picking, Wire
<1> QED
  BY <1>1, <1>2, <1>3, Levels DEF LoopInv, Granting

\* No step calls one of them back.
LEMMA CellStep ==
  ASSUME LoopInv, LoopTypeOK', [LoopNext]_loopVars
  PROVE  CellStands
<1> SUFFICES CellSteady
  BY CellQuiet
<1>1. LoopTypeOK
  BY DEF LoopInv
<1>2. ASSUME NEW x \in Excited, Switch(x) PROVE CellSteady
  <2>1. x \in Wire /\ w[x] # Asked[x]
    BY <1>1 DEF Excited, LoopTypeOK
  <2>2. /\ \A y \in Wire \ {x} : w'[y] = w[y]
        /\ UNCHANGED <<q, g, R0, A, r, A0>>
    BY <1>1, <1>2, <2>1, Switched
  <2>3. r[2] # C2(w.k2, 1 - A[2], r[2]) => x # "k2"
    BY <1>1, <2>1, Levels, AskedIs DEF AskedOf, C2, Wire
  <2>4. A0 # C2(w.share, w.kack, A0) => x # "share"
    BY <1>1, <2>1, Levels, AskedIs
       DEF LoopInv, Picking, Comparing, Steering, AskedOf, C2, Wire
  <2>5. A0 # C2(w.share, w.kack, A0) => x # "kack"
    <3>1. w.kack = 1 /\ w.share = 1 /\ A0 = 0 => w.ksink = 1 \/ w.k1 = 1
      BY Levels DEF LoopInv, Picking, Comparing, Steering, Wire
    <3>2. w.kack = 0 /\ w.share = 0 /\ A0 = 1 => w.ksink = 0 /\ w.k1 = 0
      BY Levels DEF LoopInv, Granting, Picking, Comparing, Steering, GoingBack, Wire
    <3> QED
      BY <1>1, <2>1, <3>1, <3>2, Levels, AskedIs DEF AskedOf, C2, Or, Wire
  <2> QED
    BY <1>1, <2>2, <2>3, <2>4, <2>5, CellIs, Levels DEF CellSteady, CellOf, Wire
<1>3. CASE Arbitration
  <2>1. UNCHANGED <<r, A0, w, val, runs>>
    BY <1>3 DEF Arbitration
  <2>2. CASE Decide
    <3>1. A0 = 0 /\ q # C2(r[1], 1 - r[2], q) /\ UNCHANGED <<g, R0, A>> /\ q' # q
      BY <1>1, <2>2, Levels DEF Decide, Decision
    <3>2. /\ q = 0 => r[1] = 1 /\ r[2] = 0
          /\ q = 1 => r[1] = 0 /\ r[2] = 1
      BY <1>1, <3>1, Levels DEF C2
    <3>3. R0 = 0
      BY <1>1, <3>1, <3>2, Levels DEF LoopInv, Granting
    <3> QED
      BY <1>1, <2>1, <3>1, <3>2, <3>3, CellIs, CellPhases, Levels DEF CellSteady, CellOf, C2
  <2>3. CASE SetRequest
    <3>1. UNCHANGED <<q, g, A>>
      BY <2>3 DEF SetRequest
    <3> QED
      BY <2>1, <3>1, CellIs DEF CellSteady, CellOf
  <2>4. ASSUME NEW k \in {1, 2}, SetGrant(k) PROVE CellSteady
    <3>1. /\ g[k] # Grant(k) /\ g'[k] # g[k] /\ UNCHANGED <<q, R0, A>>
          /\ \A j \in {1, 2} \ {k} : g'[j] = g[j]
      BY <1>1, <2>4 DEF SetGrant, LoopTypeOK, CellTypeOK, Client
    <3> QED
      BY <1>1, <2>1, <3>1, CellIs, CellPhases, Levels DEF CellSteady, CellOf, C2
  <2>5. ASSUME NEW k \in {1, 2}, SetAnswer(k) PROVE CellSteady
    <3>1. /\ A[k] # Answer(k) /\ A'[k] # A[k] /\ UNCHANGED <<q, g, R0>>
          /\ \A j \in {1, 2} \ {k} : A'[j] = A[j]
      BY <1>1, <2>5 DEF SetAnswer, LoopTypeOK, CellTypeOK, Client
    <3> QED
      BY <1>1, <2>1, <3>1, CellIs, CellPhases, Levels DEF CellSteady, CellOf, C2
  <2> QED
    BY <1>3, <2>2, <2>3, <2>4, <2>5 DEF Arbitration, Client
<1>4. CASE Return
  <2>1. /\ r'[2] # r[2] /\ r'[2] = C2(w.k2, 1 - A[2], r[2]) /\ r'[1] = r[1]
        /\ UNCHANGED <<q, g, R0, A, A0, w>>
    BY <1>1, <1>4 DEF Return, Returning, LoopTypeOK, cell, Client, C2
  <2>2. r[2] = 0 /\ w.k2 = 1 /\ A[2] = 0 /\ q = 0 => R0 = 0
    BY Levels DEF LoopInv, Granting
  <2>3. r[2] = 0 /\ w.k2 = 1 /\ r[1] = 1 /\ A0 = 0 => q = 1
    BY Levels DEF LoopInv, Granting, Picking, Comparing, Steering, GoingBack, Wire
  <2> QED
    BY <1>1, <2>1, <2>2, <2>3, CellIs, CellPhases, Levels DEF CellSteady, CellOf, C2, Wire
<1>5. CASE Acknowledge
  <2>1. /\ g[1] = Grant(1) /\ g[2] = Grant(2) /\ A[1] = Answer(1) /\ A[2] = Answer(2)
        /\ A0' # A0 /\ A0' = Merged /\ UNCHANGED <<q, g, R0, A, r, w>>
    BY <1>5 DEF Acknowledge, ServerSlower, cell, Client
  <2>2. w.kack = 1 /\ A0 = 0 /\ q = 1 => r[1] = 1
    BY Levels DEF LoopInv, Granting, Picking, Comparing, Steering, Wire
  <2>3. w.kack = 1 /\ A0 = 0 /\ q = 0 => r[2] = 1
    BY Levels DEF LoopInv, Granting, Picking, Comparing, Steering, Wire
  <2> QED
    BY <1>1, <2>1, <2>2, <2>3, CellIs, Levels DEF CellSteady, CellOf, C2, Wire
<1>6. CASE Start
  <2>1. /\ r[1] = 0 /\ A[1] = 0 /\ r'[1] = 1 /\ r'[2] = r[2]
        /\ UNCHANGED <<q, g, R0, A, A0, w>>
    BY <1>1, <1>6 DEF Start, LoopTypeOK, cell, Client
  <2>2. started <= ended
    BY <1>1, <1>6, AnsweredIs DEF Start, LoopTypeOK
  <2>3. r[1] = 0 /\ A[1] = 0 /\ q = 1 => R0 = 0
    BY <1>1, Levels DEF LoopInv, Granting
  <2>4. r[2] = 1 => R0 = 1
    BY <1>1, <2>2, Levels, Values DEF LoopInv, Granting
  <2> QED
    BY <1>1, <2>1, <2>3, <2>4, CellIs, CellPhases, Levels DEF CellSteady, CellOf, C2
<1>7. CASE WithdrawStart
  <2>1. /\ r[1] = 1 /\ A[1] = 1 /\ r'[1] = 0 /\ r'[2] = r[2]
        /\ UNCHANGED <<q, g, R0, A, A0, w>>
    BY <1>1, <1>7 DEF WithdrawStart, LoopTypeOK, cell, Client
  <2> QED
    BY <1>1, <2>1, CellIs, CellPhases, Levels DEF CellSteady, CellOf, C2
<1>8. ASSUME UNCHANGED <<q, g, R0, A, r, A0>>, w'.share = w.share, w'.kack = w.kack,
             w'.k2 = w.k2
      PROVE  CellSteady
  BY <1>8, CellIs DEF CellSteady, CellOf
<1>9. (\E x \in DOMAIN val : Follow(x)) \/ UNCHANGED loopVars => CellSteady
  BY <1>8 DEF Follow, loopVars, cell
<1>10. WithdrawValue \/ Give => CellSteady
  BY <1>1, <1>8 DEF WithdrawValue, Give, cell, LoopTypeOK, Wire
<1> QED
  BY <1>2, <1>3, <1>4, <1>5, <1>6, <1>7, <1>9, <1>10 DEF LoopNext, Circuit

-----------------------------------------------------------------------------
(* The loop's own clients and server hand the cell over as cleanly as the  *)
(* bench's do.                                                             *)

Handed == /\ A[1] = 0 \/ A[2] = 0
          /\ A0 = 1 /\ q = 0 => A[1] = 0

LEMMA LoopFavours ==
  ASSUME LoopInv
  PROVE  /\ g[1] = 1 => q = 1
         /\ q = 1 => g[2] = 0
         /\ q = 1 /\ A0 = 1 => A[2] = 0
BY Levels DEF LoopInv, Granting, Picking, Comparing, Steering, Wire

\* In the loop too an acknowledge is only given to the client favoured, between
\* the server's rise and its fall.
LEMMA HandedStep == ASSUME LoopInv, Handed, [LoopNext]_loopVars PROVE Handed'
<1>1. LoopTypeOK
  BY DEF LoopInv
<1>2. CASE Arbitration
  <2>1. CASE Decide
    BY <1>1, <1>2, <2>1, Levels DEF Arbitration, Decide, Decision, Handed
  <2>2. CASE SetRequest \/ SetGrant(1) \/ SetGrant(2)
    BY <1>2, <2>2 DEF Arbitration, SetRequest, SetGrant, Handed
  <2>3. CASE SetAnswer(1)
    BY <1>1, <1>2, <2>3, Levels, LoopFavours
       DEF Arbitration, SetAnswer, Answer, C2, Handed, LoopTypeOK, CellTypeOK,
           Client
  <2>4. CASE SetAnswer(2)
    BY <1>1, <1>2, <2>4, Levels, LoopFavours
       DEF Arbitration, SetAnswer, Answer, C2, Handed, LoopTypeOK, CellTypeOK,
           Client
  <2> QED
    BY <1>2, <2>1, <2>2, <2>3, <2>4 DEF Arbitration, Client
<1>3. CASE Acknowledge
  <2>1. /\ A0' = C2(w.share, w.kack, A0) /\ A0' # A0 /\ q' = q /\ A' = A
        /\ g[1] = (IF r[1] = 1 /\ q = 1 THEN 1 ELSE 0) /\ A[1] = C2(g[1], A0, A[1])
    BY <1>3
       DEF Acknowledge, Merged, ServerSlower, Grant, Favours, Answer, cell, Client
  <2> QED
    BY <1>1, <2>1, Levels DEF C2, Handed
<1>4. CASE UNCHANGED <<q, A0, A>>
  BY <1>4 DEF Handed
<1> QED
  BY <1>2, <1>3, <1>4
     DEF LoopNext, Circuit, Switch, Follow, Return, WithdrawStart, WithdrawValue, Start, Give,
         loopVars, cell

LEMMA LoopHandover == LoopInv /\ Handed => CleanHandover
<1> SUFFICES ASSUME LoopInv, Handed PROVE CleanHandover
  OBVIOUS
<1>1. q \in {0, 1} /\ \A k \in Client : g[k] \in {0, 1} /\ A[k] \in {0, 1}
  BY Levels DEF LoopInv, Client
<1> QED
  BY <1>1, LoopFavours DEF CleanHandover, Exclusion, Handed, Favours, Other, Client

-----------------------------------------------------------------------------
(* Both places together, as they are model-checked.                        *)

PlacedInv == IF place = "loop" THEN LoopInv /\ Handed ELSE ArbInv

LEMMA PlacedInvariant == MCSpec => []PlacedInv
<1>1. MCInit => PlacedInv
  BY LoopInitInv, ArbInitInv
     DEF MCInit, PlacedInv, LoopInit, CellInit, Handed, Client
<1>2. PlacedInv /\ [MCNext]_MCvars => PlacedInv'
  <2> SUFFICES ASSUME PlacedInv, [MCNext]_MCvars PROVE PlacedInv'
    OBVIOUS
  <2>1. CASE place = "loop" /\ place' = "loop" /\ [LoopNext]_loopVars
    BY <2>1, LoopStep, HandedStep DEF PlacedInv
  <2>2. CASE place # "loop" /\ place' # "loop" /\ [ArbNext]_arbVars
    BY <2>2, ArbStep DEF PlacedInv
  <2> QED
    BY <2>1, <2>2 DEF MCNext, MCvars, loopVars, arbVars, cell
<1> QED
  BY <1>1, <1>2, PTL DEF MCSpec

(* From the control_merge to the branches and back, no LUT of the compiled *)
(* loop that is to switch is called back before it has, for every number   *)
(* of runs and of iterations, given the timing assumptions Loop names:     *)
(* delay lines longer than what they announce, latches faster than their   *)
(* controllers, and the arbiter cell faster than what it serves.           *)
THEOREM LoopHazardsCorrect == MCSpec => LoopHazardFree
<1>1. PlacedInv /\ [MCNext]_MCvars => [place = "loop" => Undisturbed]_MCvars
  <2> SUFFICES ASSUME PlacedInv, MCNext, place = "loop" PROVE Undisturbed
    BY DEF MCNext, MCvars
  <2>1. LoopInv /\ LoopNext
    BY DEF MCNext, PlacedInv
  <2>2. WiresStand /\ LoopTypeOK'
    BY <2>1, LoopStep DEF LoopInv
  <2> QED
    BY <2>1, <2>2, CellStep DEF Undisturbed
<1> QED
  BY <1>1, PlacedInvariant, PTL DEF MCSpec, LoopHazardFree

(* Handover is clean on the bench and in the loop, whose clients are the   *)
(* start token and the token coming back and whose server is the loop's    *)
(* own fork.                                                               *)
THEOREM PlacesHandover == MCSpec => []CleanHandover
<1>1. ArbInv => CleanHandover
  BY ArbHandover
<1>2. PlacedInv => CleanHandover
  BY <1>1, LoopHandover DEF PlacedInv
<1> QED
  BY <1>2, PlacedInvariant, PTL

-----------------------------------------------------------------------------
(* The loop as a channel for one token.                                    *)

\* Runs begun, runs that are over, and their results.
Sent == Lesser(started, given)
Left == Lesser(ended, Len(results))
Taken == SubSeq(results, 1, Left)

\* What has left the channel, from the counters alone.
TakenLaw == /\ Left \in Nat /\ Left <= Len(results) /\ Left <= ended
            /\ Taken = [i \in 1..Left |-> i]
            /\ Len(Taken) = Left

LEMMA TakenIs == LoopTypeOK /\ Labelled => TakenLaw
<1> SUFFICES ASSUME LoopTypeOK, Labelled PROVE TakenLaw
  OBVIOUS
<1>1. Left \in Nat /\ Left <= Len(results) /\ Left <= ended
  BY Values DEF Left, Lesser
<1>2. \A i \in 1..Left : results[i] = i
  BY <1>1, Values DEF Labelled
<1>3. \A i \in 1..Left : results[i] \in Nat
  BY <1>1, <1>2
<1>4. /\ Taken \in Seq(Nat) /\ Len(Taken) = Left
      /\ \A i \in 1..Left : Taken[i] = results[i]
  <2>1. /\ SubSeq(results, 1, Left) \in Seq(Nat)
        /\ Len(SubSeq(results, 1, Left)) = IF 1 <= Left THEN Left - 1 + 1 ELSE 0
        /\ \A i \in 1..(Left - 1 + 1) : SubSeq(results, 1, Left)[i] = results[1 + i - 1]
    BY <1>1, <1>3, SubSeqProperties
  <2> QED
    BY <2>1, <1>1 DEF Taken
<1>5. Taken = [i \in 1..Len(Taken) |-> Taken[i]]
  BY <1>4
<1> QED
  BY <1>1, <1>2, <1>4, <1>5 DEF TakenLaw

LEMMA TakenNext == LoopTypeOK' /\ Labelled' => TakenLaw'
BY TakenIs, PTL

\* What a step does to the environment's counters.
LEMMA RunsStep ==
  ASSUME LoopTypeOK, LoopTypeOK', [LoopNext]_loopVars
  PROVE  \/ UNCHANGED <<started, given, ended, results>>
         \/ /\ Answered(started)
            /\ started' = started + 1 /\ UNCHANGED <<given, ended, results>>
         \/ /\ Answered(given)
            /\ given' = given + 1 /\ UNCHANGED <<started, ended, results>>
         \/ ended' = ended + 1 /\ UNCHANGED <<started, given, results>>
         \/ /\ \E v \in Nat : results' = Append(results, v)
            /\ UNCHANGED <<started, given, ended>>
<1>1. ASSUME NEW x \in Excited, Switch(x)
      PROVE  \/ UNCHANGED <<started, given, ended, results>>
             \/ ended' = ended + 1 /\ UNCHANGED <<started, given, results>>
             \/ /\ \E v \in Nat : results' = Append(results, v)
                /\ UNCHANGED <<started, given, ended>>
  <2>1. (IF val.mux.left = 0 THEN val.mux.run ELSE 0) \in Nat
    BY Values DEF Datum
  <2> QED
    BY <1>1, <2>1 DEF Switch
<1>2. CASE Start
  BY <1>2 DEF Start
<1>3. CASE Give
  BY <1>3 DEF Give
<1>4. CASE UNCHANGED runs
  BY <1>4 DEF runs
<1> QED
  BY <1>1, <1>2, <1>3, <1>4
     DEF LoopNext, Circuit, Follow, Arbitration, Return, Acknowledge, WithdrawStart, WithdrawValue, loopVars

\* Every step of the loop is a step of the channel, or none.
LEMMA TokenStep ==
  ASSUME LoopInv, LoopInv', [LoopNext]_loopVars
  PROVE  [Fifo!Next]_<<Sent, Taken>>
<1>1. /\ Left \in Nat /\ Taken = [i \in 1..Left |-> i] /\ Len(Taken) = Left
      /\ Left' \in Nat /\ Taken' = [i \in 1..Left' |-> i]
  BY TakenIs, TakenNext DEF LoopInv, TakenLaw
<1>2. /\ started \in Nat /\ given \in Nat /\ ended \in Nat /\ Len(results) \in Nat
      /\ Counting /\ Counting'
  BY Values DEF LoopInv
<1>3. Sent \in Nat /\ Left <= Sent
  BY <1>2 DEF Counting, Sent, Left, Lesser
<1>4. Left' = Left => Taken' = Taken
  BY <1>1
<1>5. Left' = Left + 1 => Taken' = Append(Taken, Len(Taken) + 1)
  <2>1. \A n \in Nat : [i \in 1..(n+1) |-> i] = Append([i \in 1..n |-> i], n + 1)
    OBVIOUS
  <2> QED
    BY <1>1, <2>1
<1>6. CASE UNCHANGED <<started, given, ended, results>>
  BY <1>6 DEF Sent, Taken, Left
<1>7. CASE /\ Answered(started)
           /\ started' = started + 1 /\ UNCHANGED <<given, ended, results>>
  <2>1. Taken' = Taken
    BY <1>7 DEF Taken, Left
  <2>2. Sent' = Sent \/ (Sent' = Sent + 1 /\ Sent = Left)
    BY <1>2, <1>7, AnsweredIs DEF LoopInv, Counting, Sent, Left, Lesser
  <2> QED
    BY <1>1, <1>3, <2>1, <2>2 DEF Fifo!Next, Fifo!Accept, Sent, Taken, Left
<1>8. CASE /\ Answered(given)
           /\ given' = given + 1 /\ UNCHANGED <<started, ended, results>>
  <2>1. Taken' = Taken
    BY <1>8 DEF Taken, Left
  <2>2. Sent' = Sent \/ (Sent' = Sent + 1 /\ Sent = Left)
    BY <1>2, <1>8, AnsweredIs DEF LoopInv, Counting, Sent, Left, Lesser
  <2> QED
    BY <1>1, <1>3, <2>1, <2>2 DEF Fifo!Next, Fifo!Accept, Sent, Taken, Left
<1>9. CASE \/ ended' = ended + 1 /\ UNCHANGED <<started, given, results>>
           \/ /\ \E v \in Nat : results' = Append(results, v)
              /\ UNCHANGED <<started, given, ended>>
  <2>1. Sent' = Sent
    BY <1>9 DEF Sent
  <2>2. \/ ended' = ended + 1 /\ Len(results') = Len(results)
        \/ Len(results') = Len(results) + 1 /\ ended' = ended
    BY <1>9, AppendProperties DEF LoopInv, LoopTypeOK
  <2>3. Left' = Left \/ (Left' = Left + 1 /\ Left < Sent)
    BY <1>2, <1>9, <2>2 DEF Counting, Sent, Left, Lesser
  <2> QED
    BY <1>1, <1>4, <1>5, <2>1, <2>3 DEF Fifo!Next, Fifo!Deliver, Sent, Taken, Left
<1> QED
  BY <1>6, <1>7, <1>8, <1>9, RunsStep DEF LoopInv

(* The compiled loop is a channel for one token, however many iterations   *)
(* each run asks for and however often it is run: each run gives one       *)
(* value, its own, and one control token, in the order of the runs, and    *)
(* none is made up.  (That each is given in the end is ImplementsLoop's    *)
(* other half, and liveness.)                                              *)
THEOREM LoopCorrect == MCSpec => Fifo!Spec
<1>1. MCInit => Fifo!Init
  BY SubSeqEmpty DEF MCInit, LoopInit, Fifo!Init, Lesser
<1>2. PlacedInv /\ PlacedInv' /\ [MCNext]_MCvars => [Fifo!Next]_<<Sent, Taken>>
  <2> SUFFICES ASSUME PlacedInv, PlacedInv', [MCNext]_MCvars
               PROVE  [Fifo!Next]_<<Sent, Taken>>
    OBVIOUS
  <2>1. CASE place = "loop" /\ LoopNext /\ place' = "loop"
    BY <2>1, TokenStep DEF PlacedInv
  <2>2. CASE UNCHANGED <<started, given, ended, results>>
    BY <2>2 DEF Sent, Taken, Left
  <2> QED
    BY <2>1, <2>2 DEF MCNext, MCvars, runs
<1> QED
  BY <1>1, <1>2, PlacedInvariant, PTL DEF MCSpec, Fifo!Spec, Sent, Taken, Left
==============================================================================
