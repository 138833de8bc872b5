------------------------------ MODULE MCMuller ------------------------------
(***************************************************************************)
(* The stages of bd_link.v for TLC, in a line between a sender and a       *)
(* receiver (MullerPipe) and closed into a ring (MullerRing).              *)
(***************************************************************************)
EXTENDS MullerPipe, MullerRing

VARIABLE shape

MCvars == <<shape, vars, ringVars>>

MCInit == /\ shape \in {"line", "ring"}
          /\ Init /\ RingInit
          /\ shape = "line" => ring = [i \in Place |-> 0]
          /\ shape = "ring" => padded = 0

MCNext == \/ shape = "line" /\ Next /\ UNCHANGED <<shape, ringVars>>
          \/ shape = "ring" /\ RingNext /\ UNCHANGED <<shape, vars>>

\* The fairness of each.  Of the line's actions none it binds can be taken
\* before a token has been offered.
MCFairness == /\ Fairness
              /\ \A i \in Place : /\ WF_ringVars(shape = "ring" /\ Settle(i))
                                  /\ WF_ringVars(shape = "ring" /\ Release(i))
                                  /\ WF_ringVars(shape = "ring" /\ Fire(i))

MCSpec == MCInit /\ [][MCNext]_MCvars /\ MCFairness

-----------------------------------------------------------------------------
(* In a ring the token comes round for ever: every stage rises and falls   *)
(* again and again (tb_ring.v counts edges for it).                        *)
RingCirculates == shape = "ring" => Circulates
=============================================================================
