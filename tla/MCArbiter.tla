------------------------------ MODULE MCArbiter ------------------------------
(***************************************************************************)
(* The arbiter for TLC, on its bench (Arbiter) and in the control_merge at *)
(* the head of a compiled loop (Loop).                                     *)
(***************************************************************************)
EXTENDS Arbiter, Loop

VARIABLE place

MCvars == <<place, arbVars, w, val, runs>>

MCInit == /\ place \in {"bench", "loop"}
          /\ ArbInit
          /\ LoopInit
          /\ place = "loop" => margin = 0

MCNext == \/ place = "bench" /\ ArbNext /\ UNCHANGED <<place, w, val, runs>>
          \/ place = "loop" /\ LoopNext /\ UNCHANGED <<place, arbHistory>>

\* Each under its own fairness.  On the bench every LUT and the server answer,
\* and an acknowledged client lets go; nobody has to ask.
MCFairness ==
  /\ \A k \in Client : /\ WF_arbVars(place = "bench" /\ LetGo(k))
                       /\ WF_arbVars(place = "bench" /\ SetGrant(k) /\ UNCHANGED Around)
                       /\ WF_arbVars(place = "bench" /\ Serve(k))
                       /\ WF_arbVars(place = "bench" /\ Finish(k))
  /\ WF_arbVars(place = "bench" /\ Decide /\ UNCHANGED Around)
  /\ WF_arbVars(place = "bench" /\ SetRequest /\ UNCHANGED Around)
  /\ WF_arbVars(place = "bench" /\ ServerBegin)
  /\ WF_arbVars(place = "bench" /\ ServerEnd)
  /\ WF_loopVars(place = "loop" /\ Circuit)

MCSpec == MCInit /\ [][MCNext]_MCvars /\ MCFairness

-----------------------------------------------------------------------------
(* No LUT of the loop that is to switch, the arbiter cell's among them, is *)
(* called back before it has: from merge to branch and back the circuit    *)
(* has no hazard, given the timing assumptions that Loop names.            *)
LoopHazardFree == [][place = "loop" => Undisturbed]_MCvars
==============================================================================
