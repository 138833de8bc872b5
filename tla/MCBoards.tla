------------------------------- MODULE MCBoards -------------------------------
(***************************************************************************)
(* The scripts that measure on the board, for TLC: it holds one design at  *)
(* a time, one with sticky latches (Rig) or one with ring oscillators      *)
(* (Sweep), and the scripts of the one leave what the others keep alone.   *)
(***************************************************************************)
EXTENDS Rig, Sweep, TLC

VARIABLE holds

\* The one ring that may not turn is counter 0's in the last group, where counter
\* 0 may still hold what an earlier group left in it.
LastRing == {{}, {<<Max(Group), 0>>}}

\* No script tells one site from another.
Alike == Permutations(Site)

MCInit == /\ holds \in {"latches", "rings"}
          /\ Init
          /\ SweepInit
          /\ bit["many"].dead = {}   \* bound: rings that do not turn come with a rebuild

MCNext == \/ holds = "latches" /\ Next /\ UNCHANGED <<holds, sweepVars>>
          \/ holds = "rings" /\ SweepNext /\ UNCHANGED <<holds, vars>>

MCSpec == MCInit /\ [][MCNext]_<<holds, vars, sweepVars>>
===============================================================================
