------------------------------- MODULE MCFlow -------------------------------
(***************************************************************************)
(* The timing gates for TLC: the rules on small routed designs (MCTiming), *)
(* and the search resize.sh makes with them as its judge (Resize).         *)
(***************************************************************************)
EXTENDS MCTiming, Resize

VARIABLE tool

flowvars == <<tool, mcvars, vars>>

FlowInit == /\ tool \in {"rules", "search"}
            /\ MCInit /\ Init
            /\ tool = "rules" => drivable
            /\ tool = "search" => job = CHOOSE j \in Jobs : TRUE

FlowNext == \/ tool = "rules" /\ MCNext /\ UNCHANGED <<tool, vars>>
            \/ tool = "search" /\ Next /\ UNCHANGED <<tool, mcvars>>

FlowSpec == FlowInit /\ [][FlowNext]_flowvars /\ WF_vars(tool = "search" /\ Next)

-----------------------------------------------------------------------------
(* resize.sh stops: lengths "only ever decrease and are bounded below".    *)
SearchEnds == tool = "search" => Terminates
=============================================================================
