------------------------------- MODULE Resize -------------------------------
(***************************************************************************)
(* cells/verify/resize.sh: coordinate descent over the lengths of the      *)
(* matched delays of one design.  Shorten one line to what tighten.py      *)
(* proposed for the last route that was kept, place and route again, keep  *)
(* the change only if the new route still passes.                          *)
(*                                                                         *)
(* A route is whatever nextpnr makes of an assignment, so nothing is known *)
(* of it beforehand; but the flow is deterministic, so an assignment that  *)
(* comes back gets the route it had.  With BD_RESIZE_SEEDS = n a verdict   *)
(* is the worst over n such routes.                                        *)
(***************************************************************************)
EXTENDS Integers

CONSTANTS KeyCount,   \* BD_SZ_* lengths found in the source
          MaxLength   \* bound: their placeholder value

ASSUME ResizeAssumption == KeyCount \in Nat \ {0} /\ MaxLength \in Nat

Key == 1..KeyCount          \* in the order of "sort -u"
Lengths == 0..MaxLength
Assignment == [Key -> Lengths]

\* The first gate of check.sh a route fails: the flow itself, tighten.py
\* (rules A to D), skew.py (rule E), or none of them.
Verdict == {"unbuilt", "tighten", "skew", "clean"}

VARIABLES cur,       \* lengths now in sizes.vh
          last,      \* prop_last.vh: the proposal of the last route kept
          prop,      \* the proposal this sweep works from
          next,      \* the key this sweep looks at next
          changed,   \* whether this sweep has kept anything
          route,     \* route[x]: verdict on and proposal from assignment x
          drivable,  \* every length tighten.py names has a `define in the source
          phase

vars == <<cur, last, prop, next, changed, route, drivable, phase>>

Entry == [verdict : Verdict, proposal : Assignment]
Unrouted == [verdict |-> "unrouted", proposal |-> <<>>]

Init == /\ cur = [k \in Key |-> MaxLength]
        /\ last = cur
        /\ prop = cur
        /\ next = 1
        /\ changed = FALSE
        /\ route = [x \in Assignment |-> Unrouted]
        /\ drivable \in BOOLEAN
        /\ phase = "base"

-----------------------------------------------------------------------------
\* Mutant: a route that fails tighten.py is good enough.
AcceptedUnchecked(verdict) == verdict # "unbuilt"

\* attempt: flow.sh and tighten.py return early; skew.py runs, and its exit
\* status goes nowhere.
Accepted(verdict) == verdict \in {"skew", "clean"}

\* What tighten.py may propose for a route of x.  Where it would lengthen, the
\* script passes on as if it had proposed the length in force; so does this.
Proposals(x) == {p \in Assignment : \A k \in Key : p[k] <= x[k]}

\* flow.sh, tighten.py --emit and skew.py on assignment x.
Measure(x) ==
  IF route[x] # Unrouted
  THEN UNCHANGED route
  ELSE \E v \in Verdict : \E p \in IF Accepted(v) THEN Proposals(x) ELSE {x} :
         route' = [route EXCEPT ![x] = [verdict |-> v, proposal |-> p]]

Baseline == /\ phase = "base"
            /\ Measure(cur)
            /\ IF Accepted(route'[cur].verdict)
               THEN /\ last' = route'[cur].proposal
                    /\ phase' = "sweep"
               ELSE /\ phase' = "failed"
                    /\ UNCHANGED last
            /\ UNCHANGED <<cur, prop, next, changed, drivable>>

\* read_prop refuses a proposal nothing in the source reads.
StartSweep == /\ phase = "sweep"
              /\ phase' = IF drivable THEN "key" ELSE "failed"
              /\ prop' = last
              /\ next' = 1
              /\ changed' = FALSE
              /\ UNCHANGED <<cur, last, route, drivable>>

\* Mutant: a proposal equal to the length in force is tried once more.
TightensOrEquals(k) == prop[k] <= cur[k]

\* "only ever tighten"
Tightens(k) == prop[k] < cur[k]

Skip == /\ phase = "key"
        /\ next \in Key
        /\ ~Tightens(next)
        /\ next' = next + 1
        /\ UNCHANGED <<cur, last, prop, changed, route, drivable, phase>>

Trial == [cur EXCEPT ![next] = prop[next]]

\* Mutant: the next sweep goes by the proposal of a route that is gone.
ProposalStale(x) == last

Revert == cur
Proposal(x) == route'[x].proposal

Try == /\ phase = "key"
       /\ next \in Key
       /\ Tightens(next)
       /\ Measure(Trial)
       /\ IF Accepted(route'[Trial].verdict)
          THEN /\ cur' = Trial
               /\ last' = Proposal(Trial)
               /\ changed' = TRUE
          ELSE /\ cur' = Revert
               /\ UNCHANGED <<last, changed>>
       /\ next' = next + 1
       /\ UNCHANGED <<prop, drivable, phase>>

EndSweep == /\ phase = "key"
            /\ next \notin Key
            /\ phase' = IF changed THEN "sweep" ELSE "final"
            /\ UNCHANGED <<cur, last, prop, next, changed, route, drivable>>

\* The last re-route; only tighten.py's status is looked at.
Final == /\ phase = "final"
         /\ Measure(cur)
         /\ phase' = IF Accepted(route'[cur].verdict) THEN "done" ELSE "broken"
         /\ UNCHANGED <<cur, last, prop, next, changed, drivable>>

Next == Baseline \/ StartSweep \/ Skip \/ Try \/ EndSweep \/ Final

Spec == Init /\ [][Next]_vars

\* A shell script runs until it exits.
FairSpec == Spec /\ WF_vars(Next)

-----------------------------------------------------------------------------
TypeOK == /\ {cur, last, prop} \subseteq Assignment
          /\ next \in 1..KeyCount + 1
          /\ changed \in BOOLEAN
          /\ route \in [Assignment -> Entry \union {Unrouted}]
          /\ drivable \in BOOLEAN
          /\ phase \in {"base", "sweep", "key", "final", "done", "failed", "broken"}

(* It "ends holding an assignment that has actually been routed and        *)
(* checked": through any sequence of trials and reverts the lengths on     *)
(* disk are those of a route tighten.py has passed, so the script never    *)
(* reports an assignment and then fails its own last re-route.             *)
Routed == /\ phase \in {"sweep", "key", "final", "done"} =>
               route[cur].verdict \notin {"unrouted", "unbuilt", "tighten"}
          /\ phase # "broken"

(* It stops only where the measurements leave nothing to try: every length *)
(* the final route itself proposes to shorten was shortened, on its own,   *)
(* and did not survive.                                                    *)
LocalMinimum ==
  phase = "done" =>
    \A k \in Key :
      LET p == route[cur].proposal
      IN  p[k] < cur[k] =>
            route[[cur EXCEPT ![k] = p[k]]].verdict \in {"unbuilt", "tighten"}

(* The search ends ("lengths only ever decrease and are bounded below").   *)
Terminates == <>(phase \in {"done", "failed"})

(* What the script says of the assignment it prints: "the design meets     *)
(* every constraint", and "every constraint has to mean every constraint   *)
(* check.sh gates on", rule E with them.                                   *)
EveryConstraint == phase = "done" => route[cur].verdict = "clean"
=============================================================================
