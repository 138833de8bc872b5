------------------------------ MODULE TokenFifo ------------------------------
(***************************************************************************)
(* What every bundled-data channel of the library promises, with nothing   *)
(* said about wires: tokens 1, 2, 3, ... enter, and leave in the order     *)
(* they entered, none lost, none made up, at most Capacity of them inside. *)
(* MullerPipe is shown to implement it.                                    *)
(***************************************************************************)
EXTENDS Integers, Sequences

CONSTANT Capacity   \* how many tokens the channel can hold

VARIABLES sent,     \* how many tokens the channel has accepted
          seen      \* the tokens its receiver has taken, in order

Init == /\ sent = 0
        /\ seen = <<>>

Accept == /\ sent - Len(seen) < Capacity
          /\ sent' = sent + 1
          /\ UNCHANGED seen

Deliver == /\ Len(seen) < sent
           /\ seen' = Append(seen, Len(seen) + 1)
           /\ UNCHANGED sent

Next == Accept \/ Deliver

Spec == Init /\ [][Next]_<<sent, seen>>

\* What is inside comes out.
FairSpec == Spec /\ WF_<<sent, seen>>(Deliver)
==============================================================================
