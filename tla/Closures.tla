------------------------------ MODULE Closures ------------------------------
(* Fixpoints from below, for the graph algorithms.                         *)
EXTENDS Naturals

\* What S grows into in k steps, where Grow(S) is the union of Grow({x}) over x
\* in S: what a step found last, <<all, new>>, is what the next one starts from.
\* The sets are spelled as maps for TLC to write their elements out.
Grown(Grow(_), S, k) ==
  LET grown[i \in 0..k] ==
        IF i = 0 THEN {<<S, S>>}
        ELSE UNION {{<<{x : x \in p[1] \union T}, {x : x \in T \ p[1]}>> :
                       T \in {{x : x \in Grow(p[2])}}} : p \in grown[i-1]}
  IN  UNION {p[1] : p \in grown[k]}

\* Step applied k times to x.  The singleton set makes TLC evaluate each once.
Iterated(Step(_), x, k) ==
  LET after[i \in 0..k] == IF i = 0 THEN {x} ELSE {Step(y) : y \in after[i-1]}
  IN  CHOOSE y \in after[k] : TRUE
=============================================================================
