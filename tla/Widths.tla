------------------------------- MODULE Widths -------------------------------
(***************************************************************************)
(* Emitter._resolve_widths: the width of every channel, to a fixpoint.     *)
(* Nodes are swept in program order; one whose rule needs a width that is  *)
(* not known yet is put off to the next sweep; a sweep without progress is *)
(* a refusal.                                                              *)
(***************************************************************************)
EXTENDS Handshake

VARIABLES ch,        \* ch[v]: type of channel v, as far as it is known
          pending,   \* nodes left in this sweep
          deferred,  \* nodes put off to the next
          swept      \* how many nodes this sweep began with

widths == <<ch, pending, deferred, swept>>

WidthsInit ==
  /\ ch = [v \in Value \union Operand |->
             IF v \in DOMAIN prog.type THEN prog.type[v] ELSE Unknown]
  /\ pending = [n \in Node |-> n]
  /\ deferred = <<>>
  /\ swept = Len(pending)

Given(n) == [k \in DOMAIN In(n) |-> ch[In(n)[k]]]

\* Mutant: the first operand answers, known or not.
KnownFirst(ts) == Head(ts)

\* The first operand width already resolved: what keeps a loop header, whose
\* first input comes back round the loop, from waiting on itself.
Known(ts) == LET known == {k \in DOMAIN ts : ts[k] # Unknown}
             IN  IF known = {} THEN Unknown ELSE ts[Sets!Min(known)]

\* Mutant: the select is taken for one of the data inputs.
MuxDataAll(ts) == ts

MuxData(ts) == Tail(ts)

\* result_channels' EmitErrors.
NoRule(n) ==
  \/ Op(n) \notin FusableOps \union
       {"fork", "lazy_fork", "source", "constant", "cond_br", "br", "buffer", "merge",
        "trunci", "extui", "extsi", "mux", "control_merge", "sink", "end", "join",
        "load", "store", "mem_controller"}
  \/ Op(n) = "control_merge" /\ Len(Sig(n)) # 2
  \/ Op(n) \in {"load", "store"} /\ (Len(Sig(n)) # 4 \/ Len(Out(n)) # 2)
  \/ Op(n) = "mem_controller" /\ (Out(n) = <<>> \/ Len(Sig(n)) # Len(Out(n)) - 1)

ResultTypes(n) ==
  LET op == Op(n)
      t  == Given(n)
  IN  CASE op \in {"fork", "lazy_fork"} -> [k \in DOMAIN Out(n) |-> t[1]]
        [] op \in {"source", "join"} -> <<Control>>
        [] op \in {"constant", "trunci", "extui", "extsi"} -> <<Seqs!Last(Sig(n))>>
        [] op = "cmpi" -> <<1>>
        [] op = "select" -> <<t[2]>>
        [] op \in (FusableOps \ {"cmpi", "select"}) \union {"br", "buffer"} -> <<t[1]>>
        [] op = "cond_br" -> <<t[2], t[2]>>
        [] op = "merge" -> <<Known(t)>>
        [] op = "mux" -> <<Known(MuxData(t))>>
        [] op = "control_merge" -> Sig(n)
        [] op \in {"load", "store"} -> SubSeq(Sig(n), 3, 4)
        [] op = "mem_controller" -> Append(Sig(n), Control)
        [] OTHER -> <<>>   \* sink, end

Refusing(n) == NoRule(n) \/ Len(ResultTypes(n)) # Len(Out(n))

Ready(n) == Unknown \notin Fns!Range(ResultTypes(n))

Resolve == /\ pending # <<>>
           /\ LET n == Head(pending)
              IN  /\ ~Refusing(n)
                  /\ Ready(n)
                  /\ ch' = [v \in DOMAIN ch |->
                              IF v \in Fns!Range(Out(n))
                              THEN ResultTypes(n)[CHOOSE k \in DOMAIN Out(n) : Out(n)[k] = v]
                              ELSE ch[v]]
           /\ pending' = Tail(pending)
           /\ UNCHANGED <<deferred, swept>>

Defer == /\ pending # <<>>
         /\ LET n == Head(pending)
            IN  ~Refusing(n) /\ ~Ready(n) /\ deferred' = Append(deferred, n)
         /\ pending' = Tail(pending)
         /\ UNCHANGED <<ch, swept>>

\* Mutant: a sweep is repeated whatever it found.
StuckNever == FALSE

\* A whole sweep put off every node it saw.
Stuck == Len(deferred) = swept

Sweep == /\ pending = <<>>
         /\ deferred # <<>>
         /\ ~Stuck
         /\ pending' = deferred
         /\ deferred' = <<>>
         /\ swept' = Len(deferred)
         /\ UNCHANGED ch

WidthsDone == pending = <<>> /\ deferred = <<>>

WidthsRefused == \/ pending # <<>> /\ Refusing(Head(pending))
                 \/ pending = <<>> /\ deferred # <<>> /\ Stuck
=============================================================================
