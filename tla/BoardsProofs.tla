---------------------------- MODULE BoardsProofs -----------------------------
(***************************************************************************)
(* What the scripts say of the board.  Sticky latches (Rig): for every set *)
(* of sites, every number of hours, loads and windows, and two scripts     *)
(* running at once.  Ring oscillators (Sweep): for every number of groups, *)
(* counters, windows and builds, every counter capacity and every set of   *)
(* rings that do not turn.                                                 *)
(***************************************************************************)
EXTENDS MCBoards, TLAPS

-----------------------------------------------------------------------------
(* Sticky latches: the invariant.                                          *)

IsBoard(b) == b = [design |-> b.design, since |-> b.since, armed |-> b.armed, good |-> b.good,
                   broken |-> b.broken, fault |-> b.fault, freq |-> b.freq, pos |-> b.pos,
                   neg |-> b.neg, count |-> b.count, over |-> b.over]

IsFile(f) == f = [exists |-> f.exists, loaded |-> f.loaded, proved |-> f.proved, rate |-> f.rate,
                  last |-> f.last, edges |-> f.edges, on |-> f.on, first |-> f.first]

Shape == /\ now \in Nat
         /\ DOMAIN job = Job
         /\ IsBoard(board)
         /\ board.since \in Nat /\ board.since <= now
         /\ board.good \subseteq Site
         /\ files = [prot |-> files.prot, mtbf |-> files.mtbf]
         /\ IsFile(files.mtbf)

\* The file of mtbf is created by the poll that ends a --program, and by no
\* other: cron never programs, and without a file it has no rate to go by.
Creation == /\ ~files.mtbf.exists => files.mtbf = NoFile
            /\ files.mtbf.exists => files.mtbf.loaded \in Nat /\ files.mtbf.loaded <= now
            /\ ~Idle("hand") => job["hand"].at \in {"program", "session"}
            /\ job["hand"].at = "program" => job["hand"].program
            /\ ~Idle("cron") => job["cron"].at = "session" /\ ~job["cron"].program
            /\ ~Idle("hand") /\ job["hand"].script = "mtbf" /\ job["hand"].program
                 => ~files.mtbf.exists

\* What breaks in the placement is up when the latches are enabled.
Placed == /\ board.design # "gcd" /\ board.armed => board.good \intersect board.broken \subseteq board.neg
          /\ board.design # "gcd" => board.neg \subseteq board.good
          /\ ~board.armed => board.neg = {}

\* A file that survives next to its own board was made of it, and saw on its
\* first poll everything that the placement makes fire.
Own == files.mtbf.exists /\ board.design = "mtbf" =>
         /\ board.armed
         /\ files.mtbf.loaded >= board.since
         /\ \A i \in board.good \intersect board.broken :
              i \in files.mtbf.on /\ files.mtbf.first[i] = files.mtbf.loaded

IInv == Shape /\ Creation /\ Placed /\ Own

-----------------------------------------------------------------------------
LEMMA Jobs == Job = {"hand", "cron"}
BY DEF Job

LEMMA InitInv == Init => IInv
<1>1. Init => Shape
  BY DEF Init, Shape, IsBoard, IsFile, NoBoard, NoFile
<1>2. Init => Creation /\ Placed /\ Own
  BY DEF Init, Creation, Placed, Own, NoBoard, NoFile, NoJob, Idle, Job
<1>3. QED
  BY <1>1, <1>2 DEF IInv

LEMMA BoardSteps ==
  ASSUME IInv, Arm \/ Event \/ Hour
  PROVE  IInv'
<1> USE DEF IInv
<1>1. CASE Arm
  <2>1. board' = [board EXCEPT !.armed = TRUE, !.pos = board.good, !.neg = board.good \intersect board.broken]
    BY <1>1 DEF Arm
  <2>2. /\ board'.design = board.design /\ board'.since = board.since
        /\ board'.good = board.good /\ board'.broken = board.broken
        /\ board'.neg = board.good \intersect board.broken
        /\ board'.armed = TRUE
    BY <2>1 DEF Shape, IsBoard, IsFile
  <2>3. Shape'
    BY <1>1, <2>1 DEF Arm, Shape, IsBoard, IsFile
  <2>4. Creation' /\ Own'
    BY <1>1, <2>2 DEF Arm, Creation, Own, Idle
  <2>5. Placed'
    BY <2>2 DEF Placed
  <2>6. QED
    BY <2>3, <2>4, <2>5
<1>2. CASE Event
  <2>1. PICK i \in board.good : board' = [board EXCEPT !.neg = @ \union {i}]
    BY <1>2 DEF Event
  <2>2. /\ board'.design = board.design /\ board'.since = board.since
        /\ board'.good = board.good /\ board'.broken = board.broken
        /\ board'.neg = board.neg \union {i}
        /\ board'.armed = board.armed /\ board.armed
    BY <1>2, <2>1 DEF Event, Shape, IsBoard, IsFile
  <2>3. Shape'
    BY <1>2, <2>1 DEF Event, Shape, IsBoard, IsFile
  <2>4. Creation' /\ Own'
    BY <1>2, <2>2 DEF Event, Creation, Own, Idle
  <2>5. Placed'
    BY <2>2 DEF Placed
  <2>6. QED
    BY <2>3, <2>4, <2>5
<1>3. CASE Hour
  BY <1>3 DEF Hour, Shape, IsBoard, IsFile, Creation, Placed, Own, Idle
<1>4. QED
  BY <1>1, <1>2, <1>3

LEMMA StartStep == ASSUME IInv, NEW j \in Job, Start(j) PROVE IInv'
<1> USE DEF IInv
<1>1. Shape' /\ Placed' /\ Own'
  BY DEF Start, Shape, IsBoard, IsFile, Placed, Own
<1>2. PICK s \in Script, program \in BOOLEAN :
        /\ j = "cron" => s # "gcd" /\ ~program
        /\ ~Refused(s, program)
        /\ job' = [job EXCEPT ![j] =
                              [at |-> IF program THEN "program" ELSE "session", script |-> s,
                               program |-> program,
                               st |-> IF s = "prot" /\ ~program THEN files.prot ELSE NoFile]]
  BY DEF Start
<1>3. /\ job'[j].at = IF program THEN "program" ELSE "session"
      /\ job'[j].script = s /\ job'[j].program = program
      /\ \A k \in Job : k # j => job'[k] = job[k]
  BY <1>2 DEF Shape, IsBoard, IsFile
<1>4. s = "mtbf" /\ program => ~files.mtbf.exists
  BY <1>2 DEF Refused
<1>5. UNCHANGED files /\ UNCHANGED now
  BY DEF Start
<1>6. Creation'
  <2>1. CASE j = "hand"
    BY <1>2, <1>3, <1>4, <1>5, <2>1, Jobs DEF Creation, Idle
  <2>2. CASE j = "cron"
    BY <1>2, <1>3, <1>4, <1>5, <2>2, Jobs DEF Creation, Idle
  <2>3. QED
    BY <2>1, <2>2, Jobs
<1>7. QED
  BY <1>1, <1>6

LEMMA ProgramStep == ASSUME IInv, NEW j \in Job, Program(j) PROVE IInv'
<1> USE DEF IInv
<1>1. j = "hand" /\ job["hand"].program
  BY Jobs DEF Program, Creation, Idle
<1>2. job["hand"].script = "mtbf" => ~files.mtbf.exists
  BY <1>1 DEF Program, Creation, Idle
<1>3. PICK G \in SUBSET Site : \E B, f, w : board' = Fresh(job[j].script, G, B, f, w)
  BY DEF Program
<1>4. PICK B, f, w : board' = Fresh(job[j].script, G, B, f, w)
  BY <1>3
<1>5. /\ board'.good = G /\ board'.design = job[j].script /\ board'.since = now
      /\ board'.armed = FALSE /\ board'.neg = {}
  BY <1>4 DEF Fresh, NoBoard
<1>6. Shape'
  <2>1. IsBoard(board')
    BY <1>4 DEF Fresh, NoBoard, IsBoard
  <2>2. DOMAIN job' = Job /\ UNCHANGED <<now, files>>
    BY DEF Program, Shape, IsBoard, IsFile
  <2>3. QED
    BY <1>5, <2>1, <2>2 DEF Shape, IsBoard, IsFile
<1>7. Creation'
  BY <1>1, Jobs DEF Program, Shape, IsBoard, IsFile, Creation, Idle
<1>8. Placed' /\ Own'
  BY <1>1, <1>2, <1>5 DEF Program, Placed, Own
<1>9. QED
  BY <1>6, <1>7, <1>8

LEMMA LoseStep == ASSUME IInv, NEW j \in Job, Lose(j) PROVE IInv'
BY Jobs DEF IInv, Lose, Shape, IsBoard, IsFile, Creation, Placed, Own, Idle, NoJob

LEMMA DeleteStep == ASSUME IInv, Delete PROVE IInv'
BY DEF IInv, Delete, Shape, IsBoard, IsFile, Creation, Placed, Own, Idle, NoFile

LEMMA ProtStep == ASSUME IInv, NEW j \in Job, Prot(j) PROVE IInv'
<1> USE DEF IInv
<1> DEFINE n == IF j = "cron" THEN 1 ELSE Windows
<1>1. board' = IF Live THEN Counted(n) ELSE board
  BY DEF Prot
<1>2. /\ board'.design = board.design /\ board'.since = board.since /\ board'.armed = board.armed
      /\ board'.good = board.good /\ board'.broken = board.broken /\ board'.neg = board.neg
  BY <1>1 DEF Counted, Shape, IsBoard, IsFile
<1>3. files'.mtbf = files.mtbf /\ files' = [prot |-> files'.prot, mtbf |-> files'.mtbf]
  BY DEF Prot, Shape, IsBoard, IsFile
<1>4. job' = [job EXCEPT ![j] = NoJob] /\ now' = now
  BY DEF Prot, Session
<1>5. Shape'
  <2>1. IsBoard(board')
    BY <1>1 DEF Counted, Shape, IsBoard, IsFile
  <2>2. QED
    BY <1>2, <1>3, <1>4, <2>1 DEF Shape, IsBoard, IsFile
<1>6. Creation'
  BY <1>3, <1>4, Jobs DEF Shape, IsBoard, IsFile, Creation, Idle, NoJob
<1>7. Placed' /\ Own'
  BY <1>2, <1>3 DEF Placed, Own
<1>8. QED
  BY <1>5, <1>6, <1>7

\* Only a poll after --program creates the file; it sees what the placement
\* makes fire, and remembers it with the hour of the load.
LEMMA MtbfStep == ASSUME IInv, NEW j \in Job, Mtbf(j) PROVE IInv'
<1> USE DEF IInv
<1> DEFINE n == IF j = "cron" THEN 0 ELSE Windows
           st == MtbfFiled(job[j].program, n)
<1>1. board' = IF Live THEN Counted(n) ELSE board
  BY DEF Mtbf
<1>2. /\ board'.design = board.design /\ board'.since = board.since /\ board'.armed = board.armed
      /\ board'.good = board.good /\ board'.broken = board.broken /\ board'.neg = board.neg
  BY <1>1 DEF Counted, Shape, IsBoard, IsFile
<1>3. job' = [job EXCEPT ![j] = NoJob] /\ now' = now
  BY DEF Mtbf, Session
<1>4. IsBoard(board')
  BY <1>1 DEF Counted, Shape, IsBoard, IsFile
<1>5. CASE ~MtbfTrusted(n)
  <2>1. files' = files
    BY <1>5 DEF Mtbf
  <2>2. Shape'
    BY <1>2, <1>3, <1>4, <2>1 DEF Shape, IsBoard, IsFile
  <2>3. Creation'
    BY <1>3, <2>1, Jobs DEF Shape, IsBoard, IsFile, Creation, Idle, NoJob
  <2>4. Placed' /\ Own'
    BY <1>2, <2>1 DEF Placed, Own
  <2>5. QED
    BY <2>2, <2>3, <2>4
<1>6. CASE MtbfTrusted(n)
  <2>1. files' = [files EXCEPT !.mtbf = st]
    BY <1>6 DEF Mtbf
  <2>2. files'.mtbf = st /\ files' = [prot |-> files'.prot, mtbf |-> files'.mtbf]
    BY <2>1 DEF Shape, IsBoard, IsFile
  <2>3. board.design = "mtbf" /\ board.armed
    BY <1>6 DEF Mtbf, MtbfTrusted, Genuine
  <2>4. ~files.mtbf.exists => j = "hand" /\ files.mtbf = NoFile
    BY <1>6, Jobs DEF Creation, MtbfTrusted, NoFile, Never
  <2>5. files.mtbf.exists => ~job[j].program
    BY Jobs DEF Mtbf, Session, Creation, Idle
  <2> DEFINE new == job[j].program \/ files.mtbf.loaded = Never
             seen == [i \in Site |-> IF i \in board.neg \ files.mtbf.on THEN now ELSE files.mtbf.first[i]]
  <2>s. st = [exists |-> TRUE, loaded |-> IF new THEN now ELSE files.mtbf.loaded,
              proved |-> st.proved, rate |-> st.rate, last |-> st.last, edges |-> st.edges,
              on |-> board.neg, first |-> seen]
    <3>1. st = [files.mtbf EXCEPT !.exists = TRUE, !.last = now,
                   !.rate = IF n = 0 THEN @ ELSE WindowRate(n),
                   !.loaded = IF new THEN now ELSE @,
                   !.edges = IF new THEN 0 ELSE @ + files.mtbf.rate * (now - files.mtbf.last),
                   !.on = board.neg,
                   !.first = seen]
      BY DEF MtbfFiled
    <3>2. st.exists = TRUE /\ st.on = board.neg /\ st.first = seen
          /\ st.loaded = IF new THEN now ELSE files.mtbf.loaded
      BY <3>1 DEF Shape, IsBoard, IsFile
    <3>3. st = [exists |-> st.exists, loaded |-> st.loaded,
              proved |-> st.proved, rate |-> st.rate, last |-> st.last, edges |-> st.edges,
              on |-> st.on, first |-> st.first]
      BY <3>1 DEF Shape, IsBoard, IsFile
    <3>4. QED
      BY <3>2, <3>3
  <2>6. /\ st.exists /\ st.on = board.neg /\ st.first = seen
        /\ ~files.mtbf.exists => st.loaded = now
        /\ files.mtbf.exists => st.loaded = files.mtbf.loaded
    BY <2>s, <2>4, <2>5 DEF NoFile, Never, Creation
  <2>7. Shape'
    BY <1>2, <1>3, <1>4, <2>2, <2>s DEF Shape, IsBoard, IsFile
  <2>8. Creation'
    <3>1. files'.mtbf.exists = TRUE /\ files'.mtbf.loaded \in Nat /\ files'.mtbf.loaded <= now'
      BY <1>3, <2>2, <2>6 DEF Shape, IsBoard, IsFile, Creation
    <3>2. job'[j] = NoJob /\ \A k \in Job : k # j => job'[k] = job[k]
      BY <1>3 DEF Shape, IsBoard, IsFile
    <3>3. ~(job'["hand"].at # "idle" /\ job'["hand"].script = "mtbf" /\ job'["hand"].program)
      BY <2>4, <3>2, Jobs DEF Creation, Idle, NoJob
    <3>4. QED
      BY <3>1, <3>2, <3>3, Jobs DEF Creation, Idle, NoJob
  <2>9. Placed'
    BY <1>2 DEF Placed
  <2>10. Own'
    BY <1>2, <2>2, <2>3, <2>4, <2>6 DEF Own, Placed, Shape, IsBoard, IsFile, NoFile
  <2>11. QED
    BY <2>7, <2>8, <2>9, <2>10
<1>7. QED
  BY <1>5, <1>6

LEMMA GcdStep == ASSUME IInv, NEW j \in Job, Gcd(j) PROVE IInv'
<1> USE DEF IInv
<1>1. files' = files /\ now' = now /\ job' = [job EXCEPT ![j] = NoJob]
  BY DEF Gcd, Session
<1>2. board' = board \/ \E did : board.design = "gcd" /\ board' = Ran(did)
  BY DEF Gcd, Genuine
<1>3. /\ board'.design = board.design /\ board'.since = board.since /\ board'.good = board.good
      /\ board' # board => board.design = "gcd"
      /\ IsBoard(board')
  BY <1>2 DEF Shape, IsBoard, IsFile, Ran
<1>4. Shape'
  BY <1>1, <1>3 DEF Shape, IsBoard, IsFile
<1>5. Creation'
  BY <1>1, Jobs DEF Shape, IsBoard, IsFile, Creation, Idle, NoJob
<1>6. Placed' /\ Own'
  <2>1. CASE board' = board
    BY <1>1, <2>1 DEF Placed, Own
  <2>2. CASE board.design = "gcd"
    <3>1. board'.design = "gcd" /\ board'.armed = board.armed
      BY <1>2, <1>3, <2>2 DEF Ran, Shape, IsBoard, IsFile
    <3>2. ~board'.armed => board'.neg = {}
      BY <3>1, <2>2 DEF Gcd, Placed
    <3>3. QED
      BY <3>1, <3>2 DEF Placed, Own
  <2>3. QED
    BY <1>3, <2>1, <2>2
<1>7. QED
  BY <1>4, <1>5, <1>6

LEMMA Step == IInv /\ [Next]_vars => IInv'
<1> SUFFICES ASSUME IInv, [Next]_vars PROVE IInv'
  OBVIOUS
<1>1. CASE UNCHANGED vars
  BY <1>1 DEF vars, IInv, Shape, IsBoard, IsFile, Creation, Placed, Own, Idle
<1>2. CASE Next
  BY <1>2, BoardSteps, DeleteStep, StartStep, ProgramStep, LoseStep, ProtStep, MtbfStep, GcdStep DEF Next
<1>3. QED
  BY <1>1, <1>2

LEMMA Invariant == Spec => []IInv
BY InitInv, Step, PTL DEF Spec

-----------------------------------------------------------------------------
(* A claim is about the board as it is: whoever does not make one withdraws *)
(* the last.                                                               *)
LEMMA Withdrawn ==
  ASSUME [Next]_vars
  PROVE  \/ said' = Nothing
         \/ UNCHANGED vars
         \/ \E j \in Job : Prot(j) /\ ProtTrusted
         \/ \E j \in Job : Mtbf(j) /\ MtbfTrusted(IF j = "cron" THEN 0 ELSE Windows)
         \/ \E j \in Job : Gcd(j) /\ Genuine("gcd")
BY DEF Next, Arm, Event, Hour, Delete, Start, Program, Lose, Prot, Mtbf, Gcd, Quiet

LEMMA MtbfClaim ==
  ASSUME IInv, NEW j \in Job, Mtbf(j), MtbfTrusted(IF j = "cron" THEN 0 ELSE Windows), IInv'
  PROVE  MtbfHonest'
<1> USE DEF IInv
<1> DEFINE n == IF j = "cron" THEN 0 ELSE Windows
           st == MtbfFiled(job[j].program, n)
<1>1. said' = MtbfEstimate(st)
  BY DEF Mtbf
<1>2. files'.mtbf = st
  BY DEF Mtbf, Shape, IsBoard, IsFile
<1>3. now' = now /\ board' = IF Live THEN Counted(n) ELSE board
  BY DEF Mtbf, Session
<1>4. /\ board'.design = board.design /\ board'.since = board.since /\ board'.pos = board.pos
      /\ board'.good = board.good /\ board'.broken = board.broken /\ board'.neg = board.neg
  BY <1>3 DEF Counted, Shape, IsBoard, IsFile
<1>5. board.design = "mtbf" /\ files'.mtbf.exists
  BY <1>2 DEF MtbfTrusted, Genuine, MtbfFiled, Shape, IsBoard, IsFile
<1>6. /\ st.loaded >= board.since /\ st.loaded \in Nat
      /\ \A i \in board.good \intersect board.broken : st.first[i] = st.loaded
  BY <1>2, <1>4, <1>5 DEF Own, Creation
<1>7. (board.neg \ Structural(st)) \intersect board.broken = {}
  BY <1>5, <1>6 DEF Structural, Placed
<1>8. QED
  BY <1>1, <1>3, <1>4, <1>5, <1>6, <1>7 DEF MtbfHonest, MtbfEstimate, Shape, IsBoard, IsFile

LEMMA GcdClaim ==
  ASSUME NEW j \in Job, Gcd(j)
  PROVE  \/ said' = Nothing
         \/ \E pin \in SUBSET Site : \E did \in SUBSET pin :
            \E lapped : \E probe \in Probes(pin, did \intersect board.good) :
              /\ board' = Ran(did)
              /\ Cleared(Left(board.pos) \union Left(board.neg))
              /\ said' = GcdVerdict(Ran(did), did, lapped, probe)
<1>1. CASE ~Genuine("gcd") \/ ~board.armed
  BY <1>1 DEF Gcd, Quiet
<1>2. CASE ~(~Genuine("gcd") \/ ~board.armed)
  <2>1. PICK pin \in Swept : \E did \in SUBSET pin :
            \E lapped \in {FALSE, did # {}}, probe \in Probes(pin, did \intersect board.good) :
               /\ board' = Ran(did)
               /\ IF Cleared(Left(board.pos) \union Left(board.neg))
                  THEN said' = GcdVerdict(Ran(did), did, lapped, probe) ELSE Quiet
    BY <1>2 DEF Gcd
  <2>2. PICK did \in SUBSET pin :
            \E lapped \in {FALSE, did # {}}, probe \in Probes(pin, did \intersect board.good) :
               /\ board' = Ran(did)
               /\ IF Cleared(Left(board.pos) \union Left(board.neg))
                  THEN said' = GcdVerdict(Ran(did), did, lapped, probe) ELSE Quiet
    BY <2>1
  <2>3. PICK lapped \in {FALSE, did # {}}, probe \in Probes(pin, did \intersect board.good) :
               /\ board' = Ran(did)
               /\ IF Cleared(Left(board.pos) \union Left(board.neg))
                  THEN said' = GcdVerdict(Ran(did), did, lapped, probe) ELSE Quiet
    BY <2>2
  <2>4. pin \in SUBSET Site
    BY DEF Swept
  <2>5. QED
    BY <2>3, <2>4 DEF Quiet
<1>3. QED
  BY <1>1, <1>2

LEMMA GcdSays == ASSUME NEW j \in Job, Gcd(j) PROVE said' = Nothing \/ said'.by = "gcd"
<1>1. ASSUME NEW b, NEW did, NEW lapped, NEW probe
      PROVE  GcdVerdict(b, did, lapped, probe).by = "gcd"
  BY DEF GcdVerdict
<1>2. CASE said' # Nothing
  <2>1. PICK pin \in SUBSET Site : \E did \in SUBSET pin :
            \E lapped : \E probe \in Probes(pin, did \intersect board.good) :
              said' = GcdVerdict(Ran(did), did, lapped, probe)
    BY <1>2, GcdClaim
  <2>2. PICK did \in SUBSET pin :
            \E lapped : \E probe \in Probes(pin, did \intersect board.good) :
              said' = GcdVerdict(Ran(did), did, lapped, probe)
    BY <2>1
  <2>3. QED
    BY <1>1, <2>2
<1>3. QED
  BY <1>2

(* Instance-hours are claimed only of the design the script is for, only   *)
(* of sites whose control latch has set since the board was loaded, and    *)
(* for no longer than that; and a site that its placement makes fire is    *)
(* never counted as an event.                                              *)
THEOREM MtbfCorrect == Spec => []MtbfHonest
<1>1. Init => MtbfHonest
  BY DEF Init, Nothing, MtbfHonest
<1>2. IInv /\ IInv' /\ MtbfHonest /\ [Next]_vars => MtbfHonest'
  <2> SUFFICES ASSUME IInv, IInv', MtbfHonest, [Next]_vars PROVE MtbfHonest'
    OBVIOUS
  <2>1. CASE said' = Nothing
    BY <2>1 DEF Nothing, MtbfHonest
  <2>2. CASE UNCHANGED vars
    BY <2>2 DEF vars, MtbfHonest
  <2>3. ASSUME NEW j \in Job, Prot(j), ProtTrusted PROVE MtbfHonest'
    BY <2>3 DEF Prot, ProtBound, MtbfHonest
  <2>4. ASSUME NEW j \in Job, Mtbf(j), MtbfTrusted(IF j = "cron" THEN 0 ELSE Windows)
        PROVE  MtbfHonest'
    BY <2>4, MtbfClaim
  <2>5. ASSUME NEW j \in Job, Gcd(j) PROVE MtbfHonest'
    <3>1. said'.by # "mtbf"
      BY <2>5, GcdSays DEF Nothing
    <3>2. QED
      BY <3>1 DEF MtbfHonest
  <2>6. QED
    BY <2>1, <2>2, <2>3, <2>4, <2>5, Withdrawn
<1>3. QED
  BY <1>1, <1>2, Invariant, PTL DEF Spec

\* What one report says, the acquittals and the accusations.
LEMMA Accusation ==
  ASSUME IInv, NEW pin \in SUBSET Site, NEW did \in SUBSET pin, NEW lapped,
         NEW probe \in Probes(pin, did \intersect board.good),
         Cleared(Left(board.pos) \union Left(board.neg))
  PROVE  LET v == GcdVerdict(Ran(did), did, lapped, probe)
         IN  /\ v.pass => did = Site /\ Site \subseteq board.good
             /\ v.control = "acquitted" => ~v.wrong
             /\ v.accused = "subtract" => board.fault = "subtract"
             /\ v.accused = "compare" => board.fault = "compare" \/ ~v.belied
<1> DEFINE failing == Ran(did).neg \union (Site \ Ran(did).pos)
           right == did \intersect board.good
           bad == did \ board.good
           padded == probe.wrong \union probe.late
           plain == probe.wrong \union probe.lateplain
           v == GcdVerdict(Ran(did), did, lapped, probe)
<1>1. Left(board.pos) = {} /\ Left(board.neg) = {}
  BY DEF Cleared
<1>2. Ran(did).pos = right /\ Ran(did).neg = bad
  BY <1>1 DEF Ran, IInv, Shape, IsBoard, IsFile
<1>3. failing = Site \ right
  BY <1>2
<1>4. /\ board.fault = "compare" => probe.negabs \subseteq probe.wrong
      /\ board.fault = "subtract" => probe.wrong = {}
      /\ board.fault \notin {"compare", "subtract"} => probe.wrong = {} /\ probe.negabs = {}
  BY DEF Probes
<1>5. /\ v.control = Control(padded, plain)
      /\ v.accused = Accused(probe.negabs, padded, failing)
      /\ v.wrong = (probe.wrong # {})
      /\ v.belied = (probe.late \intersect right # {})
      /\ v.pass => failing = {}
  BY <1>2 DEF GcdVerdict
<1>6. v.control = "acquitted" => ~v.wrong
  <2>1. v.control = "acquitted" => plain = {}
    BY <1>5 DEF Control
  <2>2. QED
    BY <1>5, <2>1
<1>7. v.accused \in {"compare", "subtract"} =>
        /\ padded \ failing = {}
        /\ probe.negabs # {}
        /\ v.accused = IF padded = {} THEN "subtract" ELSE "compare"
  <2> HIDE DEF v, padded, failing
  <2>1. v.accused \in {"compare", "subtract"} =>
          padded \ failing = {} /\ v.accused = AccusedOfAll(probe.negabs, padded, failing)
    BY <1>5 DEF Accused
  <2>2. QED
    BY <2>1 DEF AccusedOfAll
<1>8. v.accused = "subtract" => board.fault = "subtract"
  BY <1>4, <1>7
<1>9. v.accused = "compare" => board.fault = "compare" \/ ~v.belied
  <2> SUFFICES ASSUME v.accused = "compare" PROVE probe.late \intersect right = {}
    BY <1>5
  <2>1. padded \ (Site \ right) = {}
    BY <1>3, <1>7
  <2>2. QED
    BY <2>1
<1>10. v.pass => did = Site /\ Site \subseteq board.good
  BY <1>3, <1>5
<1>11. QED
  BY <1>6, <1>8, <1>9, <1>10

(* PASS is said only of a run in which every vector completed rightly; no *)
(* acquittal of the comparator, by the control or by the accusation of the *)
(* subtract behind it, is said after a wrong sign decision; and a          *)
(* comparator that decided rightly is accused in the end only by samples   *)
(* that came late, and never late on a vector that came out right.         *)
THEOREM GcdCorrect == Spec => []GcdHonest
<1>1. Init => GcdHonest
  BY DEF Init, Nothing, GcdHonest
<1>2. IInv /\ GcdHonest /\ [Next]_vars => GcdHonest'
  <2> SUFFICES ASSUME IInv, GcdHonest, [Next]_vars PROVE GcdHonest'
    OBVIOUS
  <2>1. CASE said' = Nothing
    BY <2>1 DEF Nothing, GcdHonest
  <2>2. CASE UNCHANGED vars
    BY <2>2 DEF vars, GcdHonest
  <2>3. ASSUME NEW j \in Job, Prot(j), ProtTrusted PROVE GcdHonest'
    BY <2>3 DEF Prot, ProtBound, GcdHonest
  <2>4. ASSUME NEW j \in Job, Mtbf(j), MtbfTrusted(IF j = "cron" THEN 0 ELSE Windows)
        PROVE  GcdHonest'
    BY <2>4 DEF Mtbf, MtbfEstimate, GcdHonest
  <2>5. ASSUME NEW pin \in SUBSET Site, NEW did \in SUBSET pin, NEW lapped,
               NEW probe \in Probes(pin, did \intersect board.good),
               board' = Ran(did), Cleared(Left(board.pos) \union Left(board.neg)),
               said' = GcdVerdict(Ran(did), did, lapped, probe)
        PROVE  GcdHonest'
    <3>1. board'.good = board.good /\ board'.fault = board.fault
      BY <2>5 DEF Ran, IInv, Shape, IsBoard, IsFile
    <3>2. said'.did = did
      BY <2>5 DEF GcdVerdict
    <3>3. QED
      BY <2>5, <3>1, <3>2, Accusation DEF GcdHonest
  <2>6. QED
    BY <2>1, <2>2, <2>3, <2>4, <2>5, Withdrawn, GcdClaim
<1>3. QED
  BY <1>1, <1>2, Invariant, PTL DEF Spec

-----------------------------------------------------------------------------
(* The counter.                                                            *)

Reading == /\ board.count \in Nat
           /\ board.design # "none" => board.freq \in Freqs
           /\ IsFile(files.prot)
           /\ \A j \in Job : ~Idle(j) => IsFile(job[j].st)

LEMMA CountedReads ==
  ASSUME Shape, Reading, Live, NEW n \in Nat
  PROVE  LET b == Counted(n) IN b.count \in Nat /\ b.freq = board.freq /\ b.design = board.design
<1>1. board.freq \in Nat /\ board.count \in Nat /\ Modulus \in Nat \ {0}
  <2>1. board.freq \in Freqs /\ board.count \in Nat
    BY DEF Reading, Live
  <2>2. Modulus \in Nat \ {0} /\ board.freq \in 1 .. Modulus - 1
    BY <2>1, RigAssumption
  <2>3. QED
    BY <2>1, <2>2
<1>2. n * board.freq \in Nat
  BY <1>1
<1>3. (board.count + n * board.freq) % Modulus \in Nat
  BY <1>1, <1>2
<1>4. QED
  BY <1>3 DEF Counted, Shape, IsBoard

LEMMA ReadingStep == Shape /\ Reading /\ [Next]_vars => Reading'
<1> SUFFICES ASSUME Shape, Reading, [Next]_vars PROVE Reading'
  OBVIOUS
<1>1. CASE UNCHANGED vars \/ Hour \/ Delete
  BY <1>1 DEF vars, Hour, Delete, Shape, Reading, Idle
<1>2. CASE Arm \/ Event
  BY <1>2 DEF Arm, Event, Shape, IsBoard, Reading, Idle
<1>3. ASSUME NEW j \in Job, Start(j) PROVE Reading'
  <2>1. IsFile(NoFile)
    BY DEF IsFile, NoFile
  <2>2. IsFile(job'[j].st) /\ \A k \in Job : k # j => job'[k] = job[k]
    BY <1>3, <2>1 DEF Start, Shape, Reading
  <2>3. QED
    BY <1>3, <2>2 DEF Start, Reading, Idle
<1>4. ASSUME NEW j \in Job, Program(j) PROVE Reading'
  <2>1. board'.count = 0 /\ board'.freq \in Freqs
    BY <1>4 DEF Program, Fresh, NoBoard
  <2>2. IsFile(job'[j].st) /\ \A k \in Job : k # j => job'[k] = job[k]
    BY <1>4 DEF Program, Shape, Reading, Idle
  <2>3. QED
    BY <1>4, <2>1, <2>2 DEF Program, Reading, Idle
<1>5. ASSUME NEW j \in Job, Lose(j) PROVE Reading'
  BY <1>5 DEF Lose, Shape, Reading, Idle, NoJob
<1>6. ASSUME NEW j \in Job, Prot(j) PROVE Reading'
  <2> DEFINE n == IF j = "cron" THEN 1 ELSE Windows
  <2>1. board'.count \in Nat /\ (board'.design # "none" => board'.freq \in Freqs)
    BY <1>6, CountedReads, RigAssumption DEF Prot, Reading
  <2>2. IsFile(files'.prot)
    BY <1>6 DEF Prot, Session, ProtFiled, Shape, Reading, Idle, IsFile
  <2>3. job' = [job EXCEPT ![j] = NoJob]
    BY <1>6 DEF Prot, Session
  <2>4. QED
    BY <2>1, <2>2, <2>3 DEF Reading, Shape, Idle, NoJob
<1>7. ASSUME NEW j \in Job, Mtbf(j) PROVE Reading'
  <2>1. board'.count \in Nat /\ (board'.design # "none" => board'.freq \in Freqs)
    BY <1>7, CountedReads, RigAssumption DEF Mtbf, Reading
  <2>2. files'.prot = files.prot
    BY <1>7 DEF Mtbf, Shape
  <2>3. job' = [job EXCEPT ![j] = NoJob]
    BY <1>7 DEF Mtbf, Session
  <2>4. QED
    BY <2>1, <2>2, <2>3 DEF Reading, Shape, Idle, NoJob
<1>8. ASSUME NEW j \in Job, Gcd(j) PROVE Reading'
  <2>1. board' = board \/ \E did : board' = Ran(did)
    BY <1>8 DEF Gcd
  <2>2. board'.count = board.count /\ board'.freq = board.freq /\ board'.design = board.design
    BY <2>1 DEF Ran, Shape, IsBoard
  <2>3. job' = [job EXCEPT ![j] = NoJob] /\ files' = files
    BY <1>8 DEF Gcd, Session
  <2>4. QED
    BY <2>2, <2>3 DEF Reading, Shape, Idle, NoJob
<1>9. QED
  BY <1>1, <1>2, <1>3, <1>4, <1>5, <1>6, <1>7, <1>8 DEF Next

\* y % M is the only remainder.
LEMMA ModUnique ==
  ASSUME NEW M \in Nat \ {0}, NEW y \in Nat, NEW c \in Int, NEW d \in 0 .. M - 1, y = M * c + d
  PROVE  y % M = d
<1> DEFINE a == y \div M
           b == y % M
<1>1. a \in Int /\ b \in 0 .. M - 1 /\ y = M * a + b
  OBVIOUS
<1>2. ~(a >= c + 1)
  <2>1. SUFFICES ASSUME a >= c + 1 PROVE FALSE
    OBVIOUS
  <2>2. M * a >= M * (c + 1)
    BY <1>1, <2>1
  <2>3. M * (c + 1) = M * c + M
    OBVIOUS
  <2>4. QED
    BY <1>1, <2>2, <2>3
<1>3. ~(c >= a + 1)
  <2>1. SUFFICES ASSUME c >= a + 1 PROVE FALSE
    OBVIOUS
  <2>2. M * c >= M * (a + 1)
    BY <1>1, <2>1
  <2>3. M * (a + 1) = M * a + M
    BY <1>1
  <2>4. QED
    BY <1>1, <2>2, <2>3
<1>4. QED
  BY <1>1, <1>2, <1>3

\* A counter that moves by less than its modulus wraps at most once.
LEMMA Wrap ==
  ASSUME NEW M \in Nat \ {0}, NEW x \in Nat, NEW f \in 1 .. M - 1
  PROVE  (x + f) % M = IF (x % M) + f < M THEN (x % M) + f ELSE (x % M) + f - M
<1> DEFINE a == x \div M
           b == x % M
<1>1. a \in Int /\ b \in 0 .. M - 1 /\ x = M * a + b
  OBVIOUS
<1>2. CASE b + f < M
  <2>1. x + f = M * a + (b + f) /\ b + f \in 0 .. M - 1
    BY <1>1, <1>2
  <2>2. x + f \in Nat /\ M \in Nat \ {0} /\ a \in Int
    BY <1>1
  <2>3. (x + f) % M = b + f
    <3> HIDE DEF a, b
    <3>1. QED
      BY <2>1, <2>2, ModUnique
  <2>4. QED
    BY <1>2, <2>3
<1>3. CASE b + f >= M
  <2>1. M * (a + 1) = M * a + M
    BY <1>1
  <2>2. x + f = M * (a + 1) + (b + f - M) /\ b + f - M \in 0 .. M - 1 /\ a + 1 \in Int
    BY <1>1, <1>3, <2>1
  <2>3. x + f \in Nat /\ M \in Nat \ {0}
    BY <1>1
  <2>4. (x + f) % M = b + f - M
    <3> HIDE DEF a, b
    <3>1. QED
      BY <2>2, <2>3, ModUnique
  <2>5. ~(b + f < M)
    BY <1>1, <1>3
  <2>6. QED
    BY <2>4, <2>5
<1>4. QED
  BY <1>1, <1>2, <1>3

\* The difference of two readings in a row, unwrapped, is the frequency.
LEMMA OneWindow ==
  ASSUME NEW n \in Nat, board.count \in Nat, board.freq \in Freqs,
         NEW k \in 1 .. n, k + 1 \in 1 .. n
  PROVE  LET d == Readings(n)[k + 1] - Readings(n)[k]
         IN  (IF d < 0 THEN d + Modulus ELSE d) = board.freq
<1> DEFINE f == board.freq
           c == board.count
           x == c + k * f
           seen == Readings(n)
<1>1. f \in 1 .. Modulus - 1 /\ Modulus \in Nat \ {0}
  BY RigAssumption
<1>2. x \in Nat /\ c + (k + 1) * f = x + f
  <2>1. f \in Nat /\ k \in Nat
    BY <1>1
  <2>2. ASSUME NEW m \in Nat, NEW h \in Nat PROVE m * h \in Nat /\ (m + 1) * h = m * h + h
    OBVIOUS
  <2>3. k * f \in Nat /\ (k + 1) * f = k * f + f
    <3> HIDE DEF f
    <3>1. QED
      BY <2>1, <2>2
  <2>4. QED
    BY <2>1, <2>3
<1>3. seen[k + 1] = (x + f) % Modulus /\ seen[k] = x % Modulus
  BY <1>2 DEF Readings
<1>4. x % Modulus \in 0 .. Modulus - 1
  BY <1>1, <1>2
<1>5. seen[k + 1] = IF (x % Modulus) + f < Modulus THEN (x % Modulus) + f
                                               ELSE (x % Modulus) + f - Modulus
  BY <1>1, <1>2, <1>3, Wrap
<1>6. QED
  BY <1>1, <1>3, <1>4, <1>5

LEMMA RateOfReadings ==
  ASSUME NEW n \in Nat, board.count \in Nat, board.freq \in Freqs, NEW old,
         NEW kept \in Kept(Readings(n)), Gapless(kept)
  PROVE  Rate(kept, Readings(n), old) = Corrected(board.freq)
<1> DEFINE f == board.freq
           seen == Readings(n)
           step(p) == LET d == seen[p[2]] - seen[p[1]] IN IF d < 0 THEN d + Modulus ELSE d
           hz == {Corrected(step(p)) : p \in Steps(kept)}
<1>1. f \in Nat \ {0}
  <2>1. f \in 1 .. Modulus - 1 /\ Modulus \in Nat
    BY RigAssumption
  <2>2. QED
    BY <2>1
<1>2. kept \subseteq 1 .. n
  BY DEF Kept, Readings
<1>3. ASSUME NEW p \in Steps(kept) PROVE step(p) = f
  <2>1. p[1] \in 1 .. n /\ p[2] \in 1 .. n /\ p[2] = p[1] + 1
    BY <1>2 DEF Steps, Gapless
  <2>2. LET d == seen[p[1] + 1] - seen[p[1]] IN (IF d < 0 THEN d + Modulus ELSE d) = f
    BY <2>1, OneWindow
  <2>3. QED
    BY <2>1, <2>2
<1>4. hz = {Corrected(f)}
  <2>1. Steps(kept) # {}
    BY DEF Gapless
  <2> HIDE DEF step
  <2>2. QED
    BY <1>3, <2>1
<1>5. Corrected(f) \in Nat \ {0}
  BY <1>1 DEF Corrected
<1>6. Rate(kept, seen, old) = IF hz \subseteq {0} THEN old ELSE Max(hz)
  BY DEF Rate
<1> HIDE DEF hz
<1>7. Max({Corrected(f)}) = Corrected(f)
  BY <1>5 DEF Max
<1>8. QED
  BY <1>4, <1>5, <1>6, <1>7

(* The handshake rate a poll measures is what a window counts, corrected  *)
(* by the silicon factor, wherever the counter stood and wrapped, if no    *)
(* window it skipped lies between two that it kept.                        *)
THEOREM RateCorrect == Spec => []RateExact
<1>1. Init => Reading /\ RateExact
  BY DEF Init, Reading, NoBoard, NoFile, NoJob, IsFile, Idle, Nothing, RateExact
<1>2. IInv /\ Reading /\ RateExact /\ [Next]_vars => RateExact'
  <2> SUFFICES ASSUME IInv, Reading, RateExact, [Next]_vars PROVE RateExact'
    OBVIOUS
  <2>1. CASE said' = Nothing
    BY <2>1 DEF Nothing, RateExact
  <2>2. CASE UNCHANGED vars
    BY <2>2 DEF vars, RateExact
  <2>3. ASSUME NEW j \in Job, Prot(j), ProtTrusted PROVE RateExact'
    <3> DEFINE n == IF j = "cron" THEN 1 ELSE Windows
    <3>1. PICK kept \in Kept(Readings(n)) :
            said' = ProtBound(ProtFiled(job[j].st, kept, Readings(n)), kept)
      BY <2>3 DEF Prot
    <3> DEFINE st == ProtFiled(job[j].st, kept, Readings(n))
    <3>2. Live /\ board.freq \in Freqs /\ board.count \in Nat /\ board' = Counted(n)
      BY <2>3 DEF ProtTrusted, Live, Reading, Prot
    <3>3. board'.freq = board.freq
      BY <3>2 DEF Counted, IInv, Shape, IsBoard
    <3>4. st.rate = Rate(kept, Readings(n), job[j].st.rate)
      <4>1. IsFile(job[j].st)
        BY <2>3 DEF Prot, Session, Reading, Idle
      <4>2. QED
        BY <4>1 DEF ProtFiled, IsFile
    <3>5. Gapless(kept) => st.rate = Corrected(board.freq)
      BY <3>2, <3>4, RateOfReadings, RigAssumption
    <3>6. QED
      BY <3>1, <3>3, <3>5 DEF ProtBound, RateExact
  <2>4. ASSUME NEW j \in Job, Mtbf(j), MtbfTrusted(IF j = "cron" THEN 0 ELSE Windows)
        PROVE  RateExact'
    BY <2>4 DEF Mtbf, MtbfEstimate, RateExact
  <2>5. ASSUME NEW j \in Job, Gcd(j) PROVE RateExact'
    <3>1. said'.by # "prot"
      BY <2>5, GcdSays DEF Nothing
    <3>2. QED
      BY <3>1 DEF RateExact
  <2>6. QED
    BY <2>1, <2>2, <2>3, <2>4, <2>5, Withdrawn
<1>3. IInv => Shape
  BY DEF IInv
<1>4. QED
  BY <1>1, <1>2, <1>3, ReadingStep, Invariant, PTL DEF Spec

-----------------------------------------------------------------------------
(* Ring oscillators: the invariant.                                        *)

Builds == [design : Designs \union {"other"}, id : Nat, dead : SUBSET (Group \X Slot)]
Tally  == [n : Nat, of : SUBSET Group]
Devices == [build : Builds, addr : Addr, run : BOOLEAN, clear : BOOLEAN, group : Group,
            count : [Slot -> Tally], over : [Slot -> BOOLEAN]]

Words == [addr : Addr, tag : BOOLEAN, build : Builds, poison : BOOLEAN, over : BOOLEAN,
          count : Tally, echo : Group, live : SUBSET Slot]
Lines == [what : {"CONST", "ECHO", "SAMPLE", "POISON", "WINDOW", "COUNT"}, rep : 1 .. Repeats,
          ask : Addr, word : Words, lasted : Nat]

Places == [do : DOMAIN Follow \union {"COUNT", "end"}, again : BOOLEAN, rep : 1 .. Repeats,
           slot : Slot]

On == sweep.at # "idle"

IsLog(log) == /\ log = [done |-> log.done, lines |-> log.lines]
              /\ log.done \in BOOLEAN /\ log.lines \in Seq(Lines)

DiskShape == /\ bit \in [Designs -> Builds]
             /\ \A d \in Designs : bit[d].design = d
             /\ bit["one"].dead = {}
             /\ device \in Devices
             /\ DOMAIN raw = Group
             /\ \A g \in Group : IsLog(raw[g])

ScriptShape == On =>
  /\ sweep = [at |-> sweep.at, kind |-> sweep.kind, force |-> sweep.force,
              programmed |-> sweep.programmed, todo |-> sweep.todo, group |-> sweep.group,
              pc |-> sweep.pc, lines |-> sweep.lines, since |-> sweep.since, logs |-> sweep.logs]
  /\ sweep.at \in {"next", "fpga", "lock", "scan"}
  /\ sweep.kind \in Designs /\ sweep.programmed \in BOOLEAN
  /\ sweep.todo \subseteq Group /\ sweep.group \in Group
  /\ sweep.pc \in Places /\ sweep.lines \in Seq(Lines) /\ sweep.since \in Nat
  /\ DOMAIN sweep.logs = Group
  /\ \A g \in Group : IsLog(sweep.logs[g])

\* Where a session stands between its scans; the session of ro_measure.py is
\* the only one of its sweep, and has just configured the device.
Standing == On =>
  /\ sweep.pc.slot \in SlotsRead(sweep.kind)
  /\ sweep.pc.do \notin {"COUNT", "end"} => sweep.pc.slot = 0
  /\ sweep.pc.again => sweep.pc.do \in Reads
  /\ sweep.pc.do = "CONST" /\ ~sweep.pc.again => sweep.lines = <<>>
  /\ sweep.at # "scan" => sweep.pc = TclStart /\ sweep.lines = <<>>
  /\ sweep.kind = "one" =>
       /\ sweep.group = 0
       /\ sweep.todo # {} => sweep.at = "next" /\ sweep.todo = {0} /\ ~sweep.programmed
       /\ sweep.at \in {"lock", "scan"} => device.build.design = "one" /\ device.build.dead = {}

-----------------------------------------------------------------------------
(* A session while it scans.                                               *)

\* The design is the one the script is for, and all rings it counts turn.
Right == device.build.design = sweep.kind /\ SlotsRead(sweep.kind) \subseteq Turning(device)

Addressed == /\ sweep.pc.do # "CONST" \/ sweep.pc.again => device.group = sweep.group
             /\ sweep.pc.again => device.addr = AddrOf(sweep.pc)

\* What the readback says of the device is on record before a window begins.
Witnessed ==
  /\ sweep.pc.do # "CONST" =>
       \E i \in DOMAIN sweep.lines :
          /\ sweep.lines[i].what = "CONST"
          /\ sweep.lines[i].word.tag = (device.build.design \in Designs)
  /\ sweep.pc.do \notin {"CONST", "ECHO", "SAMPLE"} =>
       \E i \in DOMAIN sweep.lines :
          /\ sweep.lines[i].what = "SAMPLE"
          /\ sweep.lines[i].word.live = Turning(device)

\* Counter b shows n ticks, all of this session's group, or that it wrapped.
Shows(b, n) == \/ device.over[b]
               \/ device.count[b] = [n |-> n, of |-> IF n = 0 THEN {} ELSE {sweep.group}]

Counting ==
  /\ sweep.pc.do \in {"POISON", "stop"} => device.run /\ ~device.clear
  /\ sweep.pc.do = "POISON" => sweep.since = 0
  /\ Right => \A b \in SlotsRead(sweep.kind) :
       /\ sweep.pc.do \in {"idle", "go", "POISON"} => Shows(b, 0)
       /\ sweep.pc.do = "stop" => Shows(b, sweep.since)
       /\ sweep.pc.do = "COUNT" =>
            \A i \in DOMAIN sweep.lines :
               sweep.lines[i].what = "WINDOW" /\ sweep.lines[i].rep = sweep.pc.rep
                 => Shows(b, sweep.lines[i].lasted)

\* The lines: of a window, only once it is over; and of every counter that has
\* been read, with what it showed.
Written ==
  /\ \A i \in DOMAIN sweep.lines :
       /\ sweep.lines[i].rep <= sweep.pc.rep
       /\ sweep.lines[i].what \in {"WINDOW", "COUNT"} /\ sweep.lines[i].rep = sweep.pc.rep
            => sweep.pc.do \in {"COUNT", "end"}
       /\ sweep.lines[i].what = "WINDOW" => sweep.lines[i].lasted > 0
       /\ sweep.lines[i].what = "COUNT" => sweep.lines[i].word.build = device.build
  /\ Right => \A i, j \in DOMAIN sweep.lines :
       /\ sweep.lines[i].what = "COUNT" /\ sweep.lines[j].what = "WINDOW"
       /\ sweep.lines[i].rep = sweep.lines[j].rep
       => \/ sweep.lines[i].word.over
          \/ sweep.lines[i].word.count = [n |-> sweep.lines[j].lasted, of |-> {sweep.group}]

Read(b, rep) == \E i \in DOMAIN sweep.lines :
                   /\ sweep.lines[i].what = "COUNT"
                   /\ sweep.lines[i].word.addr = b
                   /\ sweep.lines[i].rep = rep

AllRead == \A b \in SlotsRead(sweep.kind), rep \in 1 .. sweep.pc.rep :
             \/ rep < sweep.pc.rep
             \/ sweep.pc.do = "end"
             \/ sweep.pc.do = "COUNT" /\ b < sweep.pc.slot
             => Read(b, rep)

Final == sweep.pc.do = "end" => sweep.pc.rep = Repeats

Scanning == sweep.at = "scan" => Addressed /\ Witnessed /\ Counting /\ Written /\ AllRead /\ Final

-----------------------------------------------------------------------------
(* What outlives a session.                                                *)

Honest(kind, g, log) ==
  /\ \A b \in SlotsRead(kind), rep \in 1 .. Repeats :
       \E c \in Of(log, "COUNT") : c.word.addr = b /\ c.rep = rep
  /\ \A c \in Of(log, "COUNT") : c.word.build.design = kind
  /\ \A c \in Of(log, "COUNT"), w \in Of(log, "WINDOW") :
       c.rep = w.rep => c.word.count = [n |-> w.lasted, of |-> {g}]

Trusted(kind, g, log) == log.done /\ Believed(kind, log, g) => Honest(kind, g, log)

Saved == /\ \A g \in Group : Trusted("many", g, raw[g])
         /\ On => \A g \in Group : Trusted(sweep.kind, g, sweep.logs[g])

Published == \A k \in DOMAIN found : \A g \in DOMAIN found[k].logs :
                Honest(found[k].kind, g, [done |-> TRUE, lines |-> found[k].logs[g]])

SweepInv == DiskShape /\ ScriptShape /\ Standing /\ Scanning /\ Saved /\ Published

-----------------------------------------------------------------------------
LEMMA Committing ==
  ASSUME NEW d \in Devices, NEW a \in Addr, NEW r \in BOOLEAN, NEW c \in BOOLEAN, NEW g \in Group
  PROVE  LET e == Committed(d, a, r, c, g)
         IN  /\ e \in Devices
             /\ e.build = d.build /\ e.addr = a /\ e.run = r /\ e.clear = c /\ e.group = g
             /\ \A b \in Slot : IF c /\ b \in Turning(e)
                                THEN e.count[b] = Empty /\ ~e.over[b]
                                ELSE e.count[b] = d.count[b] /\ e.over[b] = d.over[b]
<1> DEFINE e0 == [d EXCEPT !.addr = a, !.run = r, !.clear = c, !.group = g]
           Z == IF c THEN Turning(e0) ELSE {}
           e == Committed(d, a, r, c, g)
<1>1. e0 \in Devices /\ e0.build = d.build /\ e0.addr = a /\ e0.run = r /\ e0.clear = c
      /\ e0.group = g /\ e0.count = d.count /\ e0.over = d.over
  BY DEF Devices
<1>2. Empty \in Tally
  BY DEF Empty, Tally
<1>3. e = [e0 EXCEPT !.count = [b \in Slot |-> IF b \in Z THEN Empty ELSE e0.count[b]],
                     !.over  = [b \in Slot |-> b \notin Z /\ e0.over[b]]]
  BY DEF Committed
<1>4. /\ e.build = d.build /\ e.addr = a /\ e.run = r /\ e.clear = c /\ e.group = g
      /\ e.count = [b \in Slot |-> IF b \in Z THEN Empty ELSE e0.count[b]]
      /\ e.over  = [b \in Slot |-> b \notin Z /\ e0.over[b]]
  <2> HIDE DEF e0, Z, e
  <2> QED BY <1>1, <1>3 DEF Devices
<1>5. e \in Devices
  <2> HIDE DEF e0, Z, e
  <2>1. [b \in Slot |-> IF b \in Z THEN Empty ELSE e0.count[b]] \in [Slot -> Tally]
    BY <1>1, <1>2 DEF Devices
  <2>2. [b \in Slot |-> b \notin Z /\ e0.over[b]] \in [Slot -> BOOLEAN]
    BY <1>1 DEF Devices
  <2> QED BY <1>1, <1>3, <2>1, <2>2 DEF Devices
<1>6. Turning(e) = Turning(e0)
  <2> HIDE DEF e0, Z, e
  <2> QED BY <1>1, <1>4 DEF Turning, Selected
<1>7. \A b \in Slot : IF c /\ b \in Turning(e)
                      THEN e.count[b] = Empty /\ ~e.over[b]
                      ELSE e.count[b] = d.count[b] /\ e.over[b] = d.over[b]
  <2> SUFFICES ASSUME NEW b \in Slot
               PROVE  IF c /\ b \in Turning(e)
                      THEN e.count[b] = Empty /\ ~e.over[b]
                      ELSE e.count[b] = d.count[b] /\ e.over[b] = d.over[b]
    OBVIOUS
  <2>1. (c /\ b \in Turning(e)) <=> b \in Z
    BY <1>6
  <2>2. e.count[b] = IF b \in Z THEN Empty ELSE d.count[b]
    BY <1>1, <1>4
  <2>3. e.over[b] = (b \notin Z /\ d.over[b])
    BY <1>1, <1>4
  <2>4. d.over[b] \in BOOLEAN
    BY DEF Devices
  <2> HIDE DEF e, Z
  <2> QED BY <2>1, <2>2, <2>3, <2>4
<1> QED BY <1>4, <1>5, <1>7

LEMMA Ticking ==
  ASSUME NEW d \in Devices
  PROVE  LET e == Elapsed(d)
         IN  /\ e \in Devices
             /\ e.build = d.build /\ e.addr = d.addr /\ e.run = d.run /\ e.clear = d.clear
             /\ e.group = d.group
             /\ d.run /\ ~d.clear => \A b \in Turning(d) \intersect Slot :
                  e.over[b] \/ (e.over[b] = d.over[b] /\ e.count[b] = Ticked(d.count[b], Selected(d)))
<1> DEFINE Full(b) == d.count[b].n + 1 = Capacity
           C == IF d.run /\ ~d.clear THEN Turning(d) ELSE {}
           count == [b \in Slot |-> IF b \notin C THEN d.count[b]
                                    ELSE IF Full(b) THEN Empty
                                    ELSE Ticked(d.count[b], Selected(d))]
           over == [b \in Slot |-> d.over[b] \/ (b \in C /\ Full(b))]
           e == Elapsed(d)
<1>0. Selected(d) \in Group
  BY SweepAssumption DEF Selected, Devices
<1>1. count \in [Slot -> Tally]
  <2>1. ASSUME NEW b \in Slot PROVE d.count[b] \in Tally
    BY DEF Devices
  <2>2. Empty \in Tally
    BY DEF Empty, Tally
  <2>3. ASSUME NEW b \in Slot PROVE Ticked(d.count[b], Selected(d)) \in Tally
    BY <1>0, <2>1 DEF Ticked, Tally
  <2> HIDE DEF C, Full
  <2> QED BY <2>1, <2>2, <2>3
<1>2. over \in [Slot -> BOOLEAN]
  BY DEF Devices
<1>3. e = [d EXCEPT !.count = count, !.over = over]
  BY DEF Elapsed
<1>4. /\ e \in Devices
      /\ e.build = d.build /\ e.addr = d.addr /\ e.run = d.run /\ e.clear = d.clear
      /\ e.group = d.group /\ e.count = count /\ e.over = over
  <2> HIDE DEF count, over, e
  <2> QED BY <1>1, <1>2, <1>3 DEF Devices
<1>5. ASSUME d.run, ~d.clear, NEW b \in Turning(d) \intersect Slot
      PROVE  e.over[b] \/ (e.over[b] = d.over[b] /\ e.count[b] = Ticked(d.count[b], Selected(d)))
  <2>1. e.over[b] = (d.over[b] \/ Full(b))
    BY <1>4, <1>5
  <2>2. ~Full(b) => e.count[b] = Ticked(d.count[b], Selected(d))
    BY <1>4, <1>5
  <2>3. d.over[b] \in BOOLEAN
    BY DEF Devices
  <2> HIDE DEF e, Full
  <2> QED BY <2>1, <2>2, <2>3
<1> QED BY <1>4, <1>5

\* Which rings turn depends on the build and the group.
LEMMA SameTurning ==
  ASSUME NEW d, NEW e, e.build = d.build, e.group = d.group
  PROVE  Turning(e) = Turning(d) /\ Selected(e) = Selected(d)
BY DEF Turning, Selected

LEMMA Capturing == DiskShape => Captured(device) \in Words
<1> SUFFICES ASSUME DiskShape PROVE Captured(device) \in Words
  OBVIOUS
<1>1. device \in Devices
  BY DEF DiskShape
<1>2. /\ device.build \in Builds /\ device.addr \in Addr /\ device.run \in BOOLEAN
      /\ device.over \in [Slot -> BOOLEAN] /\ device.count \in [Slot -> Tally] /\ device.group \in Group
  BY <1>1 DEF Devices
<1>3. Empty \in Tally /\ Selected(device) \in Group /\ Turning(device) \subseteq Slot /\ 0 \in Group
  BY <1>2, SweepAssumption DEF Empty, Tally, Selected, Turning, SlotsOf, Slot
<1> QED BY <1>2, <1>3 DEF Captured, Words

\* The order of the scans.
Advances(kind, p, q) ==
  /\ q \in Places
  /\ q.slot \in SlotsRead(kind)
  /\ q.again => q.do \in Reads
  /\ p.do \in Reads /\ ~p.again =>
       q.do = p.do /\ q.again /\ q.rep = p.rep /\ q.slot = p.slot
  /\ p.do \notin Reads \/ p.again =>
       /\ ~q.again
       /\ p.do # "COUNT" => q.rep = p.rep /\ q.slot = p.slot
       /\ p.do = "CONST" => q.do \in {"ECHO", "SAMPLE"}
       /\ p.do = "ECHO" => q.do = "SAMPLE"
       /\ p.do = "SAMPLE" => q.do = "clear"
       /\ p.do = "clear" => q.do = "idle"
       /\ p.do = "idle" => q.do = "go"
       /\ p.do = "go" => q.do = "POISON"
       /\ p.do = "POISON" => q.do = "stop"
       /\ p.do = "stop" => q.do = "COUNT"
       /\ p.do = "COUNT" =>
            \/ /\ p.slot + 1 \in SlotsRead(kind)
               /\ q.do = "COUNT" /\ q.rep = p.rep /\ q.slot = p.slot + 1
            \/ /\ p.slot + 1 \notin SlotsRead(kind) /\ p.rep < Repeats
               /\ q.do = "clear" /\ q.rep = p.rep + 1 /\ q.slot = 0
            \/ /\ p.slot + 1 \notin SlotsRead(kind) /\ p.rep = Repeats
               /\ q.do = "end" /\ q.rep = p.rep /\ q.slot = p.slot

LEMMA Advancing ==
  ASSUME NEW kind \in Designs, NEW p \in Places, p.again => p.do \in Reads, p.do # "end",
         p.slot \in SlotsRead(kind)
  PROVE  Advances(kind, p, Then(kind, p))
<1> DEFINE q == Then(kind, p)
<1> SUFFICES Advances(kind, p, q)
  OBVIOUS
<1>0. /\ DOMAIN Follow = {"CONST", "ECHO", "SAMPLE", "clear", "idle", "go", "POISON", "stop"}
      /\ SlotsRead(kind) \subseteq Slot /\ 0 \in SlotsRead(kind)
      /\ p.rep \in 1 .. Repeats /\ p.slot \in Slot /\ Repeats \in Nat /\ p.again \in BOOLEAN
  BY SweepAssumption DEF Follow, SlotsRead, Slot, Places
<1>1. CASE p.do \in Reads /\ ~p.again
  <2>1. q = [p EXCEPT !.again = TRUE]
    BY <1>1 DEF Then
  <2>2. q \in Places /\ q.do = p.do /\ q.again /\ q.rep = p.rep /\ q.slot = p.slot
    BY <2>1 DEF Places
  <2> HIDE DEF q
  <2> QED BY <1>1, <2>2 DEF Advances
<1>2. CASE p.do \in DOMAIN Follow /\ (p.do \in Reads => p.again)
  <2>0. p.do # "COUNT"
    BY <1>0, <1>2
  <2>1. q = [p EXCEPT !.do = Following(kind, p.do), !.again = FALSE]
    BY <1>0, <1>2, <2>0 DEF Then
  <2>2. /\ p.do = "CONST" => Following(kind, p.do) \in {"ECHO", "SAMPLE"}
        /\ p.do = "ECHO" => Following(kind, p.do) = "SAMPLE"
        /\ p.do = "SAMPLE" => Following(kind, p.do) = "clear"
        /\ p.do = "clear" => Following(kind, p.do) = "idle"
        /\ p.do = "idle" => Following(kind, p.do) = "go"
        /\ p.do = "go" => Following(kind, p.do) = "POISON"
        /\ p.do = "POISON" => Following(kind, p.do) = "stop"
        /\ p.do = "stop" => Following(kind, p.do) = "COUNT"
    BY DEF Following, Follow
  <2>3. Following(kind, p.do) \in DOMAIN Follow \union {"COUNT", "end"}
    BY <1>0, <1>2, <2>2
  <2>4. q \in Places /\ q.do = Following(kind, p.do) /\ ~q.again /\ q.rep = p.rep /\ q.slot = p.slot
    BY <2>1, <2>3 DEF Places
  <2> HIDE DEF q
  <2> QED BY <1>2, <2>0, <2>2, <2>4 DEF Advances
<1>3. CASE p.do = "COUNT" /\ p.again
  <2>0. p.do \notin DOMAIN Follow
    BY <1>0, <1>3
  <2>1. CASE p.slot + 1 \in SlotsRead(kind)
    <3>1. q = [p EXCEPT !.slot = p.slot + 1, !.again = FALSE]
      BY <1>3, <2>0, <2>1 DEF Then
    <3>2. q \in Places /\ q.do = "COUNT" /\ ~q.again /\ q.rep = p.rep /\ q.slot = p.slot + 1
      BY <1>0, <1>3, <2>1, <3>1 DEF Places
    <3> HIDE DEF q
    <3> QED BY <1>3, <2>1, <3>2 DEF Advances
  <2>2. CASE p.slot + 1 \notin SlotsRead(kind) /\ p.rep < Repeats
    <3>1. q = [do |-> "clear", again |-> FALSE, rep |-> p.rep + 1, slot |-> 0]
      BY <1>3, <2>0, <2>2 DEF Then
    <3>2. q \in Places /\ q.do = "clear" /\ ~q.again /\ q.rep = p.rep + 1 /\ q.slot = 0
      BY <1>0, <2>2, <3>1 DEF Places
    <3> HIDE DEF q
    <3> QED BY <1>0, <1>3, <2>2, <3>2 DEF Advances
  <2>3. CASE p.slot + 1 \notin SlotsRead(kind) /\ ~(p.rep < Repeats)
    <3>1. q = [p EXCEPT !.do = "end", !.again = FALSE]
      BY <1>3, <2>0, <2>3 DEF Then
    <3>2. q \in Places /\ q.do = "end" /\ ~q.again /\ q.rep = p.rep /\ q.slot = p.slot
      BY <3>1 DEF Places
    <3>3. p.rep = Repeats
      BY <1>0, <2>3
    <3> HIDE DEF q
    <3> QED BY <1>3, <2>3, <3>2, <3>3 DEF Advances
  <2> QED BY <2>1, <2>2, <2>3
<1>4. p.do \in DOMAIN Follow \union {"COUNT"}
  BY DEF Places
<1>5. "COUNT" \in Reads
  BY DEF Reads
<1> HIDE DEF q
<1> QED BY <1>0, <1>1, <1>2, <1>3, <1>4, <1>5

LEMMA Adding ==
  ASSUME NEW S, NEW L \in Seq(S), NEW x \in S
  PROVE  /\ Append(L, x) \in Seq(S)
         /\ \A i \in DOMAIN L : i \in DOMAIN Append(L, x) /\ Append(L, x)[i] = L[i]
         /\ \A i \in DOMAIN Append(L, x) : i \in DOMAIN L \/ Append(L, x)[i] = x
         /\ \E i \in DOMAIN Append(L, x) : Append(L, x)[i] = x
<1>1. Len(L) + 1 \in DOMAIN Append(L, x) /\ Append(L, x)[Len(L) + 1] = x
  OBVIOUS
<1> QED BY <1>1

-----------------------------------------------------------------------------
(* One scan.                                                               *)

Recorded == sweep.pc.again \/ sweep.pc.do = "stop"

ScanStep ==
  /\ sweep.pc.do # "end"
  /\ Advances(sweep.kind, sweep.pc, sweep.pc')
  /\ sweep.at' = "scan" /\ sweep.kind' = sweep.kind /\ sweep.group' = sweep.group
  /\ sweep.since' = IF sweep.pc.do = "go" THEN 0 ELSE sweep.since
  /\ sweep.pc.do = "stop" => sweep.since > 0
  /\ device.build' = device.build /\ device.group' = sweep.group
  /\ device.addr' = AddrOf(sweep.pc)
  /\ device.run' = (sweep.pc.do \in {"go", "POISON"})
  /\ device.clear' = (sweep.pc.do = "clear")
  /\ \A b \in Slot : IF sweep.pc.do = "clear" /\ b \in Turning(device)'
                      THEN device.count[b]' = Empty /\ ~device.over[b]'
                      ELSE device.count[b]' = device.count[b] /\ device.over[b]' = device.over[b]
  /\ \A i \in DOMAIN sweep.lines : i \in DOMAIN sweep.lines' /\ sweep.lines[i]' = sweep.lines[i]
  /\ \A i \in DOMAIN sweep.lines' :
           i \notin DOMAIN sweep.lines => Recorded /\ sweep.lines[i]' = Line(sweep.pc)
  /\ Recorded => \E i \in DOMAIN sweep.lines' : sweep.lines[i]' = Line(sweep.pc)

LEMMA Lined ==
  ASSUME DiskShape, ScriptShape, Standing, sweep.at = "scan", sweep.pc.do # "end", Recorded
  PROVE  Line(sweep.pc) \in Lines
<1>1. sweep.pc \in Places /\ sweep.since \in Nat
  BY DEF ScriptShape, On
<1>2. AddrOf(sweep.pc) \in Addr
  BY <1>1, SweepAssumption DEF AddrOf, Addr, Slot, Places, CONSTANT_ADDR, ECHO_ADDR, LIVE_ADDR
<1>3. Captured(device) \in Words
  BY Capturing
<1>4. sweep.pc.do \in {"CONST", "ECHO", "SAMPLE", "POISON", "COUNT", "stop"}
  BY DEF Recorded, Standing, On, Reads
<1>5. sweep.pc.rep \in 1 .. Repeats
  BY <1>1 DEF Places
<1> QED BY <1>1, <1>2, <1>3, <1>4, <1>5 DEF Line, Lines

LEMMA ScanFacts ==
  ASSUME DiskShape, ScriptShape, Standing, Scan
  PROVE  ScanStep /\ DiskShape' /\ ScriptShape' /\ Standing'
<1> DEFINE p == sweep.pc
<1>1. /\ sweep.at = "scan" /\ p.do # "end"
      /\ bit' = bit /\ raw' = raw /\ found' = found
  BY DEF Scan
<1>1a. p.do = "stop" => sweep.since > 0
  BY DEF Scan
<1>2. /\ sweep.kind \in Designs /\ p \in Places /\ sweep.group \in Group /\ sweep.since \in Nat
      /\ sweep.lines \in Seq(Lines) /\ device \in Devices /\ p.again \in BOOLEAN
  BY <1>1 DEF ScriptShape, On, DiskShape, Places
<1>3. /\ device' = Committed(device, AddrOf(p), p.do \in {"go", "POISON"}, p.do = "clear", sweep.group)
      /\ sweep' = [sweep EXCEPT !.pc = Then(sweep.kind, p),
                                !.since = IF p.do = "go" THEN 0 ELSE sweep.since,
                                !.lines = IF p.again \/ p.do = "stop"
                                          THEN Append(sweep.lines, Line(p)) ELSE sweep.lines]
  BY DEF Scan
<1>4. /\ sweep.at' = "scan" /\ sweep.kind' = sweep.kind /\ sweep.group' = sweep.group
      /\ sweep.force' = sweep.force /\ sweep.programmed' = sweep.programmed
      /\ sweep.todo' = sweep.todo /\ sweep.logs' = sweep.logs
      /\ sweep.pc' = Then(sweep.kind, p)
      /\ sweep.since' = IF p.do = "go" THEN 0 ELSE sweep.since
      /\ sweep.lines' = IF Recorded THEN Append(sweep.lines, Line(p)) ELSE sweep.lines
      /\ sweep' = [at |-> sweep.at', kind |-> sweep.kind', force |-> sweep.force',
                   programmed |-> sweep.programmed', todo |-> sweep.todo', group |-> sweep.group',
                   pc |-> sweep.pc', lines |-> sweep.lines', since |-> sweep.since', logs |-> sweep.logs']
  <2>1. sweep = [at |-> sweep.at, kind |-> sweep.kind, force |-> sweep.force,
                 programmed |-> sweep.programmed, todo |-> sweep.todo, group |-> sweep.group,
                 pc |-> sweep.pc, lines |-> sweep.lines, since |-> sweep.since, logs |-> sweep.logs]
    BY <1>1 DEF ScriptShape, On
  <2> QED BY <1>1, <1>3, <2>1 DEF Recorded
<1>5. AddrOf(p) \in Addr
  BY <1>2, SweepAssumption DEF AddrOf, Addr, Slot, Places, CONSTANT_ADDR, ECHO_ADDR, LIVE_ADDR
<1>6. /\ device' \in Devices
      /\ device.build' = device.build /\ device.addr' = AddrOf(p)
      /\ device.run' = (p.do \in {"go", "POISON"}) /\ device.clear' = (p.do = "clear")
      /\ device.group' = sweep.group
      /\ \A b \in Slot : IF p.do = "clear" /\ b \in Turning(device)'
                          THEN device.count[b]' = Empty /\ ~device.over[b]'
                          ELSE device.count[b]' = device.count[b] /\ device.over[b]' = device.over[b]
  <2> DEFINE r == p.do \in {"go", "POISON"}
             c == p.do = "clear"
  <2>1. r \in BOOLEAN /\ c \in BOOLEAN /\ device' = Committed(device, AddrOf(p), r, c, sweep.group)
    BY <1>3
  <2> HIDE DEF r, c
  <2>2. /\ device' \in Devices
        /\ device.build' = device.build /\ device.addr' = AddrOf(p)
        /\ device.run' = r /\ device.clear' = c
        /\ device.group' = sweep.group
        /\ \A b \in Slot : IF c /\ b \in Turning(device')
                            THEN device.count[b]' = Empty /\ ~device.over[b]'
                            ELSE device.count[b]' = device.count[b] /\ device.over[b]' = device.over[b]
    BY <1>2, <1>5, <2>1, Committing
  <2> USE DEF r, c
  <2> QED BY <2>2
<1>7. Recorded => Line(p) \in Lines
  BY <1>1, Lined
<1>8. /\ sweep.lines' \in Seq(Lines)
      /\ \A i \in DOMAIN sweep.lines : i \in DOMAIN sweep.lines' /\ sweep.lines[i]' = sweep.lines[i]
      /\ \A i \in DOMAIN sweep.lines' :
           i \notin DOMAIN sweep.lines => Recorded /\ sweep.lines[i]' = Line(p)
      /\ Recorded => \E i \in DOMAIN sweep.lines' : sweep.lines[i]' = Line(p)
  <2>1. CASE Recorded
    <3>1. Line(p) \in Lines /\ sweep.lines' = Append(sweep.lines, Line(p))
      BY <1>4, <1>7, <2>1
    <3> QED BY <1>2, <2>1, <3>1, Adding
  <2>2. CASE ~Recorded
    BY <1>2, <1>4, <2>2
  <2> QED BY <2>1, <2>2
<1>9. Advances(sweep.kind, p, sweep.pc')
  <2>1. p.again => p.do \in Reads
    BY <1>1 DEF Standing, On
  <2>2. p.slot \in SlotsRead(sweep.kind)
    BY <1>1 DEF Standing, On
  <2> QED BY <1>1, <1>2, <1>4, <2>1, <2>2, Advancing
<1>10. ScanStep
  BY <1>1, <1>1a, <1>4, <1>6, <1>8, <1>9 DEF ScanStep
<1>11. DiskShape'
  BY <1>1, <1>6 DEF DiskShape
<1>12. ScriptShape'
  <2>1. sweep.pc' \in Places
    BY <1>9 DEF Advances
  <2>2. sweep.since' \in Nat
    BY <1>2, <1>4
  <2>3. /\ sweep.programmed \in BOOLEAN /\ sweep.todo \subseteq Group /\ DOMAIN sweep.logs = Group
        /\ \A g \in Group : IsLog(sweep.logs[g])
    BY <1>1 DEF ScriptShape, On
  <2>4. \A g \in Group : IsLog(sweep.logs[g])'
    BY <1>4, <2>3 DEF IsLog
  <2> QED BY <1>2, <1>4, <1>8, <2>1, <2>2, <2>3, <2>4 DEF ScriptShape
<1>13. Standing'
  <2>1. sweep.kind = "one" =>
          sweep.group = 0 /\ sweep.todo = {} /\ device.build.design = "one" /\ device.build.dead = {}
    BY <1>1 DEF Standing, On
  <2>1a. p.do \notin {"COUNT", "end"} => p.slot = 0
    BY <1>1 DEF Standing, On
  <2>2. sweep.pc.slot' \in SlotsRead(sweep.kind) /\ (sweep.pc.again' => sweep.pc.do' \in Reads)
    BY <1>9 DEF Advances
  <2>3. sweep.pc.do' \notin {"COUNT", "end"} => sweep.pc.slot' = 0
    BY <1>1, <1>2, <1>9, <2>1a DEF Advances, Places, Follow, Reads
  <2>4. ~(sweep.pc.do' = "CONST" /\ ~sweep.pc.again')
    BY <1>1, <1>2, <1>9 DEF Advances, Places, Follow, Reads
  <2> QED BY <1>4, <1>6, <2>1, <2>2, <2>3, <2>4 DEF Standing, SlotsRead
<1> QED BY <1>10, <1>11, <1>12, <1>13

LEMMA ScanAddressed ==
  ASSUME DiskShape, ScriptShape, Standing, sweep.at = "scan", Addressed, ScanStep
  PROVE  Addressed'
<1>1. device.group' = sweep.group' /\ device.addr' = AddrOf(sweep.pc)
  BY DEF ScanStep
<1>2. sweep.pc.again' => sweep.pc.do' = sweep.pc.do /\ sweep.pc.slot' = sweep.pc.slot
  BY DEF ScanStep, Advances, ScriptShape, On, Places
<1>3. sweep.pc.again' => AddrOf(sweep.pc)' = AddrOf(sweep.pc)
  BY <1>2 DEF AddrOf
<1> QED BY <1>1, <1>3 DEF Addressed

\* What is behind the first scans.
LEMMA Entered ==
  ASSUME ScriptShape, Standing, sweep.at = "scan", ScanStep
  PROVE  /\ sweep.pc.do' # "CONST" => sweep.pc.do # "CONST" \/ sweep.pc.again
         /\ sweep.pc.do' \notin {"CONST", "ECHO", "SAMPLE"} =>
              \/ sweep.pc.do \notin {"CONST", "ECHO", "SAMPLE"}
              \/ sweep.pc.do = "SAMPLE" /\ sweep.pc.again
<1>1. sweep.pc.again \in BOOLEAN /\ sweep.pc.do \in DOMAIN Follow \union {"COUNT", "end"}
  BY DEF ScriptShape, On, Places
<1>2. Advances(sweep.kind, sweep.pc, sweep.pc') /\ sweep.pc.do # "end"
  BY DEF ScanStep
<1> QED BY <1>1, <1>2 DEF Advances, Reads

LEMMA GroupHeld ==
  ASSUME Addressed, ScanStep, sweep.pc.do # "CONST" \/ sweep.pc.again
  PROVE  Turning(device)' = Turning(device) /\ (Right' <=> Right)
<1>1. device.group' = device.group /\ device.build' = device.build /\ sweep.kind' = sweep.kind
  BY DEF ScanStep, Addressed
<1>2. Turning(device)' = Turning(device)
  BY <1>1 DEF Turning, Selected
<1> QED BY <1>1, <1>2 DEF Right, SlotsRead

LEMMA ScanWitnessed ==
  ASSUME DiskShape, ScriptShape, Standing, sweep.at = "scan", Addressed, Witnessed, ScanStep
  PROVE  Witnessed'
<1>1. /\ device.build' = device.build
      /\ \A i \in DOMAIN sweep.lines : i \in DOMAIN sweep.lines' /\ sweep.lines[i]' = sweep.lines[i]
      /\ Recorded => \E i \in DOMAIN sweep.lines' : sweep.lines[i]' = Line(sweep.pc)
  BY DEF ScanStep
<1>2. ASSUME sweep.pc.do' # "CONST"
      PROVE  \E i \in DOMAIN sweep.lines' :
                /\ sweep.lines[i].what' = "CONST"
                /\ sweep.lines[i].word.tag' = (device.build.design' \in Designs)
  <2>1. CASE sweep.pc.do # "CONST"
    BY <1>1, <2>1 DEF Witnessed
  <2>2. CASE sweep.pc.do = "CONST" /\ sweep.pc.again
    <3>1. PICK i \in DOMAIN sweep.lines' : sweep.lines[i]' = Line(sweep.pc)
      BY <1>1, <2>2 DEF Recorded
    <3>2. Line(sweep.pc).what = "CONST" /\ Line(sweep.pc).word.tag = (device.build.design \in Designs)
      BY <2>2 DEF Line, Captured
    <3> QED BY <1>1, <3>1, <3>2
  <2> QED BY <1>2, <2>1, <2>2, Entered
<1>3. ASSUME sweep.pc.do' \notin {"CONST", "ECHO", "SAMPLE"}
      PROVE  \E i \in DOMAIN sweep.lines' :
                /\ sweep.lines[i].what' = "SAMPLE"
                /\ sweep.lines[i].word.live' = Turning(device)'
  <2>1. CASE sweep.pc.do \notin {"CONST", "ECHO", "SAMPLE"}
    BY <1>1, <2>1, GroupHeld DEF Witnessed
  <2>2. CASE sweep.pc.do = "SAMPLE" /\ sweep.pc.again
    <3>1. PICK i \in DOMAIN sweep.lines' : sweep.lines[i]' = Line(sweep.pc)
      BY <1>1, <2>2 DEF Recorded
    <3>2. device.addr = LIVE_ADDR
      BY <2>2 DEF Addressed, AddrOf
    <3>3. Line(sweep.pc).what = "SAMPLE" /\ Line(sweep.pc).word.live = Turning(device)
      BY <2>2, <3>2 DEF Line, Captured
    <3> QED BY <1>1, <2>2, <3>1, <3>3, GroupHeld
  <2> QED BY <1>3, <2>1, <2>2, Entered
<1> QED BY <1>2, <1>3 DEF Witnessed

LEMMA ScanCounting ==
  ASSUME DiskShape, ScriptShape, Standing, sweep.at = "scan", Addressed, Counting, Written, ScanStep
  PROVE  Counting'
<1> DEFINE p == sweep.pc
<1>1. /\ p.again \in BOOLEAN /\ p.do \in DOMAIN Follow \union {"COUNT", "end"}
      /\ sweep.pc' \in Places
      /\ p.again => p.do \in Reads
  BY DEF ScriptShape, Standing, On, Places, ScanStep, Advances
<1>2. /\ sweep.pc.do' \in {"POISON"} => p.do = "go" \/ (p.do = "POISON" /\ p.rep = sweep.pc.rep')
      /\ sweep.pc.do' = "stop" => p.do = "POISON"
      /\ sweep.pc.do' = "idle" => p.do = "clear"
      /\ sweep.pc.do' = "go" => p.do = "idle"
      /\ sweep.pc.do' = "COUNT" => p.do \in {"stop", "COUNT"} /\ p.rep = sweep.pc.rep'
  BY <1>1 DEF ScanStep, Advances, Reads, Follow
<1>3. /\ sweep.pc.do' \in {"POISON", "stop"} => device.run' /\ ~device.clear'
      /\ sweep.pc.do' = "POISON" => sweep.since' = 0
  BY <1>2 DEF ScanStep, Counting
<1>4. ASSUME Right', NEW b \in SlotsRead(sweep.kind)
      PROVE  /\ sweep.pc.do' \in {"idle", "go", "POISON"} => Shows(b, 0)'
             /\ sweep.pc.do' = "stop" => Shows(b, sweep.since)'
             /\ sweep.pc.do' = "COUNT" =>
                  \A i \in DOMAIN sweep.lines' :
                     sweep.lines[i].what' = "WINDOW" /\ sweep.lines[i].rep' = sweep.pc.rep'
                       => Shows(b, sweep.lines[i].lasted)'
  <2>1. b \in Slot /\ b \in Turning(device)'
    BY <1>4, SweepAssumption DEF Right, SlotsRead, Slot, ScanStep
  <2>2. p.do \notin {"CONST", "ECHO", "SAMPLE"} => Right
    BY <1>4, GroupHeld
  <2>3. /\ sweep.group' = sweep.group
        /\ p.do # "clear" => device.count[b]' = device.count[b] /\ device.over[b]' = device.over[b]
        /\ p.do = "clear" => device.count[b]' = Empty /\ ~device.over[b]'
    BY <2>1 DEF ScanStep
  <2>4. \A n : p.do # "clear" /\ Shows(b, n) => Shows(b, n)'
    BY <2>3 DEF Shows
  <2>5. CASE sweep.pc.do' = "idle"
    <3>1. Shows(b, 0)'
      BY <1>2, <2>3, <2>5 DEF Shows, Empty
    <3> QED BY <2>5, <3>1
  <2>6. CASE sweep.pc.do' = "go"
    BY <1>2, <2>2, <2>4, <2>6 DEF Counting
  <2>7. CASE sweep.pc.do' = "POISON"
    BY <1>2, <2>2, <2>4, <2>7 DEF Counting
  <2>8. CASE sweep.pc.do' = "stop"
    <3>1. Shows(b, 0) /\ sweep.since = 0 /\ sweep.since' = sweep.since
      BY <1>2, <2>2, <2>8 DEF Counting, ScanStep
    <3>2. Shows(b, 0)' /\ sweep.since' = 0
      BY <1>2, <2>4, <2>8, <3>1
    <3>3. Shows(b, sweep.since)'
      BY <3>2 DEF Shows
    <3> QED BY <2>8, <3>3
  <2>9. CASE sweep.pc.do' = "COUNT"
    <3> SUFFICES ASSUME NEW i \in DOMAIN sweep.lines',
                        sweep.lines[i].what' = "WINDOW", sweep.lines[i].rep' = sweep.pc.rep'
                 PROVE  Shows(b, sweep.lines[i].lasted)'
      BY <2>9
    <3>0. p.do \in {"stop", "COUNT"} /\ p.rep = sweep.pc.rep'
      BY <1>2, <2>9
    <3>1. CASE i \in DOMAIN sweep.lines
      <4>1. sweep.lines[i]' = sweep.lines[i]
        BY <3>1 DEF ScanStep
      <4>2. sweep.lines[i].what = "WINDOW" /\ sweep.lines[i].rep = p.rep
        BY <3>0, <4>1
      <4>3. p.do = "COUNT"
        BY <3>0, <3>1, <4>2 DEF Written
      <4>4. Shows(b, sweep.lines[i].lasted)
        BY <2>2, <3>1, <4>2, <4>3 DEF Counting
      <4>5. Shows(b, sweep.lines[i].lasted)' <=> Shows(b, sweep.lines[i].lasted)
        BY <2>3, <4>1, <4>3 DEF Shows
      <4> QED BY <4>4, <4>5
    <3>2. CASE i \notin DOMAIN sweep.lines
      <4>1. sweep.lines[i]' = Line(p)
        BY <3>2 DEF ScanStep
      <4>2. p.do = "stop" /\ sweep.lines[i].lasted' = sweep.since
        BY <3>0, <4>1 DEF Line
      <4>3. Shows(b, sweep.since)
        BY <2>2, <4>2 DEF Counting
      <4>4. Shows(b, sweep.lines[i].lasted)' <=> Shows(b, sweep.since)
        BY <2>3, <4>2 DEF Shows
      <4> QED BY <4>3, <4>4
    <3> QED BY <3>1, <3>2
  <2> QED BY <2>5, <2>6, <2>7, <2>8, <2>9
<1>5. sweep.kind' = sweep.kind
  BY DEF ScanStep
<1> QED BY <1>3, <1>4, <1>5 DEF Counting, SlotsRead

LEMMA ScanWritten ==
  ASSUME DiskShape, ScriptShape, Standing, sweep.at = "scan", Addressed, Counting, Written, ScanStep
  PROVE  Written'
<1> DEFINE p == sweep.pc
           Old(i) == i \in DOMAIN sweep.lines
<1>1. /\ p.again \in BOOLEAN /\ p.do \in DOMAIN Follow \union {"COUNT", "end"}
      /\ p.rep \in Nat
      /\ p.again => p.do \in Reads
  BY SweepAssumption DEF ScriptShape, Standing, On, Places
<1>2. /\ sweep.pc.rep' = p.rep \/ (sweep.pc.rep' = p.rep + 1 /\ sweep.pc.do' = "clear")
      /\ p.do \in {"stop", "COUNT"} /\ sweep.pc.rep' = p.rep => sweep.pc.do' \in {"COUNT", "end"}
  BY <1>1 DEF ScanStep, Advances, Reads, Follow
<1>3. ASSUME NEW i \in DOMAIN sweep.lines', Old(i)
      PROVE  sweep.lines[i]' = sweep.lines[i] /\ sweep.lines[i].rep \in Nat /\ sweep.lines[i].rep <= p.rep
  <2>1. sweep.lines[i] \in Lines
    BY <1>3 DEF ScriptShape, On
  <2>2. sweep.lines[i].rep \in Nat
    BY <2>1, SweepAssumption DEF Lines
  <2> QED BY <1>3, <2>2 DEF ScanStep, Written
<1>4. ASSUME NEW i \in DOMAIN sweep.lines', ~Old(i)
      PROVE  /\ Recorded /\ sweep.lines[i]' = Line(p)
             /\ sweep.lines[i].rep' = p.rep
             /\ sweep.lines[i].what' = "WINDOW" => p.do = "stop" /\ sweep.lines[i].lasted' = sweep.since
             /\ sweep.lines[i].what' = "COUNT" => p.do = "COUNT" /\ sweep.lines[i].word' = Captured(device)
             /\ p.do = "stop" => sweep.lines[i].what' = "WINDOW"
  <2>1. Recorded /\ sweep.lines[i]' = Line(p)
    BY <1>4 DEF ScanStep
  <2>2. p.do # "WINDOW"
    BY <1>1 DEF Follow
  <2> QED BY <2>1, <2>2 DEF Line
<1>5. ASSUME NEW i \in DOMAIN sweep.lines'
      PROVE  /\ sweep.lines[i].rep' <= sweep.pc.rep'
             /\ sweep.lines[i].what' \in {"WINDOW", "COUNT"} /\ sweep.lines[i].rep' = sweep.pc.rep'
                  => sweep.pc.do' \in {"COUNT", "end"}
             /\ sweep.lines[i].what' = "WINDOW" => sweep.lines[i].lasted' > 0
             /\ sweep.lines[i].what' = "COUNT" => sweep.lines[i].word.build' = device.build'
  <2>1. CASE Old(i)
    <3>1. sweep.lines[i].rep' = sweep.pc.rep' => sweep.lines[i].rep = p.rep /\ sweep.pc.rep' = p.rep
      BY <1>1, <1>2, <1>3, <2>1
    <3>2. sweep.lines[i].what \in {"WINDOW", "COUNT"} /\ sweep.lines[i].rep = p.rep => p.do = "COUNT"
      BY <2>1 DEF Written, ScanStep
    <3>3. device.build' = device.build
      BY DEF ScanStep
    <3>4. sweep.lines[i].rep' <= sweep.pc.rep'
      BY <1>1, <1>2, <1>3, <2>1
    <3> QED BY <1>2, <1>3, <2>1, <3>1, <3>2, <3>3, <3>4 DEF Written
  <2>2. CASE ~Old(i)
    <3>1. sweep.since > 0 \/ p.do # "stop"
      BY DEF ScanStep
    <3>2. Captured(device).build = device.build' /\ p.rep <= sweep.pc.rep'
      BY <1>1, <1>2 DEF ScanStep, Captured
    <3> QED BY <1>2, <1>4, <2>2, <3>1, <3>2
  <2> QED BY <2>1, <2>2
<1>6. ASSUME Right', NEW i \in DOMAIN sweep.lines', NEW j \in DOMAIN sweep.lines',
             sweep.lines[i].what' = "COUNT", sweep.lines[j].what' = "WINDOW",
             sweep.lines[i].rep' = sweep.lines[j].rep'
      PROVE  \/ sweep.lines[i].word.over'
             \/ sweep.lines[i].word.count' = [n |-> sweep.lines[j].lasted', of |-> {sweep.group'}]
  <2>0. sweep.group' = sweep.group
    BY DEF ScanStep
  <2>1. CASE Old(i) /\ Old(j)
    <3>1. sweep.lines # <<>>
      BY <2>1
    <3>2. p.do # "CONST" \/ p.again
      BY <3>1 DEF Standing, On
    <3> QED BY <1>3, <1>6, <2>0, <2>1, <3>2, GroupHeld DEF Written
  <2>2. CASE ~Old(i)
    <3>1. p.do = "COUNT" /\ sweep.lines[i].word' = Captured(device) /\ p.again
      BY <1>4, <1>6, <2>2 DEF Recorded
    <3>2. Old(j) /\ sweep.lines[j].what = "WINDOW" /\ sweep.lines[j].rep = p.rep
          /\ sweep.lines[j]' = sweep.lines[j] /\ sweep.lines[j].lasted \in Nat \ {0}
      <4>1. Old(j)
        BY <1>4, <1>6, <3>1
      <4>2. sweep.lines[j]' = sweep.lines[j] /\ sweep.lines[i].rep' = p.rep
        BY <1>3, <1>4, <2>2, <4>1
      <4>3. sweep.lines[j] \in Lines
        BY <4>1 DEF ScriptShape, On
      <4>4. sweep.lines[j].lasted \in Nat
        BY <4>3 DEF Lines
      <4> QED BY <1>6, <4>1, <4>2, <4>4 DEF Written
    <3>3. Right /\ p.slot \in SlotsRead(sweep.kind)
      BY <1>6, <3>1, GroupHeld DEF Standing, On
    <3>4. Shows(p.slot, sweep.lines[j].lasted)
      BY <3>1, <3>2, <3>3 DEF Counting
    <3>5. device.addr = p.slot /\ p.slot \in Slot
      <4>1. device.addr = p.slot
        BY <3>1 DEF Addressed, AddrOf
      <4>2. 0 \in Slot
        BY SweepAssumption DEF Slot
      <4> QED BY <3>3, <4>1, <4>2 DEF SlotsRead
    <3>6. Captured(device).over = device.over[p.slot] /\ Captured(device).count = device.count[p.slot]
      <4>1. device.over[p.slot] \in BOOLEAN
        BY <3>5 DEF DiskShape, Devices
      <4> QED BY <3>5, <4>1 DEF Captured
    <3>7. \/ device.over[p.slot]
          \/ device.count[p.slot] = [n |-> sweep.lines[j].lasted, of |-> {sweep.group}]
      BY <3>2, <3>4 DEF Shows
    <3> QED BY <2>0, <3>1, <3>2, <3>6, <3>7
  <2>3. CASE Old(i) /\ ~Old(j)
    <3>1. p.do = "stop" /\ sweep.lines[i].rep = p.rep /\ sweep.lines[i].what = "COUNT"
      BY <1>3, <1>4, <1>6, <2>3
    <3> QED BY <2>3, <3>1 DEF Written
  <2> QED BY <2>1, <2>2, <2>3
<1> QED BY <1>5, <1>6 DEF Written

LEMMA ScanAllRead ==
  ASSUME DiskShape, ScriptShape, Standing, sweep.at = "scan", Addressed, AllRead, ScanStep
  PROVE  AllRead'
<1> DEFINE p == sweep.pc
<1>1. /\ p.again \in BOOLEAN /\ p.do \in DOMAIN Follow \union {"COUNT", "end"}
      /\ p.rep \in Nat \ {0}
      /\ p.again => p.do \in Reads
  BY SweepAssumption DEF ScriptShape, Standing, On, Places
<1>1a. p.slot \in SlotsRead(sweep.kind) /\ SlotsRead(sweep.kind) \in {{0}, 0 .. Slots - 1} /\ Slots \in 2 .. 8
  BY SweepAssumption DEF Standing, On, SlotsRead, Slot
<1>2. /\ sweep.kind' = sweep.kind
      /\ \A i \in DOMAIN sweep.lines : i \in DOMAIN sweep.lines' /\ sweep.lines[i]' = sweep.lines[i]
  BY DEF ScanStep
<1>3. \A b, rep : Read(b, rep) => Read(b, rep)'
  BY <1>2 DEF Read
<1>4. ASSUME p.do = "COUNT", p.again, NEW b, NEW rep, b = p.slot, rep = p.rep
      PROVE  Read(b, rep)'
  <2>1. PICK i \in DOMAIN sweep.lines' : sweep.lines[i]' = Line(p)
    BY <1>4 DEF ScanStep, Recorded
  <2>2. device.addr = p.slot
    BY <1>4 DEF Addressed, AddrOf
  <2>3. Line(p).what = "COUNT" /\ Line(p).word.addr = p.slot /\ Line(p).rep = p.rep
    BY <1>4, <2>2 DEF Line, Captured
  <2> QED BY <1>4, <2>1, <2>3 DEF Read
<1>5. ASSUME NEW b \in SlotsRead(sweep.kind), NEW rep \in 1 .. sweep.pc.rep',
             \/ rep < sweep.pc.rep'
             \/ sweep.pc.do' = "end"
             \/ sweep.pc.do' = "COUNT" /\ b < sweep.pc.slot'
      PROVE  Read(b, rep)'
  <2>0. Advances(sweep.kind, p, sweep.pc') /\ p.do # "end" /\ (p.do = "stop" => p.slot = 0)
    BY DEF ScanStep, Standing, On
  <2>1. CASE rep < p.rep
    BY <1>1, <1>3, <1>5, <2>1 DEF AllRead
  <2>2. CASE ~(rep < p.rep)
    <3>1. \/ sweep.pc.rep' = p.rep
          \/ /\ sweep.pc.rep' = p.rep + 1 /\ sweep.pc.do' = "clear"
             /\ p.do = "COUNT" /\ p.again /\ p.slot + 1 \notin SlotsRead(sweep.kind)
      BY <1>1, <2>0 DEF Advances, Reads, Follow
    <3>2. rep = p.rep
      BY <1>1, <1>5, <2>2, <3>1
    <3>3. p.do = "COUNT" /\ (b < p.slot \/ (p.again /\ b = p.slot))
      <4>1. CASE p.do = "COUNT" /\ ~p.again
        BY <1>1, <1>5, <2>0, <3>1, <3>2, <4>1 DEF Advances, Reads
      <4>2. CASE p.do = "COUNT" /\ p.again
        BY <1>1, <1>1a, <1>5, <2>0, <3>2, <4>2 DEF Advances
      <4>3. CASE p.do # "COUNT"
        <5>1. sweep.pc.do' # "end" /\ (sweep.pc.do' = "COUNT" => sweep.pc.slot' = 0)
          BY <1>1, <2>0, <4>3 DEF Advances, Reads, Follow
        <5>2. b >= 0
          BY <1>1a, <1>5
        <5> QED BY <1>1, <1>1a, <1>5, <3>1, <3>2, <4>3, <5>1, <5>2
      <4> QED BY <1>1, <4>1, <4>2, <4>3
    <3>4. CASE b < p.slot
      BY <1>1, <1>3, <3>2, <3>3, <3>4, <1>5 DEF AllRead
    <3>5. CASE p.again /\ b = p.slot
      BY <1>4, <3>2, <3>3, <3>5
    <3> QED BY <3>3, <3>4, <3>5
  <2> QED BY <2>1, <2>2
<1> QED BY <1>2, <1>5 DEF AllRead

LEMMA ScanFinal ==
  ASSUME DiskShape, ScriptShape, Standing, sweep.at = "scan", Final, ScanStep
  PROVE  Final'
<1>1. /\ sweep.pc.again \in BOOLEAN /\ sweep.pc.do \in DOMAIN Follow \union {"COUNT", "end"}
  BY DEF ScriptShape, Standing, On, Places
<1> QED BY <1>1 DEF Final, ScanStep, Advances, Reads, Follow

LEMMA ScanInv ==
  ASSUME SweepInv, Scan
  PROVE  SweepInv'
<1>1. DiskShape /\ ScriptShape /\ Standing /\ sweep.at = "scan" /\ Scanning /\ Saved /\ Published
  BY DEF SweepInv, Scan
<1>2. ScanStep /\ DiskShape' /\ ScriptShape' /\ Standing'
  BY <1>1, ScanFacts
<1>3. Addressed /\ Witnessed /\ Counting /\ Written /\ AllRead /\ Final
  BY <1>1 DEF Scanning
<1>4. Addressed' /\ Witnessed' /\ Counting'
  BY <1>1, <1>2, <1>3, ScanAddressed, ScanWitnessed, ScanCounting
<1>5. Written' /\ AllRead' /\ Final'
  BY <1>1, <1>2, <1>3, ScanWritten, ScanAllRead, ScanFinal
<1>6. Saved'
  <2>1. raw' = raw /\ sweep.kind' = sweep.kind /\ sweep.logs' = sweep.logs /\ sweep.at' = "scan"
    <3>1. sweep = [at |-> sweep.at, kind |-> sweep.kind, force |-> sweep.force,
                   programmed |-> sweep.programmed, todo |-> sweep.todo, group |-> sweep.group,
                   pc |-> sweep.pc, lines |-> sweep.lines, since |-> sweep.since, logs |-> sweep.logs]
      BY <1>1 DEF ScriptShape, On
    <3> QED BY <1>1, <3>1 DEF SweepInv, Scan
  <2>2. /\ \A g \in Group : Trusted("many", g, raw[g])
        /\ \A g \in Group : Trusted(sweep.kind, g, sweep.logs[g])
    BY <1>1 DEF Saved, On
  <2>3. /\ \A g \in Group : Trusted("many", g, raw[g])'
        /\ \A g \in Group : Trusted(sweep.kind, g, sweep.logs[g])'
    BY <2>1, <2>2
  <2> QED BY <2>3 DEF Saved
<1>7. Published'
  BY <1>1 DEF Scan, Published
<1> QED BY <1>2, <1>4, <1>5, <1>6, <1>7 DEF SweepInv, Scanning

-----------------------------------------------------------------------------
(* The other steps.                                                        *)

\* A session that begins, or has not begun.
LEMMA Unbegun ==
  ASSUME sweep.pc' = TclStart, sweep.lines' = <<>>
  PROVE  (Addressed /\ Witnessed /\ Counting /\ Written /\ AllRead /\ Final)'
<1>1. DOMAIN <<>> = {}
  <2>1. Len(<<>>) = 0 /\ DOMAIN <<>> = 1 .. Len(<<>>)
    OBVIOUS
  <2> QED BY <2>1
<1>2. DOMAIN sweep.lines' = {}
  BY <1>1
<1>3. sweep.pc.do' = "CONST" /\ ~sweep.pc.again' /\ sweep.pc.rep' = 1
  BY DEF TclStart
<1>4. (Addressed /\ Witnessed /\ Counting /\ Final)'
  BY <1>2, <1>3 DEF Addressed, Witnessed, Counting, Final
<1>5. Written'
  BY <1>2, <1>3 DEF Written
<1>6. AllRead'
  BY <1>3 DEF AllRead
<1> QED BY <1>4, <1>5, <1>6

LEMMA Starting == /\ TclStart \in Places /\ NoLog.done = FALSE /\ IsLog(NoLog)
                  /\ 0 \in Group /\ <<>> \in Seq(Lines)
<1>1. 0 \in Slot /\ 1 \in 1 .. Repeats /\ "CONST" \in DOMAIN Follow
  BY SweepAssumption DEF Slot, Follow
<1>2. TclStart \in Places
  BY <1>1 DEF TclStart, Places
<1>3. IsLog(NoLog) /\ NoLog.done = FALSE
  BY DEF IsLog, NoLog
<1> QED BY <1>2, <1>3, SweepAssumption

LEMMA Unconfirmed == ASSUME NEW kind, NEW g, NEW log, ~log.done PROVE Trusted(kind, g, log)
BY DEF Trusted

LEMMA Loading == ASSUME NEW build \in Builds
                 PROVE  Unloaded(build) \in Devices /\ Unloaded(build).build = build
<1>1. 0 \in Group /\ 0 \in Addr /\ Empty \in Tally
  BY SweepAssumption DEF Addr, Slot, Empty, Tally
<1> QED BY <1>1 DEF Unloaded, Devices

LEMMA SweepInitial == SweepInit => SweepInv
<1> SUFFICES ASSUME SweepInit PROVE SweepInv
  OBVIOUS
<1>1. sweep = NoSweep /\ found = <<>> /\ raw = [g \in Group |-> NoLog] /\ device = Unloaded(Foreign)
  BY DEF SweepInit
<1>2. ~On
  BY <1>1 DEF On, NoSweep
<1>3. PICK D \in Deaths : bit = [d \in Designs |-> Build(d, 1, IF d = "many" THEN D ELSE {})]
  BY DEF SweepInit
<1>4. /\ bit \in [Designs -> Builds] /\ bit["one"].dead = {}
      /\ \A d \in Designs : bit[d].design = d
  <2>1. D \subseteq Group \X Slot
    BY SweepAssumption DEF Slot
  <2> QED BY <1>3, <2>1 DEF Designs, Build, Builds
<1>5. Foreign \in Builds
  BY DEF Foreign, Build, Builds
<1>6. DiskShape
  BY <1>1, <1>4, <1>5, Loading, Starting DEF DiskShape
<1>7. Saved /\ Published
  BY <1>1, <1>2, Starting, Unconfirmed DEF Saved, Published
<1>8. sweep.at # "scan"
  BY <1>1 DEF NoSweep
<1> QED BY <1>2, <1>6, <1>7, <1>8 DEF SweepInv, ScriptShape, Standing, Scanning

\* The script stops.
LEMMA Stopping ==
  ASSUME SweepInv, sweep' = NoSweep, raw' = raw, bit' = bit, device' = device, Published'
  PROVE  SweepInv'
<1>1. ~On' /\ sweep.at' # "scan"
  BY DEF On, NoSweep
<1>2. DiskShape'
  BY DEF SweepInv, DiskShape
<1>3. Saved'
  <2>1. \A g \in Group : Trusted("many", g, raw[g])
    BY DEF SweepInv, Saved
  <2>2. \A g \in Group : Trusted("many", g, raw[g])'
    BY <2>1
  <2> QED BY <1>1, <2>2 DEF Saved
<1> QED BY <1>1, <1>2, <1>3 DEF SweepInv, ScriptShape, Standing, Scanning

LEMMA SameFound == ASSUME Published, found' = found PROVE Published'
BY DEF Published

LEMMA InterruptInv == ASSUME SweepInv, Interrupt PROVE SweepInv'
<1>1. found' = found /\ Published
  BY DEF Interrupt, SweepInv
<1> QED BY <1>1, SameFound, Stopping DEF Interrupt

LEMMA BeginInv == ASSUME SweepInv, Begin PROVE SweepInv'
<1>1. PICK kind \in Designs, force \in BOOLEAN, todo \in SUBSET Group :
        /\ kind = "one" => todo = {0}
        /\ sweep' = [at |-> "next", kind |-> kind, force |-> force /\ kind = "many",
                     programmed |-> FALSE, todo |-> todo, group |-> 0,
                     pc |-> TclStart, lines |-> <<>>, since |-> 0,
                     logs |-> [g \in Group |-> NoLog]]
  BY DEF Begin
<1>2. bit' = bit /\ device' = device /\ raw' = raw /\ found' = <<>>
  BY DEF Begin
<1>3. DiskShape' /\ Published'
  BY <1>2 DEF SweepInv, DiskShape, Published
<1>4. ScriptShape'
  <2> HIDE DEF Lines, Places
  <2> QED BY <1>1, Starting DEF ScriptShape, IsLog
<1>5. Standing'
  <2>1. 0 \in Slot
    BY SweepAssumption DEF Slot
  <2> QED BY <1>1, <2>1 DEF Standing, SlotsRead, TclStart, Reads
<1>6. Saved'
  <2>1. \A g \in Group : Trusted("many", g, raw[g])
    BY DEF SweepInv, Saved
  <2>2. \A g \in Group : Trusted("many", g, raw[g])'
    BY <1>2, <2>1
  <2>3. \A g \in Group : ~sweep.logs[g].done'
    BY <1>1, Starting
  <2>4. \A g \in Group : Trusted(sweep.kind, g, sweep.logs[g])'
    BY <2>3 DEF Trusted
  <2> QED BY <2>2, <2>4 DEF Saved
<1>7. sweep.at' # "scan"
  BY <1>1
<1> QED BY <1>3, <1>4, <1>5, <1>6, <1>7 DEF SweepInv, Scanning

LEMMA Whole ==
  ASSUME ScriptShape, On
  PROVE  sweep = [at |-> sweep.at, kind |-> sweep.kind, force |-> sweep.force,
                  programmed |-> sweep.programmed, todo |-> sweep.todo, group |-> sweep.group,
                  pc |-> sweep.pc, lines |-> sweep.lines, since |-> sweep.since, logs |-> sweep.logs]
BY DEF ScriptShape

\* Between sessions, and on the way into one, the logs and the disk are kept.
LEMMA FromDiskInv == ASSUME SweepInv, FromDisk PROVE SweepInv'
<1>1. PICK g \in sweep.todo :
        /\ Cached(g)
        /\ sweep' = [sweep EXCEPT !.logs[g] = raw[g], !.todo = sweep.todo \ {g}]
  BY DEF FromDisk
<1>2. /\ bit' = bit /\ device' = device /\ raw' = raw /\ found' = found /\ sweep.at = "next"
      /\ DiskShape /\ ScriptShape /\ Standing /\ Saved /\ Published
  BY DEF FromDisk, SweepInv
<1>3. g \in Group /\ sweep.kind = "many" /\ On
  BY <1>1, <1>2 DEF ScriptShape, On, Cached
<1>4. /\ sweep.at' = "next" /\ sweep.kind' = sweep.kind /\ sweep.force' = sweep.force
      /\ sweep.programmed' = sweep.programmed /\ sweep.todo' = sweep.todo \ {g}
      /\ sweep.group' = sweep.group /\ sweep.pc' = sweep.pc /\ sweep.lines' = sweep.lines
      /\ sweep.since' = sweep.since /\ sweep.logs' = [sweep.logs EXCEPT ![g] = raw[g]]
      /\ sweep' = [at |-> sweep.at', kind |-> sweep.kind', force |-> sweep.force',
                   programmed |-> sweep.programmed', todo |-> sweep.todo', group |-> sweep.group',
                   pc |-> sweep.pc', lines |-> sweep.lines', since |-> sweep.since', logs |-> sweep.logs']
  BY <1>1, <1>2, <1>3, Whole
<1>5. DiskShape' /\ Published'
  BY <1>2 DEF DiskShape, Published
<1>6. /\ DOMAIN sweep.logs = Group
      /\ \A h \in Group : sweep.logs[h]' = IF h = g THEN raw[g] ELSE sweep.logs[h]
  BY <1>2, <1>3, <1>4 DEF ScriptShape
<1>7. ScriptShape'
  <2>1. \A h \in Group : IsLog(sweep.logs[h])'
    BY <1>2, <1>3, <1>6 DEF ScriptShape, DiskShape, IsLog
  <2>2. DOMAIN sweep.logs' = Group
    BY <1>4, <1>6
  <2> QED BY <1>2, <1>3, <1>4, <2>1, <2>2 DEF ScriptShape
<1>8. Standing'
  BY <1>2, <1>3, <1>4 DEF Standing, On, SlotsRead
<1>9. Saved'
  <2>1. \A h \in Group : Trusted("many", h, raw[h]) /\ Trusted("many", h, sweep.logs[h])
    BY <1>2, <1>3 DEF Saved
  <2>2. \A h \in Group : Trusted("many", h, raw[h])' /\ Trusted("many", h, sweep.logs[h]')
    BY <1>2, <1>6, <2>1
  <2> QED BY <1>3, <1>4, <2>2 DEF Saved
<1> QED BY <1>4, <1>5, <1>7, <1>8, <1>9 DEF SweepInv, Scanning

\* What a step that publishes nothing, writes no log and is not in a session needs.
LEMMA Moving ==
  ASSUME SweepInv, DiskShape', ScriptShape', Standing', sweep.kind' = sweep.kind, On,
         sweep.logs' = sweep.logs, raw' = raw, found' = found, Scanning'
  PROVE  SweepInv'
<1>1. Saved /\ Published
  BY DEF SweepInv
<1>2. Published'
  BY <1>1 DEF Published
<1>3. \A h \in Group : Trusted("many", h, raw[h]) /\ Trusted(sweep.kind, h, sweep.logs[h])
  BY <1>1 DEF Saved
<1>4. \A h \in Group : Trusted("many", h, raw[h])' /\ Trusted(sweep.kind, h, sweep.logs[h])'
  BY <1>3
<1> QED BY <1>2, <1>4 DEF SweepInv, Saved

LEMMA OpenInv == ASSUME SweepInv, Open PROVE SweepInv'
<1>1. PICK g \in sweep.todo :
        sweep' = [sweep EXCEPT !.at = IF sweep.programmed THEN "lock" ELSE "fpga",
                               !.programmed = TRUE, !.group = g, !.todo = sweep.todo \ {g}]
  BY DEF Open
<1>2. /\ bit' = bit /\ device' = device /\ raw' = raw /\ found' = found /\ sweep.at = "next"
      /\ DiskShape /\ ScriptShape /\ Standing
  BY DEF Open, SweepInv
<1>3. g \in Group /\ On
  BY <1>1, <1>2 DEF ScriptShape, On
<1>4. /\ sweep.at' = (IF sweep.programmed THEN "lock" ELSE "fpga")
      /\ sweep.kind' = sweep.kind /\ sweep.force' = sweep.force
      /\ sweep.programmed' = TRUE /\ sweep.todo' = sweep.todo \ {g}
      /\ sweep.group' = g /\ sweep.pc' = sweep.pc /\ sweep.lines' = sweep.lines
      /\ sweep.since' = sweep.since /\ sweep.logs' = sweep.logs
      /\ sweep' = [at |-> sweep.at', kind |-> sweep.kind', force |-> sweep.force',
                   programmed |-> sweep.programmed', todo |-> sweep.todo', group |-> sweep.group',
                   pc |-> sweep.pc', lines |-> sweep.lines', since |-> sweep.since', logs |-> sweep.logs']
  BY <1>1, <1>2, <1>3, Whole
<1>5. DiskShape'
  BY <1>2 DEF DiskShape
<1>6. ScriptShape'
  <2>1. \A h \in Group : IsLog(sweep.logs[h])'
    BY <1>2, <1>3, <1>4 DEF ScriptShape, IsLog
  <2> QED BY <1>2, <1>3, <1>4, <2>1 DEF ScriptShape
<1>7. Standing'
  BY <1>1, <1>2, <1>3, <1>4 DEF Standing, On, SlotsRead
<1> QED BY <1>2, <1>3, <1>4, <1>5, <1>6, <1>7, Moving DEF Scanning

\* fpga, jtag lock: the script goes on to the next command.
LEMMA Proceeding ==
  ASSUME ScriptShape, On, NEW at \in {"lock", "scan"}, sweep' = [sweep EXCEPT !.at = at]
  PROVE  /\ ScriptShape' /\ sweep.at' = at /\ sweep.kind' = sweep.kind
         /\ sweep.programmed' = sweep.programmed /\ sweep.todo' = sweep.todo
         /\ sweep.group' = sweep.group /\ sweep.pc' = sweep.pc /\ sweep.lines' = sweep.lines
         /\ sweep.since' = sweep.since /\ sweep.logs' = sweep.logs
<1>1. /\ sweep.at' = at /\ sweep.kind' = sweep.kind /\ sweep.force' = sweep.force
      /\ sweep.programmed' = sweep.programmed /\ sweep.todo' = sweep.todo
      /\ sweep.group' = sweep.group /\ sweep.pc' = sweep.pc /\ sweep.lines' = sweep.lines
      /\ sweep.since' = sweep.since /\ sweep.logs' = sweep.logs
      /\ sweep' = [at |-> sweep.at', kind |-> sweep.kind', force |-> sweep.force',
                   programmed |-> sweep.programmed', todo |-> sweep.todo', group |-> sweep.group',
                   pc |-> sweep.pc', lines |-> sweep.lines', since |-> sweep.since', logs |-> sweep.logs']
  BY Whole
<1>2. \A h \in Group : IsLog(sweep.logs[h])'
  BY <1>1 DEF ScriptShape, IsLog
<1> QED BY <1>1, <1>2 DEF ScriptShape

LEMMA FpgaInv == ASSUME SweepInv, Fpga PROVE SweepInv'
<1>1. /\ DiskShape /\ ScriptShape /\ Standing /\ On /\ sweep.at = "fpga"
      /\ device' = Unloaded(bit[sweep.kind]) /\ sweep' = [sweep EXCEPT !.at = "lock"]
      /\ bit' = bit /\ raw' = raw /\ found' = found
  BY DEF Fpga, SweepInv, On
<1>2. ScriptShape' /\ sweep.at' = "lock" /\ sweep.kind' = sweep.kind /\ sweep.todo' = sweep.todo
      /\ sweep.programmed' = sweep.programmed
      /\ sweep.group' = sweep.group /\ sweep.pc' = sweep.pc /\ sweep.lines' = sweep.lines
      /\ sweep.logs' = sweep.logs
  BY <1>1, Proceeding
<1>3. sweep.kind \in Designs /\ bit[sweep.kind] \in Builds
  BY <1>1 DEF ScriptShape, DiskShape
<1>4. device' \in Devices /\ device.build' = bit[sweep.kind]
  BY <1>1, <1>3, Loading
<1>5. DiskShape'
  BY <1>1, <1>4 DEF DiskShape
<1>6. Standing'
  BY <1>1, <1>2, <1>3, <1>4 DEF Standing, On, SlotsRead, DiskShape
<1> QED BY <1>1, <1>2, <1>5, <1>6, Moving DEF Scanning

LEMMA LockInv == ASSUME SweepInv, Lock PROVE SweepInv'
<1>1. /\ DiskShape /\ ScriptShape /\ Standing /\ On /\ sweep.at = "lock"
      /\ sweep' = [sweep EXCEPT !.at = "scan"]
      /\ bit' = bit /\ device' = device /\ raw' = raw /\ found' = found
  BY DEF Lock, SweepInv, On
<1>2. ScriptShape' /\ sweep.at' = "scan" /\ sweep.kind' = sweep.kind /\ sweep.todo' = sweep.todo
      /\ sweep.programmed' = sweep.programmed
      /\ sweep.group' = sweep.group /\ sweep.pc' = sweep.pc /\ sweep.lines' = sweep.lines
      /\ sweep.logs' = sweep.logs
  BY <1>1, Proceeding
<1>3. sweep.pc' = TclStart /\ sweep.lines' = <<>>
  BY <1>1, <1>2 DEF Standing
<1>4. DiskShape'
  BY <1>1 DEF DiskShape
<1>5. Standing'
  BY <1>1, <1>2, <1>3 DEF Standing, On, SlotsRead
<1>6. (Addressed /\ Witnessed /\ Counting /\ Written /\ AllRead /\ Final)'
  BY <1>3, Unbegun
<1>7. Scanning'
  BY <1>6 DEF Scanning
<1> QED BY <1>1, <1>2, <1>4, <1>5, <1>7, Moving

LEMMA IntrudeInv == ASSUME SweepInv, Intrude PROVE SweepInv'
<1>1. /\ DiskShape /\ ScriptShape /\ Standing /\ sweep.at \in {"idle", "next"}
      /\ device' = Unloaded(Foreign) /\ sweep' = sweep
      /\ bit' = bit /\ raw' = raw /\ found' = found
  BY DEF Intrude, SweepInv
<1>2. Foreign \in Builds
  BY DEF Foreign, Build, Builds
<1>3. DiskShape'
  BY <1>1, <1>2, Loading DEF DiskShape
<1>4. ScriptShape'
  BY <1>1 DEF ScriptShape, On, IsLog
<1>5. Standing'
  BY <1>1 DEF Standing, On, SlotsRead
<1>6. Saved' /\ Published'
  <2>1. Saved /\ Published
    BY DEF SweepInv
  <2>2. Published'
    BY <1>1, <2>1 DEF Published
  <2>3. \A h \in Group : Trusted("many", h, raw[h])
    BY <2>1 DEF Saved
  <2>4. On => \A h \in Group : Trusted(sweep.kind, h, sweep.logs[h])
    BY <2>1 DEF Saved
  <2>5. \A h \in Group : Trusted("many", h, raw[h])'
    BY <1>1, <2>3
  <2>6. On' => \A h \in Group : Trusted(sweep.kind, h, sweep.logs[h])'
    BY <1>1, <2>4 DEF On
  <2> QED BY <2>2, <2>5, <2>6 DEF Saved
<1> QED BY <1>1, <1>3, <1>4, <1>5, <1>6 DEF SweepInv, Scanning

LEMMA RebuildInv == ASSUME SweepInv, Rebuild PROVE SweepInv'
<1>1. PICK D \in Deaths : bit' = [bit EXCEPT !["many"] = Build("many", bit["many"].id + 1, D)]
  BY DEF Rebuild
<1>2. /\ DiskShape /\ sweep.at = "idle" /\ Saved
      /\ device' = device /\ sweep' = sweep /\ raw' = raw /\ found' = <<>>
  BY DEF Rebuild, SweepInv
<1>3. Build("many", bit["many"].id + 1, D) \in Builds
  <2>1. bit["many"] \in Builds /\ D \subseteq Group \X Slot
    BY <1>2, SweepAssumption DEF DiskShape, Designs, Slot
  <2>2. bit["many"].id + 1 \in Nat
    BY <2>1 DEF Builds
  <2> QED BY <2>1, <2>2 DEF Build, Builds, Designs
<1>4. Build("many", bit["many"].id + 1, D).design = "many"
  BY DEF Build
<1>5. DiskShape'
  <2>1. bit' \in [Designs -> Builds]
    BY <1>1, <1>2, <1>3 DEF DiskShape
  <2>2. \A d \in Designs : bit[d].design' = d
    BY <1>1, <1>2, <1>4 DEF DiskShape
  <2>3. bit["one"].dead' = {}
    BY <1>1, <1>2 DEF DiskShape, Designs
  <2>4. \A g \in Group : IsLog(raw[g])'
    BY <1>2 DEF DiskShape, IsLog
  <2> QED BY <1>2, <2>1, <2>2, <2>3, <2>4 DEF DiskShape
<1>6. ~On' /\ sweep.at' # "scan"
  BY <1>2 DEF On
<1>7. Saved'
  <2>1. \A h \in Group : Trusted("many", h, raw[h])
    BY <1>2 DEF Saved
  <2>2. \A h \in Group : Trusted("many", h, raw[h])'
    BY <1>2, <2>1
  <2> QED BY <1>6, <2>2 DEF Saved
<1>8. Published'
  BY <1>2 DEF Published
<1> QED BY <1>5, <1>6, <1>7, <1>8 DEF SweepInv, ScriptShape, Standing, Scanning

\* What is published was judged, and what was judged and believed is honest.
LEMMA JudgeInv == ASSUME SweepInv, Judge PROVE SweepInv'
<1>1. /\ sweep' = NoSweep /\ bit' = bit /\ device' = device /\ raw' = raw
      /\ sweep.at = "next" /\ ScriptShape /\ Saved /\ On
  BY DEF Judge, SweepInv, On
<1>2. CASE found' = <<>>
  <2>1. Published'
    BY <1>2 DEF Published
  <2> QED BY <1>1, <2>1, Stopping
<1>3. CASE found' # <<>>
  <2>1. /\ \A g \in Complete : Believed(sweep.kind, sweep.logs[g], g)
        /\ found' = <<[kind |-> sweep.kind, build |-> bit[sweep.kind],
                       logs |-> [g \in Complete |-> sweep.logs[g].lines]]>>
    BY <1>3 DEF Judge
  <2>2. ASSUME NEW k \in DOMAIN found', NEW g \in DOMAIN found'[k].logs
        PROVE  Honest(found'[k].kind, g, [done |-> TRUE, lines |-> found'[k].logs[g]])
    <3>1. found'[k] = [kind |-> sweep.kind, build |-> bit[sweep.kind],
                       logs |-> [h \in Complete |-> sweep.logs[h].lines]]
      BY <2>1, <2>2
    <3>2. g \in Complete /\ found'[k].kind = sweep.kind /\ found'[k].logs[g] = sweep.logs[g].lines
      BY <2>2, <3>1
    <3>3. g \in Group /\ sweep.logs[g].done /\ IsLog(sweep.logs[g])
      BY <1>1, <3>2 DEF Complete, ScriptShape
    <3>4. sweep.logs[g] = [done |-> TRUE, lines |-> sweep.logs[g].lines]
      BY <3>3 DEF IsLog
    <3>5. Trusted(sweep.kind, g, sweep.logs[g])
      BY <1>1, <3>3 DEF Saved
    <3>6. Honest(sweep.kind, g, sweep.logs[g])
      BY <2>1, <3>2, <3>3, <3>5 DEF Trusted
    <3>7. [done |-> TRUE, lines |-> found'[k].logs[g]] = sweep.logs[g]
      BY <3>2, <3>4
    <3> QED BY <3>2, <3>6, <3>7
  <2>3. Published'
    BY <2>2 DEF Published
  <2> QED BY <1>1, <2>3, Stopping
<1> QED BY <1>2, <1>3

\* A session that scanned to its end: if its readback is believed, the design
\* was the right one and every ring turned, so its counts are what they seem.
LEMMA Concluding ==
  ASSUME SweepInv, sweep.at = "scan", sweep.pc.do = "end"
  PROVE  Trusted(sweep.kind, sweep.group, [done |-> TRUE, lines |-> sweep.lines])
<1> DEFINE log == [done |-> TRUE, lines |-> sweep.lines]
           kind == sweep.kind
           g == sweep.group
<1>1. /\ DiskShape /\ ScriptShape /\ Standing /\ On
      /\ Addressed /\ Witnessed /\ Counting /\ Written /\ AllRead /\ Final
  BY DEF SweepInv, Scanning, On
<1>2. SUFFICES ASSUME Believed(kind, log, g) PROVE Honest(kind, g, log)
  BY DEF Trusted
<1>3. kind \in Designs /\ log.lines = sweep.lines /\ device.build.dead \subseteq Group \X Slot
      /\ 0 \in Slot /\ 1 \in Slot
  <2>1. kind \in Designs
    BY <1>1 DEF ScriptShape
  <2>2. device.build \in Builds
    BY <1>1 DEF DiskShape, Devices
  <2> QED BY <2>1, <2>2, SweepAssumption DEF Builds, Slot
<1>4. \A i \in DOMAIN sweep.lines : sweep.lines[i] \in Of(log, sweep.lines[i].what)
  BY DEF Of
<1>5. Right
  <2>1. CASE kind = "one"
    <3>1. device.build.design = "one" /\ device.build.dead = {}
      BY <1>1, <2>1 DEF Standing
    <3> QED BY <2>1, <3>1 DEF Right, SlotsRead, Turning, SlotsOf
  <2>2. CASE kind = "many"
    <3>1. PICK i \in DOMAIN sweep.lines : sweep.lines[i].what = "CONST"
                     /\ sweep.lines[i].word.tag = (device.build.design \in Designs)
      BY <1>1 DEF Witnessed
    <3>2. PICK j \in DOMAIN sweep.lines : sweep.lines[j].what = "SAMPLE"
                     /\ sweep.lines[j].word.live = Turning(device)
      BY <1>1 DEF Witnessed
    <3>3. device.build.design \in Designs
      BY <1>2, <1>4, <3>1 DEF Believed, ConstantsRight
    <3>4. Turning(device) = Slot
      BY <1>2, <1>4, <2>2, <3>2 DEF Believed, Alive
    <3>5. device.build.design # "one"
      <4>1. 1 \in SlotsOf(device.build)
        BY <1>3, <3>4 DEF Turning
      <4> QED BY <4>1 DEF SlotsOf
    <3> QED BY <2>2, <3>3, <3>4, <3>5 DEF Right, SlotsRead, Designs
  <2> QED BY <1>3, <2>1, <2>2 DEF Designs
<1>6. ASSUME NEW b \in SlotsRead(kind), NEW rep \in 1 .. Repeats
      PROVE  \E c \in Of(log, "COUNT") : c.word.addr = b /\ c.rep = rep
  <2>1. sweep.pc.rep = Repeats
    BY <1>1 DEF Final
  <2>2. Read(b, rep)
    BY <1>1, <2>1 DEF AllRead
  <2> QED BY <1>4, <2>2 DEF Read
<1>7. ASSUME NEW c \in Of(log, "COUNT")
      PROVE  /\ c.word.build.design = kind
             /\ \A w \in Of(log, "WINDOW") : c.rep = w.rep => c.word.count = [n |-> w.lasted, of |-> {g}]
  <2>1. PICK i \in DOMAIN sweep.lines : c = sweep.lines[i] /\ sweep.lines[i].what = "COUNT"
    BY DEF Of
  <2>2. ~c.word.over
    BY <1>2 DEF Believed, CountsRight
  <2>3. c.word.build.design = kind
    BY <1>1, <1>5, <2>1 DEF Written, Right
  <2>4. ASSUME NEW w \in Of(log, "WINDOW"), c.rep = w.rep
        PROVE  c.word.count = [n |-> w.lasted, of |-> {g}]
    <3>1. PICK j \in DOMAIN sweep.lines : w = sweep.lines[j] /\ sweep.lines[j].what = "WINDOW"
      BY DEF Of
    <3> QED BY <1>1, <1>5, <2>1, <2>2, <2>4, <3>1 DEF Written
  <2> QED BY <2>3, <2>4
<1> QED BY <1>6, <1>7 DEF Honest

LEMMA Closing ==
  ASSUME SweepInv, On, sweep.at # "next", NEW done \in BOOLEAN, Close(done),
         Trusted(sweep.kind, sweep.group, [done |-> done, lines |-> IF done THEN sweep.lines ELSE <<>>])
  PROVE  SweepInv'
<1> DEFINE log == [done |-> done, lines |-> IF done THEN sweep.lines ELSE <<>>]
<1>1. /\ DiskShape /\ ScriptShape /\ Standing /\ Saved /\ Published
      /\ bit' = bit /\ device' = device /\ found' = found
      /\ raw' = IF sweep.kind = "many" THEN [raw EXCEPT ![sweep.group] = log] ELSE raw
      /\ sweep' = [sweep EXCEPT !.at = "next", !.logs[sweep.group] = log, !.group = 0,
                                !.pc = TclStart, !.lines = <<>>, !.since = 0]
  BY DEF SweepInv, Close
<1>2. IsLog(log)
  <2>1. sweep.lines \in Seq(Lines)
    BY <1>1 DEF ScriptShape
  <2> QED BY <2>1 DEF IsLog
<1>3. Trusted(sweep.kind, sweep.group, log)
  OBVIOUS
<1> HIDE DEF log
<1>4. /\ sweep.at' = "next" /\ sweep.kind' = sweep.kind /\ sweep.force' = sweep.force
      /\ sweep.programmed' = sweep.programmed /\ sweep.todo' = sweep.todo
      /\ sweep.group' = 0 /\ sweep.pc' = TclStart /\ sweep.lines' = <<>>
      /\ sweep.since' = 0 /\ sweep.logs' = [sweep.logs EXCEPT ![sweep.group] = log]
      /\ sweep' = [at |-> sweep.at', kind |-> sweep.kind', force |-> sweep.force',
                   programmed |-> sweep.programmed', todo |-> sweep.todo', group |-> sweep.group',
                   pc |-> sweep.pc', lines |-> sweep.lines', since |-> sweep.since', logs |-> sweep.logs']
  BY <1>1, Whole
<1>5. /\ DOMAIN sweep.logs = Group /\ DOMAIN raw = Group /\ sweep.group \in Group
      /\ \A h \in Group : sweep.logs[h]' = IF h = sweep.group THEN log ELSE sweep.logs[h]
      /\ \A h \in Group : raw[h]' = IF sweep.kind = "many" /\ h = sweep.group THEN log ELSE raw[h]
  BY <1>1, <1>4 DEF ScriptShape, DiskShape
<1>6. DiskShape'
  <2>1. \A h \in Group : IsLog(raw[h])'
    BY <1>1, <1>2, <1>5 DEF DiskShape, IsLog
  <2>2. DOMAIN raw' = Group
    BY <1>1, <1>5
  <2> QED BY <1>1, <2>1, <2>2 DEF DiskShape
<1>7. ScriptShape'
  <2>1. \A h \in Group : IsLog(sweep.logs[h])'
    BY <1>1, <1>2, <1>5 DEF ScriptShape, IsLog
  <2>2. DOMAIN sweep.logs' = Group
    BY <1>4, <1>5
  <2>3. sweep.lines' \in Seq(Lines) /\ sweep.since' \in Nat /\ sweep.group' \in Group /\ sweep.pc' \in Places
    BY <1>4, Starting
  <2> QED BY <1>1, <1>4, <2>1, <2>2, <2>3 DEF ScriptShape
<1>8. Standing'
  <2>1. sweep.kind = "one" => sweep.todo = {}
    BY <1>1 DEF Standing
  <2>2. 0 \in Slot
    BY SweepAssumption DEF Slot
  <2> QED BY <1>4, <2>1, <2>2 DEF Standing, TclStart, SlotsRead, Reads
<1>9. Published'
  BY <1>1 DEF Published
<1>10. Saved'
  <2>1. \A h \in Group : Trusted("many", h, raw[h]) /\ Trusted(sweep.kind, h, sweep.logs[h])
    BY <1>1 DEF Saved
  <2>2. \A h \in Group : Trusted("many", h, raw[h]') /\ Trusted(sweep.kind, h, sweep.logs[h]')
    BY <1>3, <1>5, <2>1
  <2>3. \A h \in Group : Trusted("many", h, raw[h])' /\ Trusted(sweep.kind, h, sweep.logs[h])'
    BY <1>4, <2>2
  <2> QED BY <2>3 DEF Saved
<1> QED BY <1>4, <1>6, <1>7, <1>8, <1>9, <1>10 DEF SweepInv, Scanning

LEMMA DoneInv == ASSUME SweepInv, Done PROVE SweepInv'
<1>1. On /\ sweep.at = "scan" /\ sweep.pc.do = "end" /\ Close(TRUE)
  BY DEF Done, On
<1>2. Trusted(sweep.kind, sweep.group, [done |-> TRUE, lines |-> sweep.lines])
  BY <1>1, Concluding
<1> QED BY <1>1, <1>2, Closing

LEMMA DieInv == ASSUME SweepInv, Die PROVE SweepInv'
<1>1. On /\ sweep.at # "next" /\ Close(FALSE)
  BY DEF Die, On
<1>2. Trusted(sweep.kind, sweep.group, [done |-> FALSE, lines |-> <<>>])
  BY DEF Trusted
<1> QED BY <1>1, <1>2, Closing

\* Before a session takes the lock, whatever happens to the device.
LEMMA Unlocked ==
  ASSUME SweepInv, sweep.at = "lock", sweep' = sweep, bit' = bit, raw' = raw, found' = found,
         device' \in Devices, device.build' = device.build
  PROVE  SweepInv'
<1>1. On /\ DiskShape /\ ScriptShape /\ Standing
  BY DEF SweepInv, On
<1>2. DiskShape'
  BY <1>1 DEF DiskShape
<1>3. ScriptShape'
  BY <1>1 DEF ScriptShape, On, IsLog
<1>4. Standing'
  BY <1>1 DEF Standing, On, SlotsRead
<1>5. Scanning'
  BY DEF Scanning
<1> QED BY <1>1, <1>2, <1>3, <1>4, <1>5, Moving

LEMMA RescanInv == ASSUME SweepInv, Rescan PROVE SweepInv'
<1>1. PICK run \in BOOLEAN, clear \in BOOLEAN, g \in Group :
        device' = Committed(device, 0, run, clear, g)
  BY DEF Rescan
<1>2. device \in Devices /\ 0 \in Addr
  BY SweepAssumption DEF SweepInv, DiskShape, Addr, Slot
<1>3. device' \in Devices /\ device.build' = device.build
  BY <1>1, <1>2, Committing
<1> QED BY <1>3, Unlocked DEF Rescan

\* A window: every counter that turns counts one more, or wraps.
LEMMA ElapseInv == ASSUME SweepInv, Elapse PROVE SweepInv'
<1>1. /\ DiskShape /\ ScriptShape /\ Standing /\ Scanning
      /\ device' = Elapsed(device) /\ device \in Devices
      /\ bit' = bit /\ raw' = raw /\ found' = found
  BY DEF SweepInv, Elapse, DiskShape
<1>2. /\ device' \in Devices
      /\ device.build' = device.build /\ device.addr' = device.addr
      /\ device.run' = device.run /\ device.clear' = device.clear /\ device.group' = device.group
      /\ device.run /\ ~device.clear => \A b \in Turning(device) \intersect Slot :
           device.over[b]' \/ (/\ device.over[b]' = device.over[b]
                               /\ device.count[b]' = Ticked(device.count[b], Selected(device)))
  BY <1>1, Ticking
<1>3. CASE sweep.at = "lock"
  BY <1>1, <1>2, <1>3, Unlocked DEF Elapse
<1>4. CASE sweep.at # "lock"
  <2>1. On /\ sweep.at = "scan" /\ sweep.pc.do = "stop" /\ sweep' = [sweep EXCEPT !.since = sweep.since + 1]
    BY <1>4 DEF Elapse, On
  <2>2. /\ sweep.at' = sweep.at /\ sweep.kind' = sweep.kind /\ sweep.force' = sweep.force
        /\ sweep.programmed' = sweep.programmed /\ sweep.todo' = sweep.todo
        /\ sweep.group' = sweep.group /\ sweep.pc' = sweep.pc /\ sweep.lines' = sweep.lines
        /\ sweep.since' = sweep.since + 1 /\ sweep.logs' = sweep.logs
        /\ sweep' = [at |-> sweep.at', kind |-> sweep.kind', force |-> sweep.force',
                     programmed |-> sweep.programmed', todo |-> sweep.todo', group |-> sweep.group',
                     pc |-> sweep.pc', lines |-> sweep.lines', since |-> sweep.since', logs |-> sweep.logs']
    BY <1>1, <2>1, Whole
  <2>3. DiskShape'
    BY <1>1, <1>2 DEF DiskShape
  <2>4. ScriptShape'
    <3>1. \A h \in Group : IsLog(sweep.logs[h])'
      BY <1>1, <2>1, <2>2 DEF ScriptShape, IsLog
    <3>2. sweep.since' \in Nat
      BY <1>1, <2>1, <2>2 DEF ScriptShape
    <3> QED BY <1>1, <2>1, <2>2, <3>1, <3>2 DEF ScriptShape
  <2>5. Standing'
    BY <1>1, <1>2, <2>1, <2>2 DEF Standing, On, SlotsRead
  <2>6. Addressed /\ Witnessed /\ Counting /\ Written /\ AllRead /\ Final
    BY <1>1, <2>1 DEF Scanning
  <2>7. Turning(device)' = Turning(device) /\ (Right' <=> Right)
    <3>1. Turning(device)' = Turning(device)
      BY <1>2 DEF Turning, Selected
    <3> QED BY <1>2, <2>2, <3>1 DEF Right, SlotsRead
  <2>8. Addressed' /\ Witnessed' /\ Final'
    BY <1>2, <2>2, <2>6, <2>7 DEF Addressed, Witnessed, Final, AddrOf
  <2>9. Written'
    BY <1>2, <2>2, <2>6, <2>7 DEF Written
  <2>10. AllRead'
    BY <2>2, <2>6 DEF AllRead, Read, SlotsRead
  <2>11. Counting'
    <3>1. device.run /\ ~device.clear
      BY <2>1, <2>6 DEF Counting
    <3>2. ASSUME Right, NEW b \in SlotsRead(sweep.kind)
          PROVE  Shows(b, sweep.since)'
      <4>1. Shows(b, sweep.since)
        BY <2>1, <2>6, <3>2 DEF Counting
      <4>2. b \in Turning(device) \intersect Slot
        BY <3>2, SweepAssumption DEF Right, SlotsRead, Slot
      <4>3. Selected(device) = sweep.group
        BY <1>1, <2>1, <2>6, <3>2 DEF Right, Selected, Addressed, Standing, On, ScriptShape, Designs
      <4>4. sweep.since \in Nat /\ sweep.since + 1 # 0
        BY <1>1, <2>1 DEF ScriptShape
      <4>5. CASE device.over[b]'
        BY <4>5 DEF Shows
      <4>6. CASE ~device.over[b]'
        <5>1. device.count[b] = [n |-> sweep.since, of |-> IF sweep.since = 0 THEN {} ELSE {sweep.group}]
          BY <1>2, <3>1, <4>1, <4>2, <4>6 DEF Shows
        <5>2. device.count[b]' = [n |-> sweep.since + 1, of |-> {sweep.group}]
          BY <1>2, <3>1, <4>2, <4>3, <4>4, <4>6, <5>1 DEF Ticked
        <5> QED BY <2>2, <4>4, <5>2 DEF Shows
      <4> QED BY <4>5, <4>6
    <3> QED BY <1>2, <2>1, <2>2, <2>7, <3>1, <3>2 DEF Counting
  <2> QED BY <1>1, <2>1, <2>2, <2>3, <2>4, <2>5, <2>8, <2>9, <2>10, <2>11, Moving DEF Scanning
<1> QED BY <1>3, <1>4

LEMMA SweepSame == ASSUME SweepInv, UNCHANGED sweepVars PROVE SweepInv'
<1>1. /\ bit' = bit /\ device' = device /\ sweep' = sweep /\ raw' = raw /\ found' = found
  BY DEF sweepVars
<1>2. DiskShape' /\ Published'
  BY <1>1 DEF SweepInv, DiskShape, Published, IsLog
<1>3. ScriptShape' /\ Standing'
  BY <1>1 DEF SweepInv, ScriptShape, Standing, On, SlotsRead, IsLog
<1>4. Scanning'
  <2>1. sweep.at' = sweep.at /\ (Right' <=> Right)
    BY <1>1 DEF Right, SlotsRead, Turning, Selected
  <2>2. (Addressed' <=> Addressed) /\ (Witnessed' <=> Witnessed) /\ (Final' <=> Final)
    BY <1>1 DEF Addressed, Witnessed, Final, AddrOf, Turning, Selected
  <2>3. Counting => Counting'
    <3> SUFFICES ASSUME Counting PROVE Counting'
      OBVIOUS
    <3>1. \A b : Shows(b, 0)' <=> Shows(b, 0)
      BY <1>1 DEF Shows
    <3>2. \A b : Shows(b, sweep.since)' <=> Shows(b, sweep.since)
      BY <1>1 DEF Shows
    <3>3. \A b, i : Shows(b, sweep.lines[i].lasted)' <=> Shows(b, sweep.lines[i].lasted)
      BY <1>1 DEF Shows
    <3> QED BY <1>1, <2>1, <3>1, <3>2, <3>3 DEF Counting, SlotsRead
  <2>4. (Written' <=> Written) /\ (AllRead' <=> AllRead)
    BY <1>1, <2>1 DEF Written, AllRead, Read, SlotsRead
  <2> QED BY <2>1, <2>2, <2>3, <2>4 DEF SweepInv, Scanning
<1>5. Saved'
  <2>1. \A h \in Group : Trusted("many", h, raw[h])
    BY DEF SweepInv, Saved
  <2>2. On => \A h \in Group : Trusted(sweep.kind, h, sweep.logs[h])
    BY DEF SweepInv, Saved
  <2>3. \A h \in Group : Trusted("many", h, raw[h])'
    BY <1>1, <2>1
  <2>4. On' => \A h \in Group : Trusted(sweep.kind, h, sweep.logs[h])'
    BY <1>1, <2>2 DEF On
  <2> QED BY <2>3, <2>4 DEF Saved
<1> QED BY <1>2, <1>3, <1>4, <1>5 DEF SweepInv

\* What is published is every count of its session, each of its own ring over
\* exactly its window (ro_measure.py, ro_many_measure.py), whatever hw_server scans
\* in between, whatever died and whatever is taken from disk.
THEOREM CountsCorrect == MCSpec => []CountsTrue
<1>1. MCInit => SweepInv
  BY SweepInitial DEF MCInit
<1>2. ASSUME SweepInv, [MCNext]_<<holds, vars, sweepVars>>
      PROVE  SweepInv'
  <2>1. CASE SweepNext
    BY <1>2, <2>1, BeginInv, FromDiskInv, OpenInv, FpgaInv, LockInv, ScanInv, DoneInv, DieInv,
       InterruptInv, JudgeInv, RescanInv, ElapseInv, IntrudeInv, RebuildInv DEF SweepNext
  <2>2. CASE UNCHANGED sweepVars
    BY <1>2, <2>2, SweepSame
  <2> QED BY <1>2, <2>1, <2>2 DEF MCNext
<1>3. SweepInv => CountsTrue
  BY DEF SweepInv, Published, Honest, CountsTrue
<1> QED BY <1>1, <1>2, <1>3, PTL DEF MCSpec

=============================================================================
