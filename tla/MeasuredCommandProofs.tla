------------------------ MODULE MeasuredCommandProofs ------------------------
(***************************************************************************)
(* Proofs about MeasuredCommand for any amount of output and any limit:    *)
(* type correctness, and that the result of a command is truthful.         *)
(*                                                                         *)
(* A command is settled once, and only when a termination it awaited is    *)
(* known (SettledInv); from then on nothing that the result is made of     *)
(* changes (AnswerInv).  A code of 0 can only come from a close, and       *)
(* freezes the processes and the pipe (CodeInv); the chunks that were      *)
(* written are accounted for until then (OutputInv).                       *)
(***************************************************************************)
EXTENDS MeasuredCommand, TLAPS

\* Nothing runs before the spawn, and nothing was written by what did not start.
SpawnInv ==
  /\ child = "unspawned" =>
       timer = "off" /\ grace = "off" /\ termination = "none" /\ waiting = <<>> /\ ~settled /\ helper = "off"
  /\ child \in {"unspawned", "unborn"} => kin = "none" /\ wrote = 0
  /\ code = "ok" => child \in {"dead", "gone"}

\* What was written is kept or on its way, unless the limit was exceeded.
OutputInv ==
  /\ kept + pipe <= wrote
  /\ ~settled /\ ~outputLimit => kept + pipe = wrote
  /\ outputLimit \/ timedOut => error # {}

\* A tree is terminated once: by a helper that is awaited, or at once.
TreeInv ==
  /\ ~opts.tree => termination = "none"
  /\ opts.tree => ((helper = "running") <=> (termination = "pending"))
  /\ termination = "confirmed" => \A p \in Running : signal[p] = "kill"

\* The command is settled once, when what it awaited is known.
SettledInv ==
  /\ settled <=> Len(flows) = 1
  /\ ~settled => flows = <<>>
  /\ settled => termination # "pending"
  /\ settled /\ termination = "unconfirmed" => "cleanup" \in error
  /\ waiting # <<>> => termination # "none"

\* A code of 0 comes from a close, after which nothing runs that could write.
Complete == child = "gone" /\ code = "ok" /\ kin # "running" /\ pipe = 0 /\ (outputLimit \/ kept = wrote)
CodeInv ==
  /\ \A i \in DOMAIN waiting : waiting[i] = "ok" => Complete
  /\ \A i \in DOMAIN flows : flows[i].code = "ok" => Complete

\* The answer is what was measured at the end, and nothing is pending any more.
AnswerInv ==
  answer \in Results =>
    /\ settled /\ waiting = <<>> /\ flows[1].done = 3
    /\ telemetry = answer /\ answer = Measured(flows[1].code)

IInv == TypeOK /\ SpawnInv /\ OutputInv /\ TreeInv /\ SettledInv /\ CodeInv /\ AnswerInv

\* What the call resolves to, what it has not resolved to, and its failure differ.
LEMMA AnswersDiffer == None \notin Results /\ Failure \notin Results /\ None # Failure
<1>1. DOMAIN None = {"none"} /\ DOMAIN Failure = {"unhandled"}
  BY DEF None, Failure
<1>2. \A r \in Results : DOMAIN r = {"code", "ok", "timedOut", "outputLimit", "error", "kept"}
  BY DEF Results
<1>3. "none" # "unhandled" /\ "code" # "none" /\ "code" # "unhandled"
  OBVIOUS
<1> QED
  BY <1>1, <1>2, <1>3

\* Sequences of one element.
LEMMA OneElement ==
  ASSUME NEW S
  PROVE  /\ \A r \in S : <<r>> \in Seq(S)
         /\ \A q \in Seq(S) : Len(q) = 1 => DOMAIN q = {1} /\ q[1] \in S
OBVIOUS

\* What Finish makes of a command that was not settled.
LEMMA FinishEffect ==
  ASSUME NEW exit \in Codes, Finish(exit), flows = <<>>
  PROVE  /\ settled' = TRUE
         /\ flows' = <<[code |-> exit, done |-> 0]>>
         /\ flows' \in Seq([code : Codes, done : 0..3])
         /\ Len(flows') = 1 /\ DOMAIN flows' = {1} /\ flows'[1].code = exit /\ flows'[1].done = 0
BY DEF Finish

\* What settle does before its first await.
LEMMA SettleEffect ==
  ASSUME TypeOK, SettledInv, ~settled, NEW exit \in Codes, Settle(exit)
  PROVE  /\ waiting' \in Seq(Codes)
         /\ flows' \in Seq([code : Codes, done : 0..3])
         /\ settled' \in BOOLEAN
         /\ \/ /\ termination = "none" /\ settled' = TRUE /\ waiting' = waiting
               /\ Len(flows') = 1 /\ DOMAIN flows' = {1} /\ flows'[1].code = exit /\ flows'[1].done = 0
            \/ /\ termination # "none" /\ settled' = FALSE /\ flows' = <<>> /\ waiting' # <<>>
               /\ \A i \in DOMAIN waiting' : waiting'[i] = exit \/ (i \in DOMAIN waiting /\ waiting'[i] = waiting[i])
<1>1. CASE termination = "none"
  BY <1>1, FinishEffect DEF Settle, SettledInv, TypeOK
<1>2. CASE termination # "none"
  BY <1>2 DEF Settle, SettledInv, TypeOK
<1> QED
  BY <1>1, <1>2

\* A termination is begun once, and what it confirms it killed.
LEMMA TerminateEffect ==
  ASSUME TypeOK, SpawnInv, TreeInv, SettledInv, child # "unspawned", ~settled, Terminate,
         UNCHANGED <<opts, child, kin>>
  PROVE  /\ grace' \in {"off", "armed", "fired"}
         /\ signal' \in [{"child", "kin"} -> {"none", "term", "kill"}]
         /\ termination' \in {"none", "pending", "confirmed", "unconfirmed"}
         /\ helper' \in {"off", "running"}
         /\ termination' = "none" => termination = "none"
         /\ TreeInv'
<1>1. CASE ~opts.tree
  BY <1>1 DEF Terminate, ForceTerminate, TypeOK, TreeInv
<1>2. CASE opts.tree /\ termination # "none"
  BY <1>2 DEF Terminate, TypeOK, TreeInv, killing, Running
<1>3. CASE opts.tree /\ termination = "none"
  <2>1. TerminateTree /\ grace' \in {"off", "armed", "fired"}
    BY <1>3 DEF Terminate, TypeOK
  <2>2. helper = "off"
    BY <1>3 DEF TreeInv, TypeOK
  <2>3. Running' = Running
    BY DEF Running
  <2>4. CASE child = "unborn" /\ termination' = "confirmed" /\ UNCHANGED <<signal, helper>>
    <3>1. Running = {}
      BY <2>4 DEF SpawnInv, Running
    <3> QED
      BY <1>3, <2>1, <2>2, <2>3, <2>4, <3>1 DEF TypeOK, TreeInv
  <2>5. CASE termination' = "pending" /\ helper' = "running" /\ UNCHANGED signal
    BY <1>3, <2>1, <2>5 DEF TypeOK, TreeInv
  <2>6. CASE /\ termination' = IF child = "dead" \/ Running # {} THEN "confirmed" ELSE "unconfirmed"
             /\ signal' = [p \in DOMAIN signal |-> IF p \in Running THEN "kill" ELSE signal[p]]
             /\ UNCHANGED helper
    <3>1. DOMAIN signal = {"child", "kin"} /\ Running \subseteq {"child", "kin"}
      BY DEF TypeOK, Running
    <3>2. \A p \in Running : signal'[p] = "kill"
      BY <2>6, <3>1
    <3>3. signal' \in [{"child", "kin"} -> {"none", "term", "kill"}]
      BY <2>6, <3>1 DEF TypeOK
    <3> QED
      BY <1>3, <2>1, <2>2, <2>3, <2>6, <3>2, <3>3 DEF TreeInv
  <2> QED
    BY <2>1, <2>4, <2>5, <2>6 DEF TerminateTree
<1> QED
  BY <1>1, <1>2, <1>3

\* Every behaviour starts in the invariant.
LEMMA InitInv == Init => IInv
<1> SUFFICES ASSUME Init PROVE IInv
  OBVIOUS
<1>1. Running = {}
  BY DEF Init, Running
<1> QED
  <2>1. TypeOK
    <3>1. 0 \in 0..MaxOutput /\ 0 \in 0..0 /\ 0 \in 0..Limit
      BY BoundsAssumption
    <3>2. signal \in [{"child", "kin"} -> {"none", "term", "kill"}]
      BY DEF Init
    <3>3. waiting \in Seq(Codes) /\ flows \in Seq([code : Codes, done : 0..3])
      BY DEF Init
    <3>4. wrote \in 0..MaxOutput /\ pipe \in 0..wrote /\ kept \in 0..(IF opts.limit THEN Limit ELSE wrote)
      BY <3>1 DEF Init
    <3> QED
      BY <3>2, <3>3, <3>4 DEF Init, TypeOK, Codes
  <2> QED
    BY <1>1, <2>1, AnswersDiffer DEF Init, IInv, SpawnInv, OutputInv, TreeInv, SettledInv, CodeInv, AnswerInv

\* Spawn keeps the invariant.
LEMMA SpawnKeeps == ASSUME IInv, Spawn PROVE IInv'
<1> USE DEF Spawn, IInv, processes, output, verdict, timers, killing, settling, answers
<1>1. TypeOK'
  <2>1. flows' \in Seq([code : Codes, done : 0..3])
    <3>1. [code |-> "null", done |-> 0] \in [code : Codes, done : 0..3]
      BY DEF Codes
    <3>2. flows' = flows \/ flows' = <<[code |-> "null", done |-> 0]>>
      OBVIOUS
    <3>3. flows \in Seq([code : Codes, done : 0..3])
      BY DEF TypeOK
    <3>4. <<[code |-> "null", done |-> 0]>> \in Seq([code : Codes, done : 0..3])
      BY <3>1, OneElement, Zenon
    <3> HIDE DEF Spawn, IInv
    <3> QED
      BY <3>2, <3>3, <3>4
  <2>2. timer' \in {"off", "armed", "fired"} /\ code' \in Codes /\ error' \subseteq Reasons
    BY DEF TypeOK, Codes, Reasons
  <2>3. /\ child' \in {"unspawned", "unborn", "running", "dead", "gone"} /\ settled' \in BOOLEAN
        /\ UNCHANGED <<opts, kin, closed, wrote, pipe, kept, timedOut, outputLimit, grace, signal, termination, helper,
                       waiting, telemetry, answer>>
    BY DEF TypeOK
  <2> HIDE DEF Spawn
  <2> QED
    BY <2>1, <2>2, <2>3 DEF TypeOK
<1>2. SpawnInv'
  BY DEF TypeOK, SpawnInv
<1>3. OutputInv'
  BY DEF TypeOK, SpawnInv, OutputInv
<1>4. TreeInv'
  BY DEF TypeOK, SpawnInv, TreeInv, Running
<1>5. SettledInv'
  <2>1. flows' = flows \/ Len(flows') = 1
    OBVIOUS
  <2> QED
    BY <2>1 DEF TypeOK, SpawnInv, SettledInv
<1>6. CodeInv'
  BY DEF TypeOK, SpawnInv, OutputInv, SettledInv, CodeInv, Complete
<1>7. AnswerInv'
  BY DEF TypeOK, SpawnInv, SettledInv, AnswerInv, Measured
<1> QED
  BY <1>1, <1>2, <1>3, <1>4, <1>5, <1>6, <1>7

\* Fork keeps the invariant.
LEMMA ForkKeeps == ASSUME IInv, Fork PROVE IInv'
<1> USE DEF Fork, IInv, processes, output, verdict, timers, killing, settling, answers
<1>1. TypeOK'
  BY DEF TypeOK
<1>2. SpawnInv'
  BY DEF TypeOK, SpawnInv
<1>3. OutputInv'
  BY DEF TypeOK, SpawnInv, OutputInv
<1>4. TreeInv'
  BY DEF TypeOK, SpawnInv, TreeInv, Running
<1>5. SettledInv'
  BY DEF TypeOK, SpawnInv, SettledInv
<1>6. CodeInv'
  BY DEF TypeOK, SpawnInv, OutputInv, SettledInv, CodeInv, Complete
<1>7. AnswerInv'
  BY DEF TypeOK, SpawnInv, SettledInv, AnswerInv, Measured
<1> QED
  BY <1>1, <1>2, <1>3, <1>4, <1>5, <1>6, <1>7

\* Output keeps the invariant.
LEMMA OutputKeeps == ASSUME IInv, Output PROVE IInv'
<1> USE DEF Output, IInv, processes, output, verdict, timers, killing, settling, answers
<1>1. TypeOK'
  <2>1. wrote' \in 0..MaxOutput /\ pipe' \in 0..wrote'
    BY BoundsAssumption DEF TypeOK
  <2>2. kept' \in 0..(IF opts'.limit THEN Limit ELSE wrote')
    BY BoundsAssumption DEF TypeOK
  <2> QED
    BY <2>1, <2>2 DEF TypeOK
<1>2. SpawnInv'
  BY DEF TypeOK, SpawnInv, Running
<1>3. OutputInv'
  BY DEF TypeOK, SpawnInv, OutputInv
<1>4. TreeInv'
  BY DEF TypeOK, SpawnInv, TreeInv, Running
<1>5. SettledInv'
  BY DEF TypeOK, SpawnInv, SettledInv
<1>6. CodeInv'
  <2>1. ~Complete
    BY DEF Complete, Running
  <2> QED
    BY <2>1 DEF CodeInv
<1>7. AnswerInv'
  BY DEF TypeOK, SpawnInv, SettledInv, AnswerInv, Measured
<1> QED
  BY <1>1, <1>2, <1>3, <1>4, <1>5, <1>6, <1>7

\* ChildEnds keeps the invariant.
LEMMA ChildEndsKeeps == ASSUME IInv, ChildEnds PROVE IInv'
<1> USE DEF ChildEnds, IInv, processes, output, verdict, timers, killing, settling, answers
<1>1. TypeOK'
  BY DEF TypeOK, Codes
<1>2. SpawnInv'
  BY DEF TypeOK, SpawnInv
<1>3. OutputInv'
  BY DEF TypeOK, SpawnInv, OutputInv
<1>4. TreeInv'
  BY DEF TypeOK, SpawnInv, TreeInv, Running
<1>5. SettledInv'
  BY DEF TypeOK, SpawnInv, SettledInv
<1>6. CodeInv'
  BY DEF TypeOK, SpawnInv, OutputInv, SettledInv, CodeInv, Complete
<1>7. AnswerInv'
  BY DEF TypeOK, SpawnInv, SettledInv, AnswerInv, Measured
<1> QED
  BY <1>1, <1>2, <1>3, <1>4, <1>5, <1>6, <1>7

\* KinEnds keeps the invariant.
LEMMA KinEndsKeeps == ASSUME IInv, KinEnds PROVE IInv'
<1> USE DEF KinEnds, IInv, processes, output, verdict, timers, killing, settling, answers
<1>1. TypeOK'
  BY DEF TypeOK
<1>2. SpawnInv'
  BY DEF TypeOK, SpawnInv
<1>3. OutputInv'
  BY DEF TypeOK, SpawnInv, OutputInv
<1>4. TreeInv'
  BY DEF TypeOK, SpawnInv, TreeInv, Running
<1>5. SettledInv'
  BY DEF TypeOK, SpawnInv, SettledInv
<1>6. CodeInv'
  BY DEF TypeOK, SpawnInv, OutputInv, SettledInv, CodeInv, Complete
<1>7. AnswerInv'
  BY DEF TypeOK, SpawnInv, SettledInv, AnswerInv, Measured
<1> QED
  BY <1>1, <1>2, <1>3, <1>4, <1>5, <1>6, <1>7

\* Exit keeps the invariant.
LEMMA ExitKeeps == ASSUME IInv, Exit PROVE IInv'
<1> USE DEF Exit, IInv, processes, output, verdict, timers, killing, settling, answers
<1>1. TypeOK'
  BY DEF TypeOK
<1>2. SpawnInv'
  BY DEF TypeOK, SpawnInv
<1>3. OutputInv'
  BY DEF TypeOK, SpawnInv, OutputInv
<1>4. TreeInv'
  BY DEF TypeOK, SpawnInv, TreeInv, Running
<1>5. SettledInv'
  BY DEF TypeOK, SpawnInv, SettledInv
<1>6. CodeInv'
  BY DEF TypeOK, SpawnInv, OutputInv, SettledInv, CodeInv, Complete
<1>7. AnswerInv'
  BY DEF TypeOK, SpawnInv, SettledInv, AnswerInv, Measured
<1> QED
  BY <1>1, <1>2, <1>3, <1>4, <1>5, <1>6, <1>7

\* Collect keeps the invariant.
LEMMA CollectKeeps == ASSUME IInv, Collect PROVE IInv'
<1> USE DEF Collect, IInv, processes, output, verdict, timers, killing, settling, answers
<1>0. /\ grace' \in {"off", "armed", "fired"}
      /\ signal' \in [{"child", "kin"} -> {"none", "term", "kill"}]
      /\ termination' \in {"none", "pending", "confirmed", "unconfirmed"}
      /\ helper' \in {"off", "running"}
      /\ termination' = "none" => termination = "none"
      /\ TreeInv'
  <2>1. CASE Terminate
    <3>1. child # "unspawned"
      BY DEF TypeOK, SpawnInv
    <3> QED
      BY <2>1, <3>1, TerminateEffect
  <2>2. CASE UNCHANGED <<grace, killing>>
    BY <2>2 DEF TypeOK, TreeInv, Running
  <2> QED
    BY <2>1, <2>2
<1>1. TypeOK'
  <2>1. pipe' \in 0..wrote' /\ kept' \in 0..(IF opts'.limit THEN Limit ELSE wrote')
    BY BoundsAssumption DEF TypeOK, OutputInv
  <2>2. outputLimit' \in BOOLEAN /\ error' \subseteq Reasons
    BY DEF TypeOK, Reasons
  <2> QED
    BY <1>0, <2>1, <2>2 DEF TypeOK
<1>2. SpawnInv'
  BY DEF TypeOK, SpawnInv
<1>3. OutputInv'
  <2>1. kept \in Nat /\ pipe \in Nat \ {0} /\ wrote \in Nat
    BY BoundsAssumption DEF TypeOK
  <2> QED
    BY <2>1 DEF OutputInv
<1>4. TreeInv'
  BY <1>0
<1>5. SettledInv'
  BY <1>0 DEF TypeOK, SettledInv
<1>6. CodeInv'
  BY DEF TypeOK, SpawnInv, OutputInv, SettledInv, CodeInv, Complete
<1>7. AnswerInv'
  BY DEF TypeOK, SpawnInv, SettledInv, AnswerInv, Measured
<1> QED
  BY <1>1, <1>2, <1>3, <1>4, <1>5, <1>6, <1>7

\* Close keeps the invariant.
LEMMA CloseKeeps == ASSUME IInv, Close PROVE IInv'
<1> USE DEF Close, IInv, processes, output, verdict, timers, killing, settling, answers
<1>0. /\ waiting' \in Seq(Codes)
      /\ flows' \in Seq([code : Codes, done : 0..3])
      /\ settled' \in BOOLEAN
      /\ \/ /\ termination = "none" /\ settled' = TRUE /\ waiting' = waiting
            /\ Len(flows') = 1 /\ DOMAIN flows' = {1} /\ flows'[1].code = code /\ flows'[1].done = 0
         \/ /\ termination # "none" /\ settled' = FALSE /\ flows' = <<>> /\ waiting' # <<>>
            /\ \A i \in DOMAIN waiting' : waiting'[i] = code \/ (i \in DOMAIN waiting /\ waiting'[i] = waiting[i])
  BY SettleEffect DEF TypeOK, Codes
<1>1. TypeOK'
  BY <1>0 DEF TypeOK
<1>2. SpawnInv'
  BY DEF TypeOK, SpawnInv
<1>3. OutputInv'
  BY DEF TypeOK, SpawnInv, OutputInv
<1>4. TreeInv'
  BY DEF TypeOK, SpawnInv, TreeInv, Running
<1>5. SettledInv'
  BY <1>0 DEF TypeOK, SettledInv
<1>6. CodeInv'
  <2>1. code = "ok" => Complete'
    BY DEF TypeOK, SpawnInv, OutputInv, Complete
  <2>2. Complete => Complete'
    BY DEF Complete
  <2>3. flows' = <<>> \/ DOMAIN flows' = {1}
    BY <1>0
  <2> QED
    BY <1>0, <2>1, <2>2, <2>3 DEF CodeInv, SettledInv
<1>7. AnswerInv'
  BY DEF TypeOK, SpawnInv, SettledInv, AnswerInv, Measured
<1> QED
  BY <1>1, <1>2, <1>3, <1>4, <1>5, <1>6, <1>7

\* TimeoutFires keeps the invariant.
LEMMA TimeoutFiresKeeps == ASSUME IInv, TimeoutFires PROVE IInv'
<1> USE DEF TimeoutFires, IInv, processes, output, verdict, timers, killing, settling, answers
<1>0. /\ grace' \in {"off", "armed", "fired"}
      /\ signal' \in [{"child", "kin"} -> {"none", "term", "kill"}]
      /\ termination' \in {"none", "pending", "confirmed", "unconfirmed"}
      /\ helper' \in {"off", "running"}
      /\ termination' = "none" => termination = "none"
      /\ TreeInv'
  BY TerminateEffect DEF SpawnInv
<1>1. TypeOK'
  BY <1>0 DEF TypeOK, Reasons
<1>2. SpawnInv'
  BY DEF TypeOK, SpawnInv
<1>3. OutputInv'
  BY DEF TypeOK, SpawnInv, OutputInv
<1>4. TreeInv'
  BY <1>0
<1>5. SettledInv'
  BY <1>0 DEF TypeOK, SettledInv
<1>6. CodeInv'
  BY DEF TypeOK, SpawnInv, OutputInv, SettledInv, CodeInv, Complete
<1>7. AnswerInv'
  BY DEF TypeOK, SpawnInv, SettledInv, AnswerInv, Measured
<1> QED
  BY <1>1, <1>2, <1>3, <1>4, <1>5, <1>6, <1>7

\* GraceFires keeps the invariant.
LEMMA GraceFiresKeeps == ASSUME IInv, GraceFires PROVE IInv'
<1> USE DEF GraceFires, IInv, processes, output, verdict, timers, killing, settling, answers
<1>0. /\ waiting' \in Seq(Codes)
      /\ flows' \in Seq([code : Codes, done : 0..3])
      /\ settled' \in BOOLEAN
      /\ \/ /\ termination = "none" /\ settled' = TRUE /\ waiting' = waiting
            /\ Len(flows') = 1 /\ DOMAIN flows' = {1} /\ flows'[1].code = "null" /\ flows'[1].done = 0
         \/ /\ termination # "none" /\ settled' = FALSE /\ flows' = <<>> /\ waiting' # <<>>
            /\ \A i \in DOMAIN waiting' : waiting'[i] = "null" \/ (i \in DOMAIN waiting /\ waiting'[i] = waiting[i])
  BY SettleEffect DEF TypeOK, Codes
<1>1. TypeOK'
  BY <1>0 DEF TypeOK
<1>2. SpawnInv'
  BY DEF TypeOK, SpawnInv
<1>3. OutputInv'
  BY DEF TypeOK, SpawnInv, OutputInv
<1>4. TreeInv'
  BY DEF TypeOK, SpawnInv, TreeInv, Running
<1>5. SettledInv'
  BY <1>0 DEF TypeOK, SettledInv
<1>6. CodeInv'
  <2>1. Complete' = Complete
    BY DEF Complete
  <2> QED
    BY <1>0, <2>1 DEF CodeInv, SettledInv
<1>7. AnswerInv'
  BY DEF TypeOK, SpawnInv, SettledInv, AnswerInv, Measured
<1> QED
  BY <1>1, <1>2, <1>3, <1>4, <1>5, <1>6, <1>7

\* HelperEnds keeps the invariant.
LEMMA HelperEndsKeeps == ASSUME IInv, HelperEnds PROVE IInv'
<1> USE DEF HelperEnds, IInv, processes, output, verdict, timers, killing, settling, answers
<1>1. TypeOK'
  BY DEF TypeOK
<1>2. SpawnInv'
  BY DEF TypeOK, SpawnInv
<1>3. OutputInv'
  BY DEF TypeOK, SpawnInv, OutputInv
<1>4. TreeInv'
  BY DEF TypeOK, SpawnInv, TreeInv, Running
<1>5. SettledInv'
  BY DEF TypeOK, TreeInv, SettledInv
<1>6. CodeInv'
  BY DEF TypeOK, SpawnInv, OutputInv, SettledInv, CodeInv, Complete
<1>7. AnswerInv'
  BY DEF TypeOK, SpawnInv, SettledInv, AnswerInv, Measured
<1> QED
  BY <1>1, <1>2, <1>3, <1>4, <1>5, <1>6, <1>7

\* Resume keeps the invariant.
LEMMA ResumeKeeps == ASSUME IInv, Resume PROVE IInv'
<1> USE DEF Resume, IInv, processes, output, verdict, timers, killing, settling, answers
<1>0. /\ Head(waiting) \in Codes /\ waiting' \in Seq(Codes)
      /\ waiting[1] = Head(waiting) /\ 1 \in DOMAIN waiting
      /\ \A i \in DOMAIN waiting' : i + 1 \in DOMAIN waiting /\ waiting'[i] = waiting[i + 1]
  BY DEF TypeOK
<1>a. \/ settled /\ UNCHANGED <<settled, flows>>
      \/ /\ ~settled /\ settled' = TRUE /\ flows' \in Seq([code : Codes, done : 0..3])
         /\ Len(flows') = 1 /\ DOMAIN flows' = {1} /\ flows'[1].code = Head(waiting) /\ flows'[1].done = 0
  BY <1>0, FinishEffect DEF SettledInv
<1>1. TypeOK'
  <2>1. error' \subseteq Reasons
    BY DEF TypeOK, Reasons
  <2>2. UNCHANGED <<opts, child, code, kin, closed, wrote, pipe, kept, timedOut, outputLimit, timer, grace, signal,
                    termination, helper, telemetry, answer>>
    OBVIOUS
  <2>3. settled' \in BOOLEAN /\ flows' \in Seq([code : Codes, done : 0..3])
    <3>1. settled \in BOOLEAN /\ flows \in Seq([code : Codes, done : 0..3])
      BY DEF TypeOK
    <3> HIDE DEF Resume, IInv
    <3> QED
      BY <1>a, <3>1
  <2> HIDE DEF Resume
  <2> QED
    BY <1>0, <2>1, <2>2, <2>3 DEF TypeOK
<1>2. SpawnInv'
  BY DEF TypeOK, SpawnInv
<1>3. OutputInv'
  BY DEF TypeOK, SpawnInv, OutputInv
<1>4. TreeInv'
  BY DEF TypeOK, SpawnInv, TreeInv, Running
<1>5. SettledInv'
  BY <1>0, <1>a DEF TypeOK, SettledInv
<1>6. CodeInv'
  <2>1. Complete' = Complete
    BY DEF Complete
  <2> QED
    BY <1>0, <1>a, <2>1 DEF CodeInv
<1>7. AnswerInv'
  BY DEF TypeOK, SpawnInv, SettledInv, AnswerInv, Measured
<1> QED
  BY <1>1, <1>2, <1>3, <1>4, <1>5, <1>6, <1>7

\* Write keeps the invariant.
LEMMA WriteKeeps == ASSUME IInv, Write PROVE IInv'
<1> USE DEF Write, IInv, processes, output, verdict, timers, killing, settling, answers
<1>0. PICK i \in DOMAIN flows :
        /\ flows[i].done < 3
        /\ flows' = [flows EXCEPT ![i].done = @ + 1]
        /\ IF flows[i].done < 2 THEN UNCHANGED answers
           ELSE LET measured == Measured(flows[i].code) IN
                /\ telemetry' = measured
                /\ answer' = IF answer = None THEN measured ELSE answer
  OBVIOUS
<1>a. /\ i = 1 /\ settled /\ Len(flows) = 1 /\ DOMAIN flows = {1}
      /\ flows[1] \in [code : Codes, done : 0..3]
      /\ waiting = <<>>
  <2>1. flows # <<>> /\ flows \in Seq([code : Codes, done : 0..3])
    BY <1>0 DEF TypeOK
  <2>2. settled /\ Len(flows) = 1 /\ termination # "pending"
    BY <2>1 DEF SettledInv
  <2>3. waiting = <<>>
    BY <2>2 DEF Quiet
  <2>4. DOMAIN flows = {1} /\ flows[1] \in [code : Codes, done : 0..3]
    BY <2>1, <2>2, OneElement
  <2> QED
    BY <1>0, <2>2, <2>3, <2>4
<1>b. /\ flows' \in Seq([code : Codes, done : 0..3])
      /\ Len(flows') = 1 /\ DOMAIN flows' = {1}
      /\ flows'[1].code = flows[1].code /\ flows'[1].done = flows[1].done + 1
  <2>1. flows \in Seq([code : Codes, done : 0..3])
    BY DEF TypeOK
  <2>2. flows' = [flows EXCEPT ![1] = [flows[1] EXCEPT !.done = @ + 1]]
    BY <1>0, <1>a
  <2>3. /\ [flows[1] EXCEPT !.done = @ + 1] \in [code : Codes, done : 0..3]
        /\ [flows[1] EXCEPT !.done = @ + 1].code = flows[1].code
        /\ [flows[1] EXCEPT !.done = @ + 1].done = flows[1].done + 1
    BY <1>0, <1>a
  <2> HIDE DEF Write
  <2> QED
    BY <1>a, <2>1, <2>2, <2>3
<1>c. Measured(flows[1].code) \in Results
  BY <1>a, BoundsAssumption DEF TypeOK, Measured, Results
<1>1. TypeOK'
  BY <1>0, <1>a, <1>b, <1>c DEF TypeOK
<1>2. SpawnInv'
  BY DEF TypeOK, SpawnInv
<1>3. OutputInv'
  BY DEF TypeOK, SpawnInv, OutputInv
<1>4. TreeInv'
  BY DEF TypeOK, SpawnInv, TreeInv, Running
<1>5. SettledInv'
  BY <1>a, <1>b DEF SettledInv
<1>6. CodeInv'
  <2>1. Complete' = Complete
    BY DEF Complete
  <2> QED
    BY <1>a, <1>b, <2>1 DEF CodeInv
<1>7. AnswerInv'
  <2>1. answer = None \/ (answer \in Results /\ FALSE)
    BY <1>0, <1>a DEF TypeOK, AnswerInv
  <2>2. Measured(flows[1].code)' = Measured(flows[1].code)
    BY <1>b DEF Measured
  <2>3. CASE flows[1].done < 2
    BY <1>0, <1>a, <2>1, <2>3, AnswersDiffer DEF AnswerInv
  <2>4. CASE ~(flows[1].done < 2)
    <3>1. flows'[1].done = 3
      BY <1>0, <1>a, <1>b, <2>4
    <3>2. telemetry' = answer' /\ answer' = Measured(flows[1].code)
      BY <1>0, <1>a, <2>1, <2>4
    <3> QED
      BY <1>a, <2>2, <3>1, <3>2 DEF AnswerInv
  <2> QED
    BY <2>3, <2>4
<1> QED
  BY <1>1, <1>2, <1>3, <1>4, <1>5, <1>6, <1>7

\* WriteFails keeps the invariant.
LEMMA WriteFailsKeeps == ASSUME IInv, WriteFails PROVE IInv'
<1> USE DEF WriteFails, IInv, processes, output, verdict, timers, killing, settling, answers
<1>1. TypeOK'
  BY DEF TypeOK
<1>2. SpawnInv'
  BY DEF TypeOK, SpawnInv
<1>3. OutputInv'
  BY DEF TypeOK, SpawnInv, OutputInv
<1>4. TreeInv'
  BY DEF TypeOK, SpawnInv, TreeInv, Running
<1>5. SettledInv'
  BY DEF TypeOK, SpawnInv, SettledInv
<1>6. CodeInv'
  BY DEF TypeOK, SpawnInv, OutputInv, SettledInv, CodeInv, Complete
<1>7. AnswerInv'
  BY AnswersDiffer DEF AnswerInv
<1> QED
  BY <1>1, <1>2, <1>3, <1>4, <1>5, <1>6, <1>7

\* The invariant is inductive.
LEMMA NextInv == IInv /\ [Next]_vars => IInv'
<1> SUFFICES ASSUME IInv, [Next]_vars PROVE IInv'
  OBVIOUS
<1>1. CASE UNCHANGED vars
  BY <1>1 DEF vars, processes, output, verdict, timers, killing, settling, answers, IInv, TypeOK, SpawnInv, OutputInv,
     TreeInv, Running, SettledInv, CodeInv, Complete, AnswerInv, Measured
<1>2. CASE Next
  BY <1>2, SpawnKeeps, ForkKeeps, OutputKeeps, ChildEndsKeeps, KinEndsKeeps, ExitKeeps, CollectKeeps, CloseKeeps,
     TimeoutFiresKeeps, GraceFiresKeeps, HelperEndsKeeps, ResumeKeeps, WriteKeeps, WriteFailsKeeps DEF Next, HostStep
<1> QED
  BY <1>1, <1>2

\* The invariant holds in every state of every command.
THEOREM Invariance == Spec => []IInv
BY InitInv, NextInv, PTL DEF Spec

\* Every variable of a command keeps its type, and the collector its limit.
THEOREM TypeCorrect == Spec => []TypeOK
<1>1. IInv => TypeOK
  BY DEF IInv
<1> QED
  BY <1>1, Invariance, PTL

\* What the caller is told is so, and is what stays on disk, whatever the output and the limit.
THEOREM ResultTruthfulHolds == Spec => []ResultTruthful
<1>1. IInv => ResultTruthful
  <2> SUFFICES ASSUME IInv, answer \in Results PROVE ResultTruthful
    BY DEF ResultTruthful, OkIsComplete, CleanupIsVisible, TelemetryAgrees
  <2>1. /\ settled /\ waiting = <<>> /\ telemetry = answer /\ answer = Measured(flows[1].code)
        /\ 1 \in DOMAIN flows
    BY DEF IInv, TypeOK, AnswerInv, SettledInv
  <2>2. OkIsComplete
    BY <2>1 DEF OkIsComplete, IInv, OutputInv, CodeInv, Complete, Measured
  <2>3. CleanupIsVisible
    BY <2>1 DEF CleanupIsVisible, IInv, TypeOK, TreeInv, SettledInv, Measured
  <2> QED
    BY <2>1, <2>2, <2>3 DEF ResultTruthful, TelemetryAgrees
<1> QED
  BY <1>1, Invariance, PTL
=============================================================================
