------------------------ MODULE IndexStalenessProofs ------------------------
(***************************************************************************)
(* IndexStaleness for any files and any number of edits.                   *)
(*                                                                         *)
(* The checks of a scenario relate what was read of one file of one copy   *)
(* at different times.  The invariant follows one file of one copy: what   *)
(* it holds (Holds), and what each operation that has looked at it saw     *)
(* (Saw), related to what the file holds now and has held.  Little can be  *)
(* said of a file that an edit gave what it held before; of any other, to  *)
(* see the same at two times is to know that it was not edited between     *)
(* them.  That the copies agree is only used at the end (BaselinesAgree,   *)
(* CopiesAgree), where the comparisons of all treatments rule out what one *)
(* copy alone allows: no two copies were given the same by edits (Apart).  *)
(***************************************************************************)
EXTENDS IndexStaleness, FiniteSetTheorems, TLAPS

-----------------------------------------------------------------------------
(* How far a copy has come.                                                *)

Created(t) == phase # "create" \/ t \in done
Baselined(t) == phase \in {"clone", "mutate", "post", "assess", "refresh"} \/ (phase = "baseline" /\ t \in done)
IsMutated(t) == phase \in {"post", "assess", "refresh"} \/ (phase = "mutate" /\ t \in done)
Captured(t) == phase \in {"assess", "refresh"} \/ (phase = "post" /\ t \in done)
Assessed(t) == phase = "refresh" \/ (phase = "assess" /\ t \in done)

Looking == op \in {"capture", "index", "snapshot", "assess"}
Writing(t) == phase = "mutate" /\ Turn(t) /\ op \in {"write", "verify"}
Written(t, f) == f \in controlled /\ (IsMutated(t) \/ (Writing(t) /\ view[f] = "mutated"))

\* The file was edited, or nothing is said of it.
IsEdited(t, f) == f \in repeated \/ held[t][f] # Given(f)
Mutation(f) == IF f \in controlled THEN "mutated" ELSE Benchmark[f]

-----------------------------------------------------------------------------
(* The inductive invariant.                                                *)

\* The operations of each phase.
Stages ==
  /\ phase = "create" => op = "create"
  /\ phase \in {"pre", "post"} => op = "capture"
  /\ phase = "baseline" => op \in {"index", "snapshot"}
  /\ phase = "clone" => op = "clone"
  /\ phase = "mutate" => op \in {"validate", "write", "verify"}
  /\ phase = "assess" => op = "assess"
  /\ phase = "refresh" => op \in {"index", "snapshot", "assess"}

\* What was not looked at was not seen, and what was verified was written.
Views ==
  \A t \in Treatments : Turn(t) =>
    /\ Looking => looked \subseteq Watched(t) /\ \A f \in Files \ looked : view[f] = "absent"
    /\ op \in {"write", "verify"} => \A f \in looked : view[f] = "mutated"

\* A file was given what the scenario gives it; what edits gave it two copies do not share.
Held == \A t \in Treatments, f \in Files : Given(f) \subseteq held[t][f]
Apart ==
  \A s, t \in Treatments, f \in Files \ repeated : s # t =>
    \A x : x \in held[s][f] /\ x \in held[t][f] => x \in Given(f) \/ x = "absent"
Untouched == edits = 0 => repeated = {} /\ unseen = {} /\ \A t \in Treatments, f \in Files : held[t][f] = Given(f)

\* What a file of a copy holds.
Holds ==
  \A t \in Treatments, f \in Files \ repeated :
    /\ IsEdited(t, f) => Created(t)
    /\ Created(t) =>
         IF IsEdited(t, f)
         THEN \/ target[t][f] \in held[t][f] \ Given(f)
              \/ Written(t, f) /\ target[t][f] = "mutated"
         ELSE target[t][f] = IF Written(t, f) THEN "mutated" ELSE Benchmark[f]

\* Until the mutation, a file that was not edited is seen as it is in the benchmark.
Pre ==
  phase = "pre" =>
    \A t \in Treatments, f \in Files : ~IsEdited(t, f) =>
      /\ Turn(t) /\ f \in looked => view[f] = Benchmark[f]
      /\ t \in done => pre[t][f] = Benchmark[f]

AsBenchmark(t, f) == index["baseline"][t][f] = Benchmark[f] /\ snapshot["baseline"][t][f] = Benchmark[f]

Baseline ==
  \A t \in Treatments :
    /\ phase = "baseline" /\ Turn(t) =>
         \A f \in Files : ~IsEdited(t, f) =>
           /\ f \in looked => view[f] = Benchmark[f]
           /\ op = "snapshot" => index["baseline"][t][f] = Benchmark[f]
    /\ phase = "baseline" /\ Turn(t) => \A f \in Files \ repeated : f \in looked => view[f] \in held[t][f]
    /\ Baselined(t) =>
         /\ Present(snapshot["baseline"][t]) = Present(index["baseline"][t])
         /\ \A f \in Files : ~IsEdited(t, f) => AsBenchmark(t, f)
         /\ \A f \in Files \ repeated : snapshot["baseline"][t][f] \in held[t][f] \cup {"absent"}

\* The plan's check of a controlled file finds it unedited.
Validated ==
  \A t \in Treatments, f \in controlled \ repeated :
    IsMutated(t) \/ Writing(t) \/ (phase = "mutate" /\ Turn(t) /\ op = "validate" /\ f \in looked) => AsBenchmark(t, f)

\* What a capture after the mutation can see of a file: if not what was hashed of it,
\* then what was hashed is gone for good.
PostSaw(t, f, x) ==
  f \notin repeated =>
    /\ x \in held[t][f]
    /\ ~IsEdited(t, f) => x = Mutation(f)
    /\ x = Mutation(f) /\ f \notin controlled => AsBenchmark(t, f)
    /\ f \notin controlled /\ snapshot["baseline"][t][f] # "absent" /\ target[t][f] = snapshot["baseline"][t][f] =>
         x = target[t][f]
    /\ snapshot["baseline"][t][f] = "absent" /\ <<t, f>> \notin unseen => target[t][f] = x
Post ==
  \A t \in Treatments, f \in Files :
    /\ phase = "post" /\ Turn(t) /\ f \in looked => PostSaw(t, f, view[f])
    /\ Captured(t) => PostSaw(t, f, post[t][f])
PostMatched == phase \in {"assess", "refresh"} => Equivalent(post)

\* What the assessment of a baseline can see of a file: if what was hashed of it, then the capture saw that too.
AssessSaw(t, f, x) ==
  f \notin repeated =>
    /\ x \in held[t][f]
    /\ f \notin controlled /\ snapshot["baseline"][t][f] # "absent" /\ x = snapshot["baseline"][t][f] => post[t][f] = x
    /\ <<t, f>> \notin unseen => target[t][f] = x
Assess ==
  \A t \in Treatments :
    /\ phase = "assess" /\ Turn(t) => \A f \in looked : AssessSaw(t, f, view[f])
    /\ Assessed(t) =>
         /\ Stale(snapshot["baseline"][t], assessed[t])
         /\ \A f \in Files : IF snapshot["baseline"][t][f] = "absent" THEN assessed[t][f] = "absent"
                             ELSE AssessSaw(t, f, assessed[t][f])
AssessMatched == phase = "refresh" => Symmetric(assessed)

\* Whatever is read of a refreshed copy is what it holds, but for unseen edits.
Refresh ==
  phase = "refresh" =>
    \A t \in Refreshing, f \in Files : <<t, f>> \notin unseen =>
      /\ Turn(t) /\ f \in looked => view[f] = target[t][f]
      /\ t \in done \/ (Turn(t) /\ op \in {"snapshot", "assess"}) => index["refreshed"][t][f] = target[t][f]
      /\ t \in done \/ (Turn(t) /\ op = "assess") => snapshot["refreshed"][t][f] = target[t][f]

Ready ==
  status = "ready" =>
    phase = "refresh" /\ op = "assess" /\ \E t \in Treatments : Turn(t) /\ Refreshing \subseteq done \cup {t}

Saw == Pre /\ Baseline /\ Validated /\ Post /\ Assess /\ Refresh
Matched == PostMatched /\ AssessMatched
IInv == TypeOK /\ Held /\ Apart /\ Untouched /\ Stages /\ Views /\ Holds /\ Saw /\ Matched /\ Ready /\ NoFalseAlarm

-----------------------------------------------------------------------------
(* The order of phases and treatments.                                     *)

\* What the sets of treatments, the order of the phases and of the operations are.
LEMMA TakesFacts ==
  /\ Takes("create") = Treatments /\ Takes("pre") = Treatments /\ Takes("baseline") = Treatments
  /\ Takes("clone") = Partial /\ Takes("mutate") = Treatments /\ Takes("post") = Treatments
  /\ Takes("assess") = Treatments /\ Takes("refresh") = Refreshing
BY DEF Takes

LEMMA AfterFacts ==
  /\ After("create") = "pre" /\ After("pre") = "baseline" /\ After("baseline") = "clone"
  /\ After("clone") = "mutate" /\ After("mutate") = "post" /\ After("post") = "assess"
  /\ After("assess") = "refresh" /\ After("refresh") = "refresh"
BY DEF After

LEMMA BeginsFacts ==
  /\ Begins("create") = "create" /\ Begins("pre") = "capture" /\ Begins("baseline") = "index"
  /\ Begins("clone") = "clone" /\ Begins("mutate") = "validate" /\ Begins("post") = "capture"
  /\ Begins("assess") = "assess" /\ Begins("refresh") = "index"
BY DEF Begins

LEMMA TreatmentsFacts ==
  /\ Treatments = {"stale-index", "changed-files-refresh", "affected-neighborhood-refresh", "full-refresh"}
  /\ Refreshing = {"changed-files-refresh", "affected-neighborhood-refresh", "full-refresh"}
  /\ Partial = {"changed-files-refresh", "affected-neighborhood-refresh"}
BY DEF Treatments, Refreshing, Partial

\* Every phase has a treatment to take.
LEMMA TakesSome == \A p \in Phases : Takes(p) \subseteq Treatments /\ Takes(p) # {}
BY TakesFacts, TreatmentsFacts DEF Phases

\* One treatment at a time has its turn.
LEMMA TurnUnique == ASSUME NEW s \in Treatments, NEW t \in Treatments, Turn(s), Turn(t) PROVE s = t
<1>1. /\ Rank["stale-index"] = 1 /\ Rank["changed-files-refresh"] = 2
      /\ Rank["affected-neighborhood-refresh"] = 3 /\ Rank["full-refresh"] = 4
  BY TreatmentsFacts DEF Rank
<1>2. Rank[s] <= Rank[t] /\ Rank[t] <= Rank[s]
  BY DEF Turn
<1> QED BY <1>1, <1>2, TreatmentsFacts

\* What the end of a phase for treatment t changes in how far the copies have come.
LEMMA AdvanceStep ==
  ASSUME TypeOK, NEW t \in Treatments, Turn(t), Advance(t)
  PROVE  /\ phase' \in Phases /\ done' \subseteq Takes(phase') /\ done' # Takes(phase')
         /\ Stages' /\ looked' = {} /\ view' = Nothing /\ op' \in Operations /\ status' = status
         /\ phase' = phase \/ done' = {}
         /\ phase' = phase => done' = done \cup {t} \/ (phase = "refresh" /\ done' = {} /\ Refreshing \subseteq done \cup {t})
<1> USE DEF Advance, Turn, Begin, TypeOK
<1>1. CASE Takes(phase) \subseteq done \cup {t}
  BY <1>1, TakesSome, TakesFacts, AfterFacts, BeginsFacts DEF Phases, Operations, Stages
<1>2. CASE ~(Takes(phase) \subseteq done \cup {t})
  BY <1>2, TakesFacts, AfterFacts, BeginsFacts DEF Phases, Operations, Stages
<1> QED BY <1>1, <1>2

\* How far the copies have come once one of them advances.
LEMMA AdvancePasses ==
  ASSUME TypeOK, NEW t \in Treatments, Turn(t), Advance(t)
  PROVE  \A s \in Treatments :
           /\ Created(s)' <=> (Created(s) \/ (phase = "create" /\ s = t))
           /\ Baselined(s)' <=> (Baselined(s) \/ (phase = "baseline" /\ s = t))
           /\ IsMutated(s)' <=> (IsMutated(s) \/ (phase = "mutate" /\ s = t))
           /\ Captured(s)' <=> (Captured(s) \/ (phase = "post" /\ s = t))
           /\ Assessed(s)' <=> (Assessed(s) \/ (phase = "assess" /\ s = t))
<1> USE DEF Advance, Turn, TypeOK, Created, Baselined, IsMutated, Captured, Assessed
<1>1. CASE Takes(phase) \subseteq done \cup {t}
  BY <1>1, TakesFacts, AfterFacts DEF Phases
<1>2. CASE ~(Takes(phase) \subseteq done \cup {t})
  BY <1>2
<1> QED BY <1>1, <1>2

-----------------------------------------------------------------------------
(* Types.                                                                  *)

\* What a copy may hold.
LEMMA StatesFacts ==
  /\ Nothing \in States /\ Benchmark \in States
  /\ \A f \in Files : Nothing[f] = "absent"
  /\ \A f \in Files : Benchmark[f] = IF f \in New THEN "absent" ELSE "original"
BY DEF Nothing, Benchmark, States, Contents

\* What the scenario gives a file.
LEMMA GivenFacts ==
  ASSUME NEW f \in Files
  PROVE  /\ Given(f) \subseteq Contents
         /\ \A x : x \in Given(f) <=> x = Benchmark[f] \/ x = Mutation(f)
         /\ Mutation(f) = IF f \in controlled THEN "mutated" ELSE Benchmark[f]
BY StatesFacts DEF Given, Mutation, Contents, States

\* The controlled files are files of the benchmark.
LEMMA ScenarioFiles == TypeOK => controlled \subseteq Files
BY ScenariosChange DEF TypeOK, Files

\* A scenario that begins has the type.
LEMMA InitTypes == Init => TypeOK
<1> SUFFICES ASSUME Init PROVE TypeOK
  OBVIOUS
<1>1. {target, pre, post, assessed} \subseteq [Treatments -> States]
  BY StatesFacts DEF Init
<1>2. {index, snapshot} \subseteq [Roles -> [Treatments -> States]]
  BY StatesFacts DEF Init
<1>3. phase \in Phases /\ done \subseteq Takes(phase) /\ done # Takes(phase)
  BY TakesFacts, TreatmentsFacts DEF Init, Phases
<1>4. held \in [Treatments -> [Files -> SUBSET Contents]]
  BY GivenFacts DEF Init
<1>5. edits \in 0..MaxEdits
  BY BoundsNat DEF Init
<1> QED BY <1>1, <1>2, <1>3, <1>4, <1>5, StatesFacts DEF Init, TypeOK, Operations

\* The part of the type invariant that each step keeps by what it does to the current treatment.
LEMMA WorkTypes ==
  ASSUME TypeOK, NEW t \in Treatments, Turn(t),
         \/ Advance(t)
         \/ \E how \in {"refused", "ready", "failed"} : End(how)
         \/ \E o \in Operations : Then(o)
  PROVE  /\ phase' \in Phases /\ done' \subseteq Takes(phase') /\ done' # Takes(phase')
         /\ op' \in Operations /\ looked' \subseteq Files /\ view' \in States
         /\ status' \in {"running", "ready", "refused", "failed"}
<1>1. CASE Advance(t)
  BY <1>1, AdvanceStep, StatesFacts DEF TypeOK
<1>2. CASE \E how \in {"refused", "ready", "failed"} : End(how)
  BY <1>2 DEF TypeOK, End, work
<1>3. CASE \E o \in Operations : Then(o)
  BY <1>3, StatesFacts DEF TypeOK, Then, Begin
<1> QED BY <1>1, <1>2, <1>3

\* A snapshot of one role is replaced within its type.
LEMMA RoleExcept ==
  ASSUME NEW states \in [Roles -> [Treatments -> States]], NEW r \in Roles, NEW t \in Treatments, NEW state \in States
  PROVE  [states EXCEPT ![r][t] = state] \in [Roles -> [Treatments -> States]]
OBVIOUS

LEMMA RolesFacts == Role \in Roles /\ Roles = {"baseline", "refreshed"}
BY DEF Role, Roles

\* Every action keeps the type.
LEMMA NextTypes == TypeOK /\ [Next]_vars => TypeOK'
<1> SUFFICES ASSUME TypeOK, [Next]_vars PROVE TypeOK'
  OBVIOUS
<1> USE ScenarioFiles DEF history
<1>0. /\ target \in [Treatments -> States] /\ pre \in [Treatments -> States] /\ post \in [Treatments -> States]
      /\ assessed \in [Treatments -> States]
      /\ index \in [Roles -> [Treatments -> States]] /\ snapshot \in [Roles -> [Treatments -> States]]
  BY DEF TypeOK
<1>1. ASSUME NEW t \in Treatments, Look(t) PROVE TypeOK'
  <2>1. PICK f \in Watched(t) \ looked : looked' = looked \cup {f} /\ view' = [view EXCEPT ![f] = target[t][f]]
    BY <1>1 DEF Look
  <2>2. f \in Files
    BY <1>1, <1>0 DEF Look, Watched, Present
  <2>3. view' \in States
    BY <2>1, <2>2, <1>0 DEF TypeOK, States
  <2> QED BY <1>1, <2>1, <2>2, <2>3 DEF Look, TypeOK, evidence
<1>2. ASSUME NEW t \in Treatments, Create(t) PROVE TypeOK'
  <2>1. target' \in [Treatments -> States]
    BY <1>2, <1>0, StatesFacts DEF Create
  <2> QED BY <1>2, <2>1, WorkTypes DEF Create, TypeOK, At, evidence
<1>3. ASSUME NEW t \in Treatments, Capture(t) PROVE TypeOK'
  <2>1. pre' \in [Treatments -> States] /\ post' \in [Treatments -> States]
    <3>1. /\ [pre EXCEPT ![t] = view] \in [Treatments -> States]
          /\ [post EXCEPT ![t] = view] \in [Treatments -> States]
      BY <1>0 DEF TypeOK
    <3> QED BY <3>1, <1>3, <1>0 DEF Capture
  <2>2. Advance(t) \/ End("refused")
    BY <1>3 DEF Capture, AdvanceIf
  <2> QED BY <1>3, <2>1, <2>2, WorkTypes DEF Capture, TypeOK, Looked, At
<1>4. ASSUME NEW t \in Treatments, Index(t) PROVE TypeOK'
  <2>1. index' \in [Roles -> [Treatments -> States]]
    BY <1>4, <1>0, RoleExcept, RolesFacts DEF Index, TypeOK
  <2> QED BY <1>4, <2>1, WorkTypes DEF Index, TypeOK, Looked, At, Operations
<1>5. ASSUME NEW t \in Treatments, Snapshot(t) PROVE TypeOK'
  <2>1. snapshot' \in [Roles -> [Treatments -> States]]
    BY <1>5, <1>0, RoleExcept, RolesFacts DEF Snapshot, TypeOK
  <2>2. End("refused") \/ Then("assess") \/ Advance(t)
    BY <1>5 DEF Snapshot
  <2> QED BY <1>5, <2>1, <2>2, WorkTypes DEF Snapshot, TypeOK, Looked, At, Operations
<1>6. ASSUME NEW t \in Treatments, Clone(t) PROVE TypeOK'
  <2>1. index' \in [Roles -> [Treatments -> States]]
    BY <1>6, <1>0, RolesFacts DEF Clone
  <2> QED BY <1>6, <2>1, WorkTypes DEF Clone, TypeOK, At
<1>7. ASSUME NEW t \in Treatments, Validate(t) PROVE TypeOK'
  <2> USE <1>7 DEF Validate, At
  <2>1. CASE Then("write")
    BY <2>1, WorkTypes DEF TypeOK, Operations, evidence
  <2>2. CASE End("refused")
    BY <2>2, WorkTypes DEF TypeOK, evidence
  <2>3. CASE \E f \in controlled \ looked : looked' = looked \cup {f} /\ UNCHANGED <<phase, done, op, view, status>>
    BY <2>3 DEF TypeOK, evidence, Files
  <2> QED BY <2>1, <2>2, <2>3
<1>8. ASSUME NEW t \in Treatments, Write(t) PROVE TypeOK'
  <2> USE <1>8 DEF Write, At
  <2>1. CASE Advance(t) /\ UNCHANGED target
    BY <2>1, WorkTypes DEF TypeOK, evidence
  <2>2. CASE ~(Advance(t) /\ UNCHANGED target)
    <3>1. PICK f \in controlled \ looked :
            /\ target' = [target EXCEPT ![t][f] = "mutated"] /\ view' = [view EXCEPT ![f] = "mutated"]
            /\ op' = "verify" /\ UNCHANGED <<phase, done, looked, status>>
      BY <2>2
    <3>2. "mutated" \in Contents /\ f \in Files
      BY DEF Contents, Files
    <3>3. view' \in States
      BY <3>1, <3>2 DEF TypeOK, States
    <3>4. target' \in [Treatments -> States]
      <4>1. [target[t] EXCEPT ![f] = "mutated"] \in States
        BY <1>0, <3>2 DEF States
      <4> QED BY <4>1, <3>1, <1>0
    <3> QED BY <3>1, <3>3, <3>4 DEF TypeOK, evidence, Operations
  <2> QED BY <2>1, <2>2
<1>9. ASSUME NEW t \in Treatments, Verify(t) PROVE TypeOK'
  <2> USE <1>9 DEF Verify, At
  <2>1. CASE End("refused")
    BY <2>1, WorkTypes DEF TypeOK, evidence
  <2>2. CASE ~End("refused")
    BY <2>2 DEF TypeOK, evidence, Files, Operations
  <2> QED BY <2>1, <2>2
<1>10. ASSUME NEW t \in Treatments, AssessBaseline(t) PROVE TypeOK'
  <2>1. assessed' \in [Treatments -> States]
    BY <1>10, <1>0 DEF AssessBaseline, TypeOK
  <2>2. Advance(t) \/ End("refused")
    BY <1>10 DEF AssessBaseline, AdvanceIf
  <2> QED BY <1>10, <2>1, <2>2, WorkTypes DEF AssessBaseline, TypeOK, Looked, At
<1>11. ASSUME NEW t \in Treatments, AssessRefreshed(t) PROVE TypeOK'
  <2>1. Advance(t) \/ End("refused") \/ End("ready")
    BY <1>11 DEF AssessRefreshed
  <2> QED BY <1>11, <2>1, WorkTypes DEF AssessRefreshed, TypeOK, Looked, At, evidence
<1>12. CASE OperationFails
  BY <1>12 DEF OperationFails, End, work, TypeOK, evidence
<1>13. ASSUME NEW t \in Treatments, NEW f \in Files, Edit(t, f) PROVE TypeOK'
  <2>1. PICK content \in Contents :
          /\ target' = [target EXCEPT ![t][f] = content]
          /\ held' = [held EXCEPT ![t][f] = @ \cup {content}]
    BY <1>13 DEF Edit
  <2>2. [target[t] EXCEPT ![f] = content] \in States
    BY <1>0 DEF States
  <2>3. target' \in [Treatments -> States]
    BY <2>1, <2>2, <1>0
  <2>4. [held[t] EXCEPT ![f] = @ \cup {content}] \in [Files -> SUBSET Contents]
    BY DEF TypeOK
  <2>5. held' \in [Treatments -> [Files -> SUBSET Contents]]
    BY <2>1, <2>4 DEF TypeOK
  <2>6. edits' \in 0..MaxEdits
    BY <1>13, BoundsNat DEF Edit, TypeOK
  <2>7. repeated' \subseteq Files /\ unseen' \subseteq Treatments \X Files
    BY <1>13 DEF Edit, TypeOK
  <2> QED BY <1>13, <2>3, <2>5, <2>6, <2>7 DEF Edit, TypeOK, work, evidence
<1>14. CASE UNCHANGED vars
  BY <1>14 DEF vars, work, evidence, TypeOK
<1> QED
  BY <1>1, <1>2, <1>3, <1>4, <1>5, <1>6, <1>7, <1>8, <1>9, <1>10, <1>11, <1>12, <1>13, <1>14
     DEF Next, Lifecycle

-----------------------------------------------------------------------------
(* The history.                                                            *)

\* Only an edit changes the history, and nothing the scenario.
LEMMA HistorySteps ==
  ASSUME [Next]_vars
  PROVE  /\ controlled' = controlled
         /\ (\E t \in Treatments, f \in Files : Edit(t, f)) \/ UNCHANGED <<edits, held, repeated, unseen>>
BY DEF Next, Lifecycle, Look, Create, Capture, Index, Snapshot, Clone, Validate, Write, Verify, AssessBaseline,
       AssessRefreshed, OperationFails, Edit, vars, history

\* What a file is given depends on the scenario alone.
LEMMA GivenKept == controlled' = controlled => \A f : (Given(f)' = Given(f)) /\ (Mutation(f)' = Mutation(f))
BY DEF Given, Mutation

\* What an edit adds to the history of its file, and of no other.
LEMMA EditHeld ==
  ASSUME TypeOK, NEW t \in Treatments, NEW f \in Files, Edit(t, f)
  PROVE  \E x \in Contents \ {target[t][f]} :
           /\ \A s \in Treatments, g \in Files :
                /\ target'[s][g] = IF s = t /\ g = f THEN x ELSE target[s][g]
                /\ held'[s][g] = IF s = t /\ g = f THEN held[s][g] \cup {x} ELSE held[s][g]
           /\ repeated \subseteq repeated' /\ repeated' \subseteq repeated \cup {f}
           /\ f \notin repeated' => x \notin held[t][f] /\ \A s \in Treatments : x \in held[s][f] => x = "absent"
<1>1. PICK x \in Contents \ {target[t][f]} :
        /\ target' = [target EXCEPT ![t][f] = x]
        /\ held' = [held EXCEPT ![t][f] = @ \cup {x}]
        /\ repeated' = IF Recurs(t, f, x) THEN repeated \cup {f} ELSE repeated
  BY DEF Edit
<1>2. \A s \in Treatments, g \in Files : target'[s][g] = IF s = t /\ g = f THEN x ELSE target[s][g]
  BY <1>1 DEF TypeOK, States
<1>3. \A s \in Treatments, g \in Files : held'[s][g] = IF s = t /\ g = f THEN held[s][g] \cup {x} ELSE held[s][g]
  BY <1>1 DEF TypeOK
<1>4. f \notin repeated' => ~Recurs(t, f, x)
  BY <1>1
<1> QED BY <1>1, <1>2, <1>3, <1>4 DEF Recurs

\* What was held stays held, what was edited stays edited.
LEMMA EditedGrows ==
  ASSUME TypeOK, Held, [Next]_vars
  PROVE  /\ controlled' = controlled /\ repeated \subseteq repeated' /\ unseen \subseteq unseen'
         /\ \A t \in Treatments, f \in Files : held[t][f] \subseteq held'[t][f] /\ (IsEdited(t, f) => IsEdited(t, f)')
         /\ edits' = 0 => edits = 0
<1>0. controlled' = controlled /\ \A f : Given(f)' = Given(f)
  BY HistorySteps, GivenKept
<1>1. CASE UNCHANGED <<edits, held, repeated, unseen>>
  BY <1>0, <1>1 DEF IsEdited
<1>2. ASSUME NEW t \in Treatments, NEW f \in Files, Edit(t, f)
      PROVE  /\ repeated \subseteq repeated' /\ unseen \subseteq unseen'
             /\ \A s \in Treatments, g \in Files : held[s][g] \subseteq held'[s][g] /\ (IsEdited(s, g) => IsEdited(s, g)')
             /\ edits' = 0 => edits = 0
  <2>0. PICK x \in Contents \ {target[t][f]} :
          /\ \A s \in Treatments, g \in Files :
               /\ target'[s][g] = IF s = t /\ g = f THEN x ELSE target[s][g]
               /\ held'[s][g] = IF s = t /\ g = f THEN held[s][g] \cup {x} ELSE held[s][g]
          /\ repeated \subseteq repeated' /\ repeated' \subseteq repeated \cup {f}
          /\ f \notin repeated' => x \notin held[t][f] /\ \A s \in Treatments : x \in held[s][f] => x = "absent"
    BY <1>2, EditHeld
  <2>1. repeated \subseteq repeated' /\ \A s \in Treatments, g \in Files : held[s][g] \subseteq held'[s][g]
    BY <2>0
  <2>2. unseen \subseteq unseen' /\ (edits' = 0 => edits = 0)
    BY <1>2, BoundsNat DEF Edit, TypeOK
  <2>3. ASSUME NEW s \in Treatments, NEW g \in Files, IsEdited(s, g) PROVE IsEdited(s, g)'
    <3>1. Given(g) \subseteq held[s][g]
      BY DEF Held
    <3> QED BY <1>0, <2>1, <2>3, <3>1 DEF IsEdited
  <2> QED BY <2>1, <2>2, <2>3
<1> QED BY <1>0, <1>1, <1>2, HistorySteps

\* Every action keeps what is said of the history.
LEMMA NextHeld == TypeOK /\ Held /\ Apart /\ Untouched /\ [Next]_vars => Held' /\ Apart' /\ Untouched'
<1> SUFFICES ASSUME TypeOK, Held, Apart, Untouched, [Next]_vars PROVE Held' /\ Apart' /\ Untouched'
  OBVIOUS
<1>0. controlled' = controlled /\ \A f : Given(f)' = Given(f)
  BY HistorySteps, GivenKept
<1>1. CASE UNCHANGED <<edits, held, repeated, unseen>>
  BY <1>0, <1>1 DEF Held, Apart, Untouched
<1>2. ASSUME NEW t \in Treatments, NEW f \in Files, Edit(t, f) PROVE Held' /\ Apart' /\ Untouched'
  <2>1. PICK x \in Contents \ {target[t][f]} :
          /\ \A s \in Treatments, g \in Files :
               /\ target'[s][g] = IF s = t /\ g = f THEN x ELSE target[s][g]
               /\ held'[s][g] = IF s = t /\ g = f THEN held[s][g] \cup {x} ELSE held[s][g]
          /\ repeated \subseteq repeated' /\ repeated' \subseteq repeated \cup {f}
          /\ f \notin repeated' => x \notin held[t][f] /\ \A s \in Treatments : x \in held[s][f] => x = "absent"
    BY <1>2, EditHeld
  <2>2. Held'
    BY <1>0, <2>1 DEF Held
  <2>3. Apart'
    <3> SUFFICES ASSUME NEW r \in Treatments, NEW s \in Treatments, NEW g \in Files, g \notin repeated', r # s,
                        NEW y, y \in held'[r][g], y \in held'[s][g]
                 PROVE  y \in Given(g) \/ y = "absent"
      BY <1>0 DEF Apart
    <3>1. g \notin repeated
      BY <2>1
    <3>2. CASE y \in held[r][g] /\ y \in held[s][g]
      BY <3>1, <3>2 DEF Apart
    <3>3. CASE ~(y \in held[r][g] /\ y \in held[s][g])
      <4>1. g = f /\ y = x /\ (y \in held[r][g] \/ y \in held[s][g])
        <5>1. held'[r][g] = (IF r = t /\ g = f THEN held[r][g] \cup {x} ELSE held[r][g])
          BY <2>1
        <5>2. held'[s][g] = (IF s = t /\ g = f THEN held[s][g] \cup {x} ELSE held[s][g])
          BY <2>1
        <5> QED BY <3>3, <5>1, <5>2
      <4> QED BY <2>1, <4>1
    <3> QED BY <3>2, <3>3
  <2>4. edits' # 0
    BY <1>2 DEF Edit, TypeOK
  <2> QED BY <2>2, <2>3, <2>4 DEF Untouched
<1> QED BY <1>1, <1>2, HistorySteps

-----------------------------------------------------------------------------
(* The stages, and what was looked at.                                     *)

\* Every step keeps what is said of the phase and of the operation.
LEMMA NextStages == TypeOK /\ Stages /\ [Next]_vars => Stages'
<1> SUFFICES ASSUME TypeOK, Stages, [Next]_vars PROVE Stages'
  OBVIOUS
<1>1. ASSUME NEW t \in Treatments, Turn(t), Advance(t) PROVE Stages'
  BY <1>1, AdvanceStep
<1>2. ASSUME NEW how, End(how) PROVE Stages'
  BY <1>2 DEF End, work, Stages
<1>3. ASSUME NEW t \in Treatments, Index(t) PROVE Stages'
  BY <1>3 DEF Index, Looked, At, Then, Begin, Stages, TypeOK, Phases
<1>4. ASSUME NEW t \in Treatments, Snapshot(t) PROVE Stages'
  BY <1>4, <1>1, <1>2 DEF Snapshot, Looked, At, Then, Begin, Stages, TypeOK, Phases
<1>5. ASSUME NEW t \in Treatments, Validate(t) PROVE Stages'
  BY <1>5, <1>2 DEF Validate, At, Then, Begin, Stages, TypeOK, Phases
<1>6. ASSUME NEW t \in Treatments, Write(t) \/ Verify(t) PROVE Stages'
  BY <1>6, <1>1, <1>2 DEF Write, Verify, At, Stages, TypeOK, Phases
<1>7. ASSUME NEW t \in Treatments, Create(t) \/ Capture(t) \/ Clone(t) \/ AssessBaseline(t) \/ AssessRefreshed(t)
      PROVE  Stages'
  BY <1>7, <1>1, <1>2 DEF Create, Capture, Clone, AssessBaseline, AssessRefreshed, AdvanceIf, Looked, At
<1>8. CASE UNCHANGED <<phase, op>>
  BY <1>8 DEF Stages
<1> QED
  BY <1>2, <1>3, <1>4, <1>5, <1>6, <1>7, <1>8 DEF Next, Lifecycle, Look, Edit, OperationFails, work, vars
\* An operation that begins has seen nothing.
LEMMA BegunViews == looked' = {} /\ view' = Nothing => Views'
BY StatesFacts DEF Views

LEMMA AdvanceViews == ASSUME TypeOK, NEW t \in Treatments, Turn(t), Advance(t) PROVE Views'
BY AdvanceStep, BegunViews

LEMMA ThenViews == ASSUME NEW o, Then(o) PROVE Views'
BY BegunViews DEF Then, Begin

\* Every action keeps what is said of the files still to be looked at.
LEMMA NextViews == TypeOK /\ Stages /\ Views /\ [Next]_vars => Views'
<1> SUFFICES ASSUME TypeOK, Stages, Views, [Next]_vars PROVE Views'
  OBVIOUS
<1>0. UNCHANGED <<phase, done>> => \A t : Turn(t)' <=> Turn(t)
  BY DEF Turn
<1>1. ASSUME NEW t \in Treatments, Look(t) PROVE Views'
  <2>1. PICK f \in Watched(t) \ looked : looked' = looked \cup {f} /\ view' = [view EXCEPT ![f] = target[t][f]]
    BY <1>1 DEF Look
  <2>2. \A s : Watched(s)' = Watched(s)
    BY <1>1 DEF Look, Watched, Role, evidence
  <2>3. UNCHANGED <<phase, done, op>> /\ Turn(t) /\ Looking
    BY <1>1 DEF Look, Looking
  <2>4. \A s \in Treatments : Turn(s)' => s = t
    BY <2>3, <1>0, TurnUnique
  <2>5. \A g \in Files \ looked' : view'[g] = "absent"
    BY <2>1, <2>3 DEF TypeOK, States, Views
  <2>6. looked' \subseteq Watched(t)'
    BY <2>1, <2>2, <2>3 DEF Views
  <2> QED BY <2>3, <2>4, <2>5, <2>6 DEF Views, Looking
<1>2. ASSUME NEW how, End(how), UNCHANGED index, op = "assess" => UNCHANGED snapshot PROVE Views'
  <2>1. \A s : Watched(s)' = Watched(s)
    BY <1>2 DEF End, work, Watched, Role
  <2> QED BY <1>0, <1>2, <2>1 DEF End, work, Views, Looking
<1>3. ASSUME NEW t \in Treatments, Create(t) \/ Capture(t) \/ Clone(t) \/ AssessBaseline(t) \/ AssessRefreshed(t)
      PROVE  Views'
  <2>1. Turn(t) /\ (Advance(t) \/ \E how : End(how) /\ UNCHANGED <<index, snapshot>>)
    BY <1>3 DEF Create, Capture, Clone, AssessBaseline, AssessRefreshed, AdvanceIf, Looked, At, evidence
  <2> QED BY <2>1, <1>2, AdvanceViews
<1>4. ASSUME NEW t \in Treatments, Index(t) PROVE Views'
  BY <1>4, ThenViews DEF Index
<1>5. ASSUME NEW t \in Treatments, Snapshot(t) PROVE Views'
  <2>1. End("refused") \/ Then("assess") \/ Advance(t)
    BY <1>5 DEF Snapshot
  <2> QED BY <1>5, <2>1, <1>2, AdvanceViews, ThenViews DEF Snapshot, Looked, At
<1>6. ASSUME NEW t \in Treatments, Validate(t) PROVE Views'
  <2>1. CASE Then("write")
    BY <2>1, ThenViews
  <2>2. CASE End("refused")
    BY <1>6, <2>2, <1>2 DEF Validate, evidence
  <2>3. CASE op' = "validate"
    BY <2>3 DEF Views, Looking
  <2> QED BY <1>6, <2>1, <2>2, <2>3 DEF Validate, At
<1>7. ASSUME NEW t \in Treatments, Write(t) PROVE Views'
  <2>1. CASE Advance(t)
    BY <1>7, <2>1, AdvanceViews DEF Write, At
  <2>2. CASE ~Advance(t)
    <3>1. /\ UNCHANGED <<phase, done, looked>> /\ op' = "verify" /\ op = "write"
          /\ \E f : view' = [view EXCEPT ![f] = "mutated"]
      BY <1>7, <2>2 DEF Write, At
    <3>2. \A f \in looked : view[f] = "mutated" => view'[f] = "mutated"
      BY <3>1 DEF TypeOK, States
    <3> QED BY <3>1, <3>2, <1>0 DEF Views, Looking
  <2> QED BY <2>1, <2>2
<1>8. ASSUME NEW t \in Treatments, Verify(t) PROVE Views'
  <2>1. CASE End("refused")
    BY <1>8, <2>1, <1>2 DEF Verify, evidence
  <2>2. CASE ~End("refused")
    <3>1. PICK f : /\ view[f] = "mutated" /\ looked' = looked \cup {f} /\ UNCHANGED <<phase, done, view>>
                   /\ op = "verify" /\ op' = "write"
      BY <1>8, <2>2 DEF Verify, At
    <3> QED BY <3>1, <1>0 DEF Views, Looking
  <2> QED BY <2>1, <2>2
<1>9. CASE OperationFails
  BY <1>9, <1>2 DEF OperationFails, evidence
<1>10. CASE UNCHANGED <<work, index, snapshot>>
  <2>1. \A s : Watched(s)' = Watched(s)
    BY <1>10 DEF work, Watched, Role
  <2> QED BY <1>0, <1>10, <2>1 DEF work, Views, Looking
<1> QED
  BY <1>1, <1>3, <1>4, <1>5, <1>6, <1>7, <1>8, <1>9, <1>10 DEF Next, Lifecycle, Edit, vars, evidence

-----------------------------------------------------------------------------
(* What the copies hold.                                                   *)

\* Only the mutation writes; only its end makes a copy a mutated one.
LEMMA AdvanceWritten ==
  ASSUME TypeOK, Stages, Views, UNCHANGED controlled, NEW t \in Treatments, Turn(t), Advance(t),
         phase = "mutate" => op = "write" /\ controlled \subseteq looked
  PROVE  \A s \in Treatments, f \in Files : Written(s, f)' <=> Written(s, f)
<1> SUFFICES ASSUME NEW s \in Treatments, NEW f \in Files PROVE Written(s, f)' <=> Written(s, f)
  OBVIOUS
<1>1. ~Writing(s)'
  BY AdvanceStep, BeginsFacts DEF Writing, Advance, Begin
<1>2. CASE phase = "mutate" /\ s = t /\ f \in controlled
  <2>1. Written(s, f)
    BY <1>2 DEF Written, Writing, Views
  <2> QED BY <1>2, <2>1, AdvancePasses DEF Written
<1>3. CASE phase = "mutate" /\ s # t
  <2>1. ~Writing(s)
    BY <1>3, TurnUnique DEF Writing
  <2> QED BY <1>1, <1>3, <2>1, AdvancePasses DEF Written
<1>4. CASE phase # "mutate"
  BY <1>1, <1>4, AdvancePasses DEF Written, Writing
<1> QED BY <1>2, <1>3, <1>4 DEF Written

\* What a step that changes no copy has to leave alone.
LEMMA HoldsKept ==
  ASSUME Holds, UNCHANGED <<target, history, controlled>>,
         \A s \in Treatments : Created(s)' <=> Created(s),
         \A s \in Treatments, f \in Files : Written(s, f)' <=> Written(s, f)
  PROVE  Holds'
<1>1. /\ \A s \in Treatments, f \in Files : IsEdited(s, f)' <=> IsEdited(s, f)
      /\ \A f : Given(f)' = Given(f)
      /\ held' = held /\ repeated' = repeated /\ target' = target
  BY GivenKept DEF history, IsEdited
<1> QED BY <1>1 DEF Holds

\* Advancing changes no copy.
LEMMA HoldsAdvance ==
  ASSUME TypeOK, Stages, Views, Holds, UNCHANGED <<target, history, controlled>>, phase # "create",
         NEW t \in Treatments, Turn(t), Advance(t),
         phase = "mutate" => op = "write" /\ controlled \subseteq looked
  PROVE  Holds'
<1>1. \A s \in Treatments : Created(s)' <=> Created(s)
  BY AdvancePasses
<1> QED BY <1>1, AdvanceWritten, HoldsKept

\* Nor does any other step within a phase, as long as what was written is known as such.
LEMMA HoldsWithin ==
  ASSUME Holds, UNCHANGED <<target, history, controlled, phase, done>>,
         \A s \in Treatments, f \in controlled :
           phase = "mutate" /\ Turn(s) =>
             (op' \in {"write", "verify"} /\ view'[f] = "mutated") = (op \in {"write", "verify"} /\ view[f] = "mutated")
  PROVE  Holds'
<1>1. \A s \in Treatments : (Created(s)' <=> Created(s)) /\ (IsMutated(s)' <=> IsMutated(s)) /\ (Turn(s)' <=> Turn(s))
  BY DEF Created, IsMutated, Turn
<1>2. \A s \in Treatments, f \in Files : Written(s, f)' <=> Written(s, f)
  BY <1>1 DEF Written, Writing
<1> QED BY <1>1, <1>2, HoldsKept

\* The benchmark has the controlled files.
LEMMA BenchmarkControlled == TypeOK => \A f \in controlled : f \in Files /\ Benchmark[f] = "original"
BY FilesDisjoint, ScenariosChange, StatesFacts DEF Files, TypeOK

\* Every action keeps what a copy holds.
LEMMA NextHolds == TypeOK /\ Held /\ Stages /\ Views /\ Holds /\ [Next]_vars => Holds'
<1> SUFFICES ASSUME TypeOK, Held, Stages, Views, Holds, [Next]_vars PROVE Holds'
  OBVIOUS
<1>1. ASSUME NEW t \in Treatments, Look(t) PROVE Holds'
  <2>1. phase # "mutate"
    BY <1>1 DEF Look, Stages
  <2> QED BY <1>1, <2>1, HoldsWithin DEF Look
<1>2. ASSUME NEW t \in Treatments, Create(t) PROVE Holds'
  <2>1. phase = "create" /\ Turn(t) /\ Advance(t) /\ t \notin done
    BY <1>2 DEF Create, At, Stages, Turn, TypeOK, Phases
  <2>2. \A s \in Treatments : Created(s)' <=> (Created(s) \/ s = t)
    BY <2>1, AdvancePasses
  <2>3. \A s \in Treatments, f \in Files : ~Written(s, f)' /\ ~Written(s, f)
    BY <1>2, <2>1, AdvanceWritten DEF Create, Written, Writing, IsMutated
  <2>4. \A f \in Files \ repeated : ~IsEdited(t, f)
    BY <2>1 DEF Holds, Created
  <2>5. \A s \in Treatments : target'[s] = IF s = t THEN Benchmark ELSE target[s]
    BY <1>2 DEF Create, TypeOK
  <2>6. /\ \A s \in Treatments, f \in Files : IsEdited(s, f)' <=> IsEdited(s, f)
        /\ repeated' = repeated /\ held' = held /\ \A f : Given(f)' = Given(f)
    BY <1>2, GivenKept DEF Create, IsEdited, history
  <2> QED BY <2>2, <2>3, <2>4, <2>5, <2>6 DEF Holds
<1>3. ASSUME NEW t \in Treatments, Capture(t) \/ Clone(t) \/ AssessBaseline(t) \/ AssessRefreshed(t) \/ Index(t) \/ Snapshot(t)
      PROVE  Holds'
  <2>1. /\ phase \notin {"create", "mutate"} /\ Turn(t) /\ UNCHANGED <<target, history, controlled>>
        /\ Advance(t) \/ UNCHANGED <<phase, done>>
    <3>1. CASE Capture(t)
      BY <3>1 DEF Capture, AdvanceIf, End, work, Stages, Looked, At
    <3>2. CASE Clone(t)
      BY <3>2 DEF Clone, Stages, At
    <3>3. CASE AssessBaseline(t)
      BY <3>3 DEF AssessBaseline, AdvanceIf, End, work, Looked, At
    <3>4. CASE AssessRefreshed(t)
      BY <3>4 DEF AssessRefreshed, End, work, Looked, At
    <3>5. CASE Index(t)
      BY <3>5 DEF Index, Then, Stages, Looked, At
    <3>6. CASE Snapshot(t)
      BY <3>6 DEF Snapshot, Then, End, work, Stages, Looked, At
    <3> QED BY <1>3, <3>1, <3>2, <3>3, <3>4, <3>5, <3>6
  <2> QED BY <2>1, HoldsAdvance, HoldsWithin
<1>4. ASSUME NEW t \in Treatments, Validate(t) PROVE Holds'
  <2>1. /\ UNCHANGED <<target, history, controlled, phase, done>> /\ op = "validate"
        /\ op' = "validate" \/ view' = Nothing
    BY <1>4 DEF Validate, At, Then, Begin, End, work
  <2> QED BY <2>1, HoldsWithin, StatesFacts, BenchmarkControlled
<1>5. ASSUME NEW t \in Treatments, Write(t) PROVE Holds'
  <2>1. phase = "mutate" /\ op = "write" /\ Turn(t) /\ UNCHANGED <<history, controlled>>
    BY <1>5 DEF Write, At, Stages, TypeOK, Phases
  <2>2. CASE controlled \subseteq looked /\ Advance(t) /\ UNCHANGED target
    BY <2>1, <2>2, HoldsAdvance
  <2>3. CASE ~(controlled \subseteq looked /\ Advance(t) /\ UNCHANGED target)
    <3>1. PICK f \in controlled \ looked :
            /\ target' = [target EXCEPT ![t][f] = "mutated"] /\ view' = [view EXCEPT ![f] = "mutated"]
            /\ op' = "verify" /\ UNCHANGED <<phase, done>>
      BY <1>5, <2>3 DEF Write
    <3>2. \A s \in Treatments : /\ (Created(s)' <=> Created(s)) /\ (IsMutated(s)' <=> IsMutated(s))
                                /\ (Writing(s)' <=> Writing(s)) /\ (Writing(s) <=> s = t)
      BY <2>1, <3>1, TurnUnique DEF Created, IsMutated, Writing, Turn
    <3>3. \A g \in Files : view'[g] = IF g = f THEN "mutated" ELSE view[g]
      BY <3>1 DEF TypeOK, States
    <3>4. \A s \in Treatments, g \in Files : Written(s, g)' <=> (Written(s, g) \/ (s = t /\ g = f))
      BY <2>1, <3>1, <3>2, <3>3 DEF Written
    <3>5. \A s \in Treatments, g \in Files : target'[s][g] = IF s = t /\ g = f THEN "mutated" ELSE target[s][g]
      BY <3>1 DEF TypeOK, States
    <3>6. /\ \A s \in Treatments, g \in Files : IsEdited(s, g)' <=> IsEdited(s, g)
          /\ repeated' = repeated /\ held' = held /\ \A g : Given(g)' = Given(g)
      BY <2>1, GivenKept DEF IsEdited, history
    <3> SUFFICES ASSUME NEW s \in Treatments, NEW g \in Files \ repeated
                 PROVE  /\ IsEdited(s, g)' => Created(s)'
                        /\ Created(s)' =>
                             IF IsEdited(s, g)'
                             THEN \/ target'[s][g] \in held[s][g] \ Given(g)
                                  \/ Written(s, g)' /\ target'[s][g] = "mutated"
                             ELSE target'[s][g] = IF Written(s, g)' THEN "mutated" ELSE Benchmark[g]
      BY <3>6 DEF Holds
    <3>7. CASE s = t /\ g = f
      BY <3>7, <3>2, <3>4, <3>5, <3>6 DEF Holds
    <3>8. CASE ~(s = t /\ g = f)
      <4>1. target'[s][g] = target[s][g] /\ (Written(s, g)' <=> Written(s, g))
        BY <3>8, <3>4, <3>5
      <4> QED BY <4>1, <3>2, <3>6 DEF Holds
    <3> QED BY <3>7, <3>8
  <2> QED BY <2>2, <2>3
<1>6. ASSUME NEW t \in Treatments, Verify(t) PROVE Holds'
  <2>1. /\ UNCHANGED <<target, history, controlled, phase, done, view>> /\ op = "verify" /\ op' \in {"write", "verify"}
    BY <1>6 DEF Verify, At, End, work
  <2> QED BY <2>1, HoldsWithin
<1>7. CASE OperationFails \/ UNCHANGED vars
  BY <1>7, HoldsWithin DEF OperationFails, End, work, vars
<1>8. ASSUME NEW t \in Treatments, NEW f \in Files, Edit(t, f) PROVE Holds'
  <2>1. PICK x \in Contents \ {target[t][f]} :
          /\ \A s \in Treatments, g \in Files :
               /\ target'[s][g] = IF s = t /\ g = f THEN x ELSE target[s][g]
               /\ held'[s][g] = IF s = t /\ g = f THEN held[s][g] \cup {x} ELSE held[s][g]
          /\ repeated \subseteq repeated' /\ repeated' \subseteq repeated \cup {f}
          /\ f \notin repeated' => x \notin held[t][f] /\ \A s \in Treatments : x \in held[s][f] => x = "absent"
    BY <1>8, EditHeld
  <2>2. Created(t) /\ UNCHANGED <<work, controlled>>
    BY <1>8 DEF Edit, Created
  <2>3. \A s \in Treatments : Created(s)' <=> Created(s)
    BY <2>2 DEF Created, work
  <2>4. \A s \in Treatments, g \in Files : Written(s, g)' <=> Written(s, g)
    BY <2>2 DEF Written, Writing, IsMutated, Turn, work
  <2>5. \A g : Given(g)' = Given(g)
    BY <2>2, GivenKept
  <2> SUFFICES ASSUME NEW s \in Treatments, NEW g \in Files, g \notin repeated'
               PROVE  /\ IsEdited(s, g)' => Created(s)
                      /\ Created(s) =>
                           IF IsEdited(s, g)'
                           THEN \/ target'[s][g] \in held'[s][g] \ Given(g)
                                \/ Written(s, g) /\ target'[s][g] = "mutated"
                           ELSE target'[s][g] = IF Written(s, g) THEN "mutated" ELSE Benchmark[g]
    BY <2>3, <2>4, <2>5 DEF Holds
  <2>6. g \notin repeated
    BY <2>1
  <2>7. CASE s = t /\ g = f
    <3>0. x \notin held[t][f] /\ x \in held'[t][f] /\ Given(f) \subseteq held[t][f]
      BY <2>1, <2>7 DEF Held
    <3>1. x \notin Given(f) /\ held'[t][f] # Given(f)
      BY <3>0
    <3> QED BY <2>1, <2>2, <2>5, <2>7, <3>1 DEF IsEdited
  <2>8. CASE ~(s = t /\ g = f)
    <3>1. (IsEdited(s, g)' <=> IsEdited(s, g)) /\ target'[s][g] = target[s][g] /\ held'[s][g] = held[s][g]
      BY <2>1, <2>5, <2>6, <2>8 DEF IsEdited
    <3> QED BY <2>6, <3>1 DEF Holds
  <2> QED BY <2>7, <2>8
<1> QED
  BY <1>1, <1>2, <1>3, <1>4, <1>5, <1>6, <1>7, <1>8 DEF Next, Lifecycle

-----------------------------------------------------------------------------
(* The steps of each phase.                                                *)

\* What may happen in any phase.
Interrupts == OperationFails \/ (\E t \in Treatments, f \in Files : Edit(t, f)) \/ UNCHANGED vars

LEMMA PhaseSteps ==
  ASSUME TypeOK, Stages, [Next]_vars
  PROVE  \/ Interrupts
         \/ \E t \in Treatments :
              \/ phase = "create" /\ Create(t)
              \/ phase \in {"pre", "post"} /\ (Look(t) \/ Capture(t))
              \/ phase = "baseline" /\ (Look(t) \/ Index(t) \/ Snapshot(t))
              \/ phase = "clone" /\ Clone(t)
              \/ phase = "mutate" /\ (Validate(t) \/ Write(t) \/ Verify(t))
              \/ phase = "assess" /\ (Look(t) \/ AssessBaseline(t))
              \/ phase = "refresh" /\ (Look(t) \/ Index(t) \/ Snapshot(t) \/ AssessRefreshed(t))
<1> SUFFICES ASSUME ~Interrupts
             PROVE  \E t \in Treatments :
                      \/ phase = "create" /\ Create(t)
                      \/ phase \in {"pre", "post"} /\ (Look(t) \/ Capture(t))
                      \/ phase = "baseline" /\ (Look(t) \/ Index(t) \/ Snapshot(t))
                      \/ phase = "clone" /\ Clone(t)
                      \/ phase = "mutate" /\ (Validate(t) \/ Write(t) \/ Verify(t))
                      \/ phase = "assess" /\ (Look(t) \/ AssessBaseline(t))
                      \/ phase = "refresh" /\ (Look(t) \/ Index(t) \/ Snapshot(t) \/ AssessRefreshed(t))
  OBVIOUS
<1>1. PICK t \in Treatments :
        \/ Look(t) \/ Create(t) \/ Capture(t) \/ Index(t) \/ Snapshot(t) \/ Clone(t)
        \/ Validate(t) \/ Write(t) \/ Verify(t) \/ AssessBaseline(t) \/ AssessRefreshed(t)
  BY DEF Interrupts, Next, Lifecycle
<1>2. /\ Look(t) => op \in {"capture", "index", "snapshot", "assess"}
      /\ Create(t) => op = "create"
      /\ Capture(t) => op = "capture"
      /\ Index(t) => op = "index"
      /\ Snapshot(t) => op = "snapshot"
      /\ Clone(t) => op = "clone"
      /\ Validate(t) => op = "validate"
      /\ Write(t) => op = "write"
      /\ Verify(t) => op = "verify"
      /\ AssessBaseline(t) => phase = "assess"
      /\ AssessRefreshed(t) => phase = "refresh"
  BY DEF Look, Create, Capture, Index, Snapshot, Clone, Validate, Write, Verify, AssessBaseline, AssessRefreshed, Looked, At
<1>3. phase \in Phases
  BY DEF TypeOK
<1> QED BY <1>1, <1>2, <1>3 DEF Stages, Phases

\* Which phase is over is decided by Advance alone; the next one begins with nothing done or seen.
LEMMA PhaseChange ==
  ASSUME TypeOK, [Next]_vars, phase' # phase
  PROVE  /\ \E t \in Treatments : Turn(t) /\ Advance(t)
         /\ phase' = After(phase) /\ done' = {} /\ looked' = {} /\ op' = Begins(phase')
<1>1. \E t \in Treatments : Turn(t) /\ Advance(t)
  BY DEF Next, Lifecycle, Look, Create, Capture, Index, Snapshot, Clone, Validate, Write, Verify, AssessBaseline,
         AssessRefreshed, AdvanceIf, OperationFails, Edit, End, Then, work, vars, Looked, At
<1> QED BY <1>1 DEF Advance, Begin

\* The baselines are not touched after their phase.
LEMMA BaselineKept ==
  ASSUME TypeOK, Stages, [Next]_vars, phase # "baseline"
  PROVE  index'["baseline"] = index["baseline"] /\ snapshot'["baseline"] = snapshot["baseline"]
<1>1. ASSUME NEW t \in Treatments, Clone(t) PROVE index'["baseline"] = index["baseline"] /\ UNCHANGED snapshot
  BY <1>1, RolesFacts DEF Clone, TypeOK
<1>2. ASSUME NEW t \in Treatments, phase = "refresh", Index(t) \/ Snapshot(t)
      PROVE  index'["baseline"] = index["baseline"] /\ snapshot'["baseline"] = snapshot["baseline"]
  <2>1. Role = "refreshed"
    BY <1>2 DEF Role
  <2> QED BY <1>2, <2>1, RolesFacts DEF Index, Snapshot, TypeOK
<1> QED
  BY <1>1, <1>2, PhaseSteps
     DEF Interrupts, OperationFails, Edit, vars, evidence, Create, Look, Capture, Validate, Write, Verify,
         AssessBaseline, AssessRefreshed

LEMMA TurnKept == UNCHANGED <<phase, done>> => \A t : Turn(t)' <=> Turn(t)
BY DEF Turn

\* Before the mutation a file that was not edited is as in the benchmark.
LEMMA LookBenchmark ==
  ASSUME Holds, phase \in {"pre", "baseline"}, NEW t \in Treatments, NEW f \in Files, ~IsEdited(t, f)
  PROVE  target[t][f] = Benchmark[f]
BY DEF Holds, Created, Written, Writing, IsMutated, IsEdited

\* After it, it is what the mutation made of it.
LEMMA LookMutation ==
  ASSUME Holds, phase \in {"post", "assess", "refresh"}, NEW t \in Treatments, NEW f \in Files \ repeated
  PROVE  IF IsEdited(t, f) THEN target[t][f] \in held[t][f] \ Given(f) \/ (f \in controlled /\ target[t][f] = "mutated")
         ELSE target[t][f] = Mutation(f)
BY DEF Holds, Created, Written, IsMutated, Mutation

\* At any time it is something it has held.
LEMMA LookHeld ==
  ASSUME Holds, Held, NEW t \in Treatments, Created(t), NEW f \in Files \ repeated
  PROVE  target[t][f] \in held[t][f]
<1>1. Given(f) \subseteq held[t][f] /\ Benchmark[f] \in Given(f)
  BY GivenFacts DEF Held
<1>2. Written(t, f) => "mutated" \in Given(f)
  BY GivenFacts DEF Written
<1> QED BY <1>1, <1>2 DEF Holds

\* A look at one file adds it to what the current treatment saw.
LEMMA LookStep ==
  ASSUME TypeOK, NEW t \in Treatments, Look(t)
  PROVE  /\ UNCHANGED <<phase, done, op, target, pre, post, index, snapshot, assessed, controlled, edits, held, repeated, unseen>>
         /\ Turn(t)
         /\ \A s \in Treatments : Turn(s)' <=> s = t
         /\ looked' \subseteq Files
         /\ \A f \in looked' : view'[f] = target[t][f] \/ (f \in looked /\ view'[f] = view[f])
<1>1. PICK f \in Watched(t) \ looked : looked' = looked \cup {f} /\ view' = [view EXCEPT ![f] = target[t][f]]
  BY DEF Look
<1>2. \A g \in looked : view'[g] = view[g]
  BY <1>1 DEF TypeOK, States
<1>3. f \in Files
  BY DEF Look, Watched, Present
<1>4. view'[f] = target[t][f]
  BY <1>1, <1>3 DEF TypeOK, States
<1> QED BY <1>1, <1>2, <1>3, <1>4, TurnKept, TurnUnique DEF Look, evidence, history, TypeOK

-----------------------------------------------------------------------------
(* What was seen before the mutation.                                      *)

\* Every action keeps what the pre-mutation capture saw.
LEMMA NextPre == TypeOK /\ Held /\ Stages /\ Views /\ Holds /\ Pre /\ [Next]_vars => Pre'
<1> SUFFICES ASSUME TypeOK, Held, Stages, Views, Holds, Pre, [Next]_vars, phase' = "pre" PROVE Pre'
  BY DEF Pre
<1>1. CASE phase # "pre"
  BY <1>1, PhaseChange DEF Pre
<1>2. CASE phase = "pre"
  <2>1. \A s \in Treatments, f \in Files : IsEdited(s, f) => IsEdited(s, f)'
    BY EditedGrows
  <2>2. ASSUME UNCHANGED <<work, pre>> PROVE Pre'
    BY <1>2, <2>1, <2>2, TurnKept DEF Pre, work
  <2>3. ASSUME NEW t \in Treatments, Look(t) PROVE Pre'
    BY <1>2, <2>1, <2>3, LookStep, LookBenchmark DEF Pre
  <2>4. ASSUME NEW t \in Treatments, Capture(t) PROVE Pre'
    <3>1. /\ pre' = [pre EXCEPT ![t] = view] /\ Files \subseteq looked /\ Turn(t) /\ t \notin done
          /\ Advance(t) \/ UNCHANGED work
      BY <1>2, <2>4 DEF Capture, AdvanceIf, End, Looked, At, Watched, Turn
    <3>2. CASE Advance(t)
      BY <1>2, <2>1, <3>1, <3>2, AdvanceStep DEF Pre, TypeOK
    <3>3. CASE UNCHANGED work
      BY <1>2, <2>1, <3>1, <3>3, TurnKept, TurnUnique DEF Pre, TypeOK, work, Turn
    <3> QED BY <3>1, <3>2, <3>3
  <2> QED
    BY <1>2, <2>2, <2>3, <2>4, PhaseSteps DEF Interrupts, OperationFails, End, Edit, vars, evidence
<1> QED BY <1>1, <1>2

\* Every action keeps what the baseline snapshot saw.
LEMMA NextBaseline == TypeOK /\ Held /\ Stages /\ Views /\ Holds /\ Baseline /\ [Next]_vars => Baseline'
<1> SUFFICES ASSUME TypeOK, Held, Stages, Views, Holds, Baseline, [Next]_vars PROVE Baseline'
  OBVIOUS
<1>1. /\ \A s \in Treatments, f \in Files : held[s][f] \subseteq held'[s][f] /\ (IsEdited(s, f) => IsEdited(s, f)')
      /\ repeated \subseteq repeated'
  BY EditedGrows
<1>2. CASE phase # "baseline" /\ phase' # "baseline"
  <2>1. \A s \in Treatments : Baselined(s)' => Baselined(s)
    BY <1>2, PhaseChange, AfterFacts DEF Baselined, TypeOK, Phases
  <2> QED BY <1>1, <1>2, <2>1, BaselineKept DEF Baseline, AsBenchmark
<1>3. CASE phase # "baseline" /\ phase' = "baseline"
  BY <1>3, PhaseChange, BeginsFacts DEF Baseline, Baselined
<1>4. CASE phase = "baseline"
  <2>1. ASSUME UNCHANGED <<work, index, snapshot>> PROVE Baseline'
    <3>1. \A s : Baselined(s)' <=> Baselined(s)
      BY <2>1 DEF Baselined, work
    <3> QED BY <1>1, <2>1, <3>1, TurnKept DEF Baseline, AsBenchmark, work
  <2>2. ASSUME NEW t \in Treatments, Look(t) PROVE Baseline'
    <3>1. \A s : Baselined(s)' <=> Baselined(s)
      BY <2>2, LookStep DEF Baselined
    <3> QED BY <1>1, <1>4, <2>2, <3>1, LookStep, LookBenchmark, LookHeld DEF Baseline, AsBenchmark, Created
  <2>3. ASSUME NEW t \in Treatments, Index(t) PROVE Baseline'
    <3>1. /\ Turn(t) /\ Files \subseteq looked /\ UNCHANGED <<phase, done, snapshot>>
          /\ op' = "snapshot" /\ looked' = {}
          /\ \A s \in Treatments : index'["baseline"][s] = IF s = t THEN view ELSE index["baseline"][s]
      BY <1>4, <2>3, RolesFacts DEF Index, Looked, At, Watched, Then, Begin, Role, TypeOK
    <3>2. \A s : Baselined(s)' <=> Baselined(s)
      BY <3>1 DEF Baselined
    <3>3. ~Baselined(t)
      BY <1>4, <3>1 DEF Baselined, Turn
    <3> QED BY <1>1, <1>4, <3>1, <3>2, <3>3, TurnKept, TurnUnique DEF Baseline, AsBenchmark
  <2>4. ASSUME NEW t \in Treatments, Snapshot(t) PROVE Baseline'
    <3>1. /\ Turn(t) /\ Present(index["baseline"][t]) \subseteq looked /\ UNCHANGED index /\ op = "snapshot"
          /\ \A s \in Treatments : snapshot'["baseline"][s] = IF s = t THEN view ELSE snapshot["baseline"][s]
          /\ UNCHANGED work \/ (Present(view) = Present(index["baseline"][t]) /\ Advance(t))
      BY <1>4, <2>4, RolesFacts DEF Snapshot, Looked, At, Watched, End, Role, TypeOK
    <3>2. ~Baselined(t)
      BY <1>4, <3>1 DEF Baselined, Turn
    <3>3. CASE UNCHANGED work
      <4>1. \A s : Baselined(s)' <=> Baselined(s)
        BY <3>3 DEF Baselined, work
      <4> QED BY <1>1, <1>4, <3>1, <3>2, <3>3, <4>1, TurnKept DEF Baseline, AsBenchmark, work
    <3>4. CASE Present(view) = Present(index["baseline"][t]) /\ Advance(t)
      <4>1. \A s \in Treatments : Baselined(s)' <=> (Baselined(s) \/ s = t)
        BY <1>4, <3>1, <3>4, AdvancePasses
      <4>2. \A f \in Files : ~IsEdited(t, f) => view[f] = Benchmark[f] /\ index["baseline"][t][f] = Benchmark[f]
        BY <1>4, <3>1 DEF Baseline, Present, Views, Looking, Watched, Role
      <4>3. \A f \in Files \ repeated : view[f] \in held[t][f] \cup {"absent"}
        BY <1>4, <3>1 DEF Baseline, Views, Looking
      <4>4. looked' = {} /\ (phase' = "baseline" => op' = "index")
        BY <3>1, <3>4, AdvanceStep, BeginsFacts DEF Advance, Begin
      <4> QED BY <1>1, <3>1, <3>4, <4>1, <4>2, <4>3, <4>4 DEF Baseline, AsBenchmark
    <3> QED BY <3>1, <3>3, <3>4
  <2> QED
    BY <1>4, <2>1, <2>2, <2>3, <2>4, PhaseSteps DEF Interrupts, OperationFails, End, Edit, vars, evidence
<1> QED BY <1>2, <1>3, <1>4

\* Every action keeps what the mutation validated.
LEMMA NextValidated ==
  TypeOK /\ Held /\ Stages /\ Views /\ Holds /\ Baseline /\ Validated /\ [Next]_vars => Validated'
<1> SUFFICES ASSUME TypeOK, Held, Stages, Views, Holds, Baseline, Validated, [Next]_vars PROVE Validated'
  OBVIOUS
<1>0. controlled' = controlled /\ repeated \subseteq repeated'
  BY EditedGrows
<1>1. phase # "baseline" => \A s, f : AsBenchmark(s, f)' <=> AsBenchmark(s, f)
  BY BaselineKept DEF AsBenchmark
<1>2. CASE phase \notin {"mutate", "post", "assess", "refresh"}
  <2>1. phase' \notin {"post", "assess", "refresh"} /\ (phase' = "mutate" => done' = {} /\ looked' = {} /\ op' = "validate")
    BY <1>2, PhaseChange, AfterFacts, BeginsFacts DEF TypeOK, Phases
  <2> QED BY <2>1 DEF Validated, IsMutated, Writing
<1>3. CASE phase \in {"post", "assess", "refresh"}
  <2>1. phase' \in {"post", "assess", "refresh"}
    BY <1>3, PhaseChange, AfterFacts
  <2> QED BY <1>0, <1>1, <1>3 DEF Validated, IsMutated
<1>4. CASE phase = "mutate"
  <2>1. ASSUME UNCHANGED work PROVE Validated'
    BY <1>0, <1>1, <1>4, <2>1, TurnKept DEF Validated, IsMutated, Writing, work
  <2>2. ASSUME NEW t \in Treatments, Validate(t) PROVE Validated'
    <3>1. Turn(t) /\ op = "validate" /\ UNCHANGED <<phase, done>>
      BY <2>2 DEF Validate, At, Then, End, work
    <3>2. CASE End("refused")
      BY <2>1, <3>2 DEF End
    <3>3. CASE controlled \subseteq looked
      BY <1>0, <1>1, <1>4, <3>1, <3>3, TurnKept, TurnUnique DEF Validated, IsMutated, Writing
    <3>4. ASSUME NEW f \in controlled, f \in repeated \/ target[t][f] = "original", looked' = looked \cup {f}, UNCHANGED op PROVE Validated'
      <4>0. f \in Files /\ Benchmark[f] = "original" /\ "original" \in Given(f)
        BY BenchmarkControlled, GivenFacts
      <4>1. f \notin repeated => ~IsEdited(t, f)
        BY <1>4, <3>4, <4>0 DEF Holds, Created
      <4>2. f \notin repeated => AsBenchmark(t, f)
        BY <1>4, <4>0, <4>1 DEF Baseline, Baselined
      <4> QED BY <1>0, <1>1, <1>4, <3>1, <3>4, <4>2, TurnKept, TurnUnique DEF Validated, IsMutated, Writing
    <3> QED BY <2>2, <3>2, <3>3, <3>4 DEF Validate
  <2>3. ASSUME NEW t \in Treatments, Write(t) \/ Verify(t) PROVE Validated'
    <3>1. Turn(t) /\ op \in {"write", "verify"}
      BY <2>3 DEF Write, Verify, At
    <3>2. CASE Advance(t)
      <4>1. \A s \in Treatments : IsMutated(s)' <=> (IsMutated(s) \/ s = t)
        BY <1>4, <3>1, <3>2, AdvancePasses
      <4>2. looked' = {} /\ op' \notin {"write", "verify"}
        BY <1>4, <3>1, <3>2, AdvanceStep, AfterFacts, BeginsFacts DEF Advance, Begin
      <4> QED BY <1>0, <1>1, <1>4, <3>1, <4>1, <4>2 DEF Validated, Writing
    <3>3. CASE ~Advance(t)
      <4>1. UNCHANGED <<phase, done>> /\ op' \in {"write", "verify"}
        BY <2>3, <3>1, <3>3 DEF Write, Verify, End, work
      <4> QED BY <1>0, <1>1, <1>4, <3>1, <4>1, TurnKept, TurnUnique DEF Validated, IsMutated, Writing
    <3> QED BY <3>2, <3>3
  <2> QED
    BY <1>4, <2>1, <2>2, <2>3, PhaseSteps DEF Interrupts, OperationFails, End, Edit, vars
<1> QED BY <1>2, <1>3, <1>4

-----------------------------------------------------------------------------
(* What was seen after it.                                                 *)

\* Edits are the only changes of a copy after the mutation; one puts in the file what was never in it.
LEMMA EditSeen ==
  ASSUME TypeOK, NEW t \in Treatments, NEW f \in Files, Edit(t, f)
  PROVE  /\ UNCHANGED <<work, evidence, controlled>> /\ repeated \subseteq repeated'
         /\ \A s \in Treatments, g \in Files :
              s # t \/ g # f => /\ target'[s][g] = target[s][g] /\ held'[s][g] = held[s][g]
                                /\ (<<s, g>> \in unseen' <=> <<s, g>> \in unseen)
         /\ f \notin repeated' => target'[t][f] \notin held[t][f]
         /\ Unseen(t, f) => <<t, f>> \in unseen'
<1>1. PICK x \in Contents \ {target[t][f]} :
        /\ \A s \in Treatments, g \in Files :
             /\ target'[s][g] = IF s = t /\ g = f THEN x ELSE target[s][g]
             /\ held'[s][g] = IF s = t /\ g = f THEN held[s][g] \cup {x} ELSE held[s][g]
        /\ repeated \subseteq repeated' /\ repeated' \subseteq repeated \cup {f}
        /\ f \notin repeated' => x \notin held[t][f] /\ \A s \in Treatments : x \in held[s][f] => x = "absent"
  BY EditHeld
<1> QED BY <1>1 DEF Edit

\* An edit keeps what the post-mutation capture saw.
LEMMA PostSawEdit ==
  ASSUME TypeOK, NEW t \in Treatments, NEW f \in Files, Edit(t, f), NEW s \in Treatments, NEW g \in Files, NEW x,
         Held, Baseline, PostSaw(s, g, x), Captured(s) \/ (phase = "post" /\ Turn(s) /\ g \in looked)
  PROVE  PostSaw(s, g, x)'
<1>1. /\ UNCHANGED <<index, snapshot, controlled>> /\ (AsBenchmark(s, g)' <=> AsBenchmark(s, g))
      /\ Mutation(g)' = Mutation(g)
  BY EditSeen, GivenKept DEF evidence, AsBenchmark
<1>2. held[s][g] \subseteq held'[s][g] /\ (IsEdited(s, g) => IsEdited(s, g)') /\ repeated \subseteq repeated'
  BY EditedGrows DEF Next
<1>3. CASE s = t /\ g = f
  <2>1. snapshot["baseline"][s][g] = "absent" => Unseen(s, g)
    BY DEF Unseen, Captured
  <2>2. g \notin repeated => snapshot["baseline"][s][g] \in held[s][g] \cup {"absent"}
    BY DEF Baseline, Baselined, Captured
  <2> QED BY <1>1, <1>2, <1>3, <2>1, <2>2, EditSeen DEF PostSaw
<1>4. CASE ~(s = t /\ g = f)
  BY <1>1, <1>2, <1>4, EditSeen DEF PostSaw
<1> QED BY <1>3, <1>4

LEMMA PostSawKept ==
  ASSUME TypeOK, Stages, [Next]_vars, UNCHANGED <<target, history, controlled>>, phase # "baseline",
         NEW s \in Treatments, NEW g \in Files, NEW x, PostSaw(s, g, x)
  PROVE  PostSaw(s, g, x)'
BY BaselineKept, GivenKept DEF PostSaw, AsBenchmark, IsEdited, history

\* A look adds what the capture finds.
LEMMA PostSawLook ==
  ASSUME Held, Holds, Baseline, phase = "post", NEW t \in Treatments, NEW f \in Files
  PROVE  PostSaw(t, f, target[t][f])
<1>1. ~IsEdited(t, f) => AsBenchmark(t, f)
  BY DEF Baseline, Baselined
<1>2. Mutation(f) \in Given(f)
  BY GivenFacts
<1>3. f \notin repeated => target[t][f] \in held[t][f]
  BY LookHeld DEF Created
<1> QED BY <1>1, <1>2, <1>3, LookMutation DEF PostSaw

\* Every action keeps what the post-mutation capture saw.
LEMMA NextPost ==
  TypeOK /\ Held /\ Stages /\ Views /\ Holds /\ Baseline /\ Post /\ [Next]_vars => Post'
<1> SUFFICES ASSUME TypeOK, Held, Stages, Views, Holds, Baseline, Post, [Next]_vars PROVE Post'
  OBVIOUS
<1>1. ASSUME NEW t \in Treatments, NEW f \in Files, Edit(t, f) PROVE Post'
  <2>1. UNCHANGED <<work, evidence>>
    BY <1>1, EditSeen
  <2>2. \A s : (Turn(s)' <=> Turn(s)) /\ (Captured(s)' <=> Captured(s))
    BY <2>1, TurnKept DEF work, Captured
  <2>3. SUFFICES ASSUME NEW s \in Treatments, NEW g \in Files
                 PROVE  /\ (phase = "post" /\ Turn(s) /\ g \in looked) => PostSaw(s, g, view[g])'
                        /\ Captured(s) => PostSaw(s, g, post[s][g])'
    BY <2>1, <2>2 DEF Post, work, evidence, PostSaw
  <2>4. ASSUME phase = "post", Turn(s), g \in looked PROVE PostSaw(s, g, view[g])'
    <3>1. PICK x : x = view[g]
      OBVIOUS
    <3>2. PostSaw(s, g, x)'
      BY <1>1, <2>4, <3>1, PostSawEdit DEF Post
    <3> QED BY <2>1, <3>1, <3>2 DEF PostSaw, work
  <2>5. ASSUME Captured(s) PROVE PostSaw(s, g, post[s][g])'
    <3>1. PICK x : x = post[s][g]
      OBVIOUS
    <3>2. PostSaw(s, g, x)'
      BY <1>1, <2>5, <3>1, PostSawEdit DEF Post
    <3> QED BY <2>1, <3>1, <3>2 DEF PostSaw, evidence
  <2> QED BY <2>4, <2>5
<1>2. CASE phase \notin {"post", "assess", "refresh"}
  <2>1. phase' \notin {"assess", "refresh"} /\ (phase' = "post" => done' = {} /\ looked' = {})
    BY <1>2, PhaseChange, AfterFacts DEF TypeOK, Phases
  <2> QED BY <2>1 DEF Post, Captured
<1>3. CASE phase \in {"assess", "refresh"} /\ UNCHANGED <<target, history, controlled, post>>
  <2>1. phase' \in {"assess", "refresh"}
    BY <1>3, PhaseChange, AfterFacts
  <2>2. \A s \in Treatments, f \in Files : PostSaw(s, f, post[s][f])'
    <3> SUFFICES ASSUME NEW s \in Treatments, NEW f \in Files, NEW x, x = post[s][f] PROVE PostSaw(s, f, post[s][f])'
      OBVIOUS
    <3>1. PostSaw(s, f, x)'
      BY <1>3, PostSawKept DEF Post, Captured
    <3> QED BY <1>3, <3>1 DEF PostSaw
  <2> QED BY <2>1, <2>2 DEF Post
<1>4. CASE phase = "post" /\ UNCHANGED <<work, target, history, controlled, post, index, snapshot>>
  <2>1. \A s : (Turn(s)' <=> Turn(s)) /\ (Captured(s)' <=> Captured(s))
    BY <1>4, TurnKept DEF work, Captured
  <2>2. \A s, f, x : PostSaw(s, f, x)' <=> PostSaw(s, f, x)
    BY <1>4, GivenKept DEF PostSaw, AsBenchmark, IsEdited, history
  <2>3. phase' = phase /\ looked' = looked /\ view' = view /\ post' = post
    BY <1>4 DEF work
  <2> QED BY <2>1, <2>2, <2>3 DEF Post
<1>5. ASSUME phase = "post", NEW t \in Treatments, Look(t) PROVE Post'
  <2>1. \A s \in Treatments : (Turn(s)' => s = t) /\ (Captured(s)' <=> Captured(s))
    BY <1>5, LookStep DEF Captured
  <2>2. \A f \in looked' : PostSaw(t, f, view'[f])
    BY <1>5, LookStep, PostSawLook DEF Post
  <2>3. \A f \in looked' : PostSaw(t, f, view[f])'
    BY <1>5, <2>2, LookStep, GivenKept DEF PostSaw, AsBenchmark, IsEdited, history
  <2>4. \A s \in Treatments, f \in Files : Captured(s) => PostSaw(s, f, post[s][f])'
    BY <1>5, LookStep, GivenKept DEF Post, PostSaw, AsBenchmark, IsEdited, history
  <2> QED BY <2>1, <2>3, <2>4 DEF Post
<1>6. ASSUME phase = "post", NEW t \in Treatments, Capture(t) PROVE Post'
  <2>1. /\ \A s \in Treatments : post'[s] = IF s = t THEN view ELSE post[s]
        /\ Files \subseteq looked /\ Turn(t) /\ t \notin done /\ UNCHANGED <<target, history, controlled, index, snapshot>>
        /\ Advance(t) \/ UNCHANGED work
    BY <1>6 DEF Capture, AdvanceIf, End, Looked, At, Watched, Turn, TypeOK
  <2>2. ASSUME NEW s \in Treatments, NEW f \in Files, s = t \/ Captured(s)
        PROVE  Captured(s) \/ Advance(t) => PostSaw(s, f, post[s][f])'
    <3>1. CASE s = t
      <4>1. ~Captured(s)
        BY <1>6, <2>1, <3>1 DEF Captured
      <4>2. PostSaw(t, f, view[f])
        BY <1>6, <2>1 DEF Post
      <4> QED BY <2>1, <3>1, <4>2, GivenKept DEF PostSaw, AsBenchmark, IsEdited, history
    <3>2. CASE s # t
      BY <2>1, <2>2, <3>2, GivenKept DEF Post, PostSaw, AsBenchmark, IsEdited, history
    <3> QED BY <3>1, <3>2
  <2>3. CASE Advance(t)
    <3>1. \A s \in Treatments : (Captured(s)' <=> (Captured(s) \/ s = t)) /\ looked' = {}
      BY <1>6, <2>1, <2>3, AdvancePasses, AdvanceStep
    <3> QED BY <2>2, <2>3, <3>1 DEF Post
  <2>4. CASE UNCHANGED work
    <3>1. \A s : (Turn(s)' <=> Turn(s)) /\ (Captured(s)' <=> Captured(s))
      BY <2>4, TurnKept DEF work, Captured
    <3>2. \A s \in Treatments, f \in Files : phase = "post" /\ Turn(s) /\ f \in looked => PostSaw(s, f, view[f])'
      BY <2>1, <2>4, GivenKept DEF Post, PostSaw, AsBenchmark, IsEdited, history, work
    <3> QED BY <2>2, <2>4, <3>1, <3>2 DEF Post, work
  <2> QED BY <2>1, <2>3, <2>4
<1>7. ASSUME phase \in {"assess", "refresh"}, ~Interrupts PROVE UNCHANGED <<target, history, controlled, post>>
  BY <1>7, PhaseSteps DEF Look, AssessBaseline, Index, Snapshot, AssessRefreshed, evidence
<1>8. OperationFails \/ UNCHANGED vars => UNCHANGED <<work, target, history, controlled, post, index, snapshot>>
  BY DEF OperationFails, End, vars, evidence
<1> QED
  BY <1>1, <1>2, <1>3, <1>4, <1>5, <1>6, <1>7, <1>8, PhaseSteps DEF Interrupts, TypeOK, Phases

\* Every action keeps the comparisons of the captures.
LEMMA NextPostMatched == TypeOK /\ Stages /\ PostMatched /\ [Next]_vars => PostMatched'
<1> SUFFICES ASSUME TypeOK, Stages, PostMatched, [Next]_vars, phase' \in {"assess", "refresh"} PROVE Equivalent(post)'
  BY DEF PostMatched
<1>1. CASE phase \in {"assess", "refresh"}
  <2>1. UNCHANGED post
    BY <1>1, PhaseSteps
       DEF Interrupts, OperationFails, Edit, vars, Look, AssessBaseline, Index, Snapshot, AssessRefreshed, evidence
  <2> QED BY <1>1, <2>1 DEF PostMatched, Equivalent
<1>2. CASE phase \notin {"assess", "refresh"}
  <2>1. phase = "post"
    BY <1>2, PhaseChange, AfterFacts DEF TypeOK, Phases
  <2>2. PICK t \in Treatments : Capture(t)
    BY <2>1, <1>2, PhaseSteps DEF Interrupts, OperationFails, End, Edit, vars, work, Look
  <2>3. Equivalent([post EXCEPT ![t] = view]) /\ post' = [post EXCEPT ![t] = view]
    BY <1>2, <2>1, <2>2 DEF Capture, AdvanceIf, Advance, End, work
  <2> QED BY <2>3 DEF Equivalent
<1> QED BY <1>1, <1>2

\* The same for the assessment of the baselines: whoever edits what was assessed is unseen.
LEMMA AssessSawEdit ==
  ASSUME TypeOK, NEW t \in Treatments, NEW f \in Files, Edit(t, f), NEW s \in Treatments, NEW g \in Files, NEW x,
         Held, AssessSaw(s, g, x), Assessed(s) \/ (phase = "assess" /\ Turn(s) /\ g \in looked)
  PROVE  AssessSaw(s, g, x)'
<1>1. UNCHANGED <<post, snapshot, controlled>> /\ repeated \subseteq repeated' /\ held[s][g] \subseteq held'[s][g]
  BY EditSeen, EditedGrows DEF evidence, Next
<1>2. CASE s = t /\ g = f
  <2>1. Unseen(s, g)
    BY DEF Unseen, Assessed
  <2> QED BY <1>1, <1>2, <2>1, EditSeen DEF AssessSaw
<1>3. CASE ~(s = t /\ g = f)
  BY <1>1, <1>3, EditSeen DEF AssessSaw
<1> QED BY <1>2, <1>3

\* A look adds what the assessment finds.
LEMMA AssessSawLook ==
  ASSUME Held, Holds, Post, phase = "assess", NEW t \in Treatments, NEW f \in Files
  PROVE  AssessSaw(t, f, target[t][f])
<1>1. PostSaw(t, f, post[t][f])
  BY DEF Post, Captured
<1>2. f \notin repeated => target[t][f] \in held[t][f]
  BY LookHeld DEF Created
<1> QED BY <1>1, <1>2 DEF AssessSaw, PostSaw

\* Every action keeps what the baseline assessment saw.
LEMMA NextAssess ==
  TypeOK /\ Held /\ Stages /\ Views /\ Holds /\ Post /\ Assess /\ [Next]_vars => Assess'
<1> SUFFICES ASSUME TypeOK, Held, Stages, Views, Holds, Post, Assess, [Next]_vars PROVE Assess'
  OBVIOUS
<1>1. ASSUME NEW t \in Treatments, NEW f \in Files, Edit(t, f) PROVE Assess'
  <2>1. UNCHANGED <<phase, done, looked, view, post, snapshot, assessed, controlled>>
    BY <1>1, EditSeen DEF work, evidence
  <2>2. \A s : (Turn(s)' <=> Turn(s)) /\ (Assessed(s)' <=> Assessed(s))
    BY <2>1, TurnKept DEF Assessed
  <2>3. ASSUME NEW s \in Treatments, phase = "assess", Turn(s), NEW g \in looked PROVE AssessSaw(s, g, view[g])'
    <3>1. PICK x : x = view[g]
      OBVIOUS
    <3>2. AssessSaw(s, g, x)'
      BY <1>1, <2>3, <3>1, AssessSawEdit DEF Assess, TypeOK
    <3> QED BY <2>1, <3>1, <3>2 DEF AssessSaw, history
  <2>4. ASSUME NEW s \in Treatments, NEW g \in Files, Assessed(s), snapshot["baseline"][s][g] # "absent"
        PROVE  AssessSaw(s, g, assessed[s][g])'
    <3>1. PICK x : x = assessed[s][g]
      OBVIOUS
    <3>2. AssessSaw(s, g, x)'
      BY <1>1, <2>4, <3>1, AssessSawEdit DEF Assess
    <3> QED BY <2>1, <3>1, <3>2 DEF AssessSaw, history
  <2> QED BY <2>1, <2>2, <2>3, <2>4 DEF Assess, Stale
<1>2. CASE phase \notin {"assess", "refresh"}
  <2>1. phase' # "refresh" /\ (phase' = "assess" => done' = {} /\ looked' = {})
    BY <1>2, PhaseChange, AfterFacts DEF TypeOK, Phases
  <2> QED BY <2>1 DEF Assess, Assessed
<1>3. CASE phase = "refresh" /\ UNCHANGED <<target, history, controlled, post, assessed>>
  <2>1. phase' = "refresh" /\ snapshot'["baseline"] = snapshot["baseline"]
    BY <1>3, PhaseChange, AfterFacts, BaselineKept
  <2>2. \A s \in Treatments, f \in Files : AssessSaw(s, f, assessed[s][f])' <=> AssessSaw(s, f, assessed[s][f])
    BY <1>3, <2>1 DEF AssessSaw, history
  <2> QED BY <1>3, <2>1, <2>2 DEF Assess, Assessed, Stale
<1>4. CASE phase = "assess" /\ UNCHANGED <<work, target, history, controlled, post, snapshot, assessed>>
  <2>1. \A s : (Turn(s)' <=> Turn(s)) /\ (Assessed(s)' <=> Assessed(s))
    BY <1>4, TurnKept DEF work, Assessed
  <2> QED BY <1>4, <2>1 DEF Assess, AssessSaw, Stale, history, work
<1>5. ASSUME phase = "assess", NEW t \in Treatments, Look(t) PROVE Assess'
  <2>1. \A s \in Treatments : (Turn(s)' => s = t) /\ (Assessed(s)' <=> Assessed(s))
    BY <1>5, LookStep DEF Assessed
  <2>2. \A f \in looked' : AssessSaw(t, f, view'[f])
    BY <1>5, LookStep, AssessSawLook DEF Assess
  <2>3. \A f \in looked' : AssessSaw(t, f, view[f])'
    BY <1>5, <2>2, LookStep DEF AssessSaw, history
  <2> QED BY <1>5, <2>1, <2>3, LookStep DEF Assess, AssessSaw, Stale, history
<1>6. ASSUME phase = "assess", NEW t \in Treatments, AssessBaseline(t) PROVE Assess'
  <2>1. /\ \A s \in Treatments : assessed'[s] = IF s = t THEN view ELSE assessed[s]
        /\ Present(snapshot["baseline"][t]) \subseteq looked /\ Turn(t) /\ t \notin done /\ op = "assess"
        /\ UNCHANGED <<target, history, controlled, post, snapshot>>
        /\ UNCHANGED work \/ (Advance(t) /\ Stale(snapshot["baseline"][t], view))
    BY <1>6 DEF Stages, AssessBaseline, AdvanceIf, End, Looked, At, Watched, Role, Turn, TypeOK
  <2>2. ~Assessed(t)
    BY <1>6, <2>1 DEF Assessed
  <2>3. \A s \in Treatments, f \in Files : Assessed(s) => (AssessSaw(s, f, assessed[s][f])' <=> AssessSaw(s, f, assessed[s][f]))
    BY <2>1, <2>2 DEF AssessSaw, history
  <2>4. CASE UNCHANGED work
    <3>1. \A s : (Turn(s)' <=> Turn(s)) /\ (Assessed(s)' <=> Assessed(s))
      BY <2>4, TurnKept DEF work, Assessed
    <3>2. \A s \in Treatments, f \in looked : AssessSaw(s, f, view[f])' <=> AssessSaw(s, f, view[f])
      BY <2>1, <2>4 DEF AssessSaw, history, work
    <3> QED BY <2>1, <2>2, <2>3, <2>4, <3>1, <3>2 DEF Assess, Stale, work
  <2>5. CASE Advance(t) /\ Stale(snapshot["baseline"][t], view)
    <3>1. \A s \in Treatments : (Assessed(s)' <=> (Assessed(s) \/ s = t)) /\ looked' = {}
      BY <1>6, <2>1, <2>5, AdvancePasses, AdvanceStep
    <3>2. \A f \in Files : IF snapshot["baseline"][t][f] = "absent" THEN view[f] = "absent" ELSE AssessSaw(t, f, view[f])
      BY <1>6, <2>1 DEF Assess, Views, Looking, Watched, Role, Present
    <3>3. \A f \in Files : AssessSaw(t, f, view[f]) => AssessSaw(t, f, assessed[t][f])'
      BY <2>1 DEF AssessSaw, history
    <3> QED BY <2>1, <2>2, <2>3, <2>5, <3>1, <3>2, <3>3 DEF Assess, Stale
  <2> QED BY <2>1, <2>4, <2>5
<1>7. ASSUME phase = "refresh", ~Interrupts PROVE UNCHANGED <<target, history, controlled, post, assessed>>
  BY <1>7, PhaseSteps DEF Look, Index, Snapshot, AssessRefreshed, evidence
<1>8. OperationFails \/ UNCHANGED vars => UNCHANGED <<work, target, history, controlled, post, snapshot, assessed>>
  BY DEF OperationFails, End, vars, evidence
<1> QED
  BY <1>1, <1>2, <1>3, <1>4, <1>5, <1>6, <1>7, <1>8, PhaseSteps DEF Interrupts, work

\* Every action keeps the comparison of what was assessed.
LEMMA NextAssessMatched == TypeOK /\ Stages /\ AssessMatched /\ [Next]_vars => AssessMatched'
<1> SUFFICES ASSUME TypeOK, Stages, AssessMatched, [Next]_vars, phase' = "refresh" PROVE Symmetric(assessed)'
  BY DEF AssessMatched
<1>1. CASE phase = "refresh"
  <2>1. UNCHANGED assessed
    BY <1>1, PhaseSteps DEF Interrupts, OperationFails, Edit, vars, Look, Index, Snapshot, AssessRefreshed, evidence
  <2> QED BY <1>1, <2>1, BaselineKept DEF AssessMatched, Symmetric, Differences
<1>2. CASE phase # "refresh"
  <2>1. phase = "assess"
    BY <1>2, PhaseChange, AfterFacts DEF TypeOK, Phases
  <2>2. PICK t \in Treatments : AssessBaseline(t)
    BY <2>1, <1>2, PhaseSteps DEF Interrupts, OperationFails, End, Edit, vars, work, Look
  <2>3. /\ Symmetric([assessed EXCEPT ![t] = view]) /\ assessed' = [assessed EXCEPT ![t] = view]
        /\ UNCHANGED snapshot
    BY <1>2, <2>1, <2>2 DEF AssessBaseline, AdvanceIf, Advance, End, work
  <2> QED BY <2>3 DEF Symmetric, Differences
<1> QED BY <1>1, <1>2

\* Every action keeps what the refreshed snapshot saw.
LEMMA NextRefresh == TypeOK /\ Held /\ Stages /\ Views /\ Refresh /\ [Next]_vars => Refresh'
<1> SUFFICES ASSUME TypeOK, Held, Stages, Views, Refresh, [Next]_vars, phase' = "refresh" PROVE Refresh'
  BY DEF Refresh, history
<1>1. CASE phase # "refresh"
  <2>1. done' = {} /\ looked' = {} /\ op' = "index"
    BY <1>1, PhaseChange, BeginsFacts
  <2> QED BY <2>1 DEF Refresh, history
<1>2. CASE phase = "refresh"
  <2>0. Role = "refreshed"
    BY <1>2 DEF Role
  <2>1. ASSUME NEW t \in Treatments, NEW f \in Files, Edit(t, f) PROVE Refresh'
    <3>1. Unseen(t, f)
      BY <1>2 DEF Unseen
    <3>2. UNCHANGED <<phase, done, op, looked, view, index, snapshot>>
      BY <2>1, EditSeen DEF work, evidence
    <3>3. \A s \in Refreshing, g \in Files : <<s, g>> \notin unseen' => <<s, g>> \notin unseen /\ target'[s][g] = target[s][g]
      <4> SUFFICES ASSUME NEW s \in Refreshing, NEW g \in Files, <<s, g>> \notin unseen'
                   PROVE  <<s, g>> \notin unseen /\ target'[s][g] = target[s][g]
        OBVIOUS
      <4>1. s # t \/ g # f
        BY <2>1, <3>1, EditSeen
      <4>2. s \in Treatments
        BY TreatmentsFacts
      <4>3. target'[s][g] = target[s][g]
        BY <2>1, <4>1, <4>2, EditSeen
      <4> QED BY <4>3, EditedGrows
    <3> QED BY <1>2, <3>2, <3>3, TurnKept DEF Refresh, history
  <2>2. CASE UNCHANGED <<work, target, evidence, history, controlled>>
    BY <1>2, <2>2, TurnKept DEF Refresh, work, evidence, history
  <2>3. ASSUME NEW t \in Treatments, Look(t) PROVE Refresh'
    BY <1>2, <2>3, LookStep, TreatmentsFacts DEF Refresh, history
  <2>4. ASSUME NEW t \in Treatments, Index(t) PROVE Refresh'
    <3>1. /\ Turn(t) /\ t \notin done /\ Files \subseteq looked /\ UNCHANGED <<phase, done, target, snapshot, history, controlled>>
          /\ op' = "snapshot" /\ looked' = {}
          /\ \A s \in Treatments : index'["refreshed"][s] = IF s = t THEN view ELSE index["refreshed"][s]
      BY <2>0, <2>4, RolesFacts DEF Index, Looked, At, Watched, Then, Begin, Turn, TypeOK
    <3> QED BY <1>2, <3>1, TurnKept, TurnUnique, TreatmentsFacts DEF Refresh, history
  <2>5. ASSUME NEW t \in Treatments, Snapshot(t) PROVE Refresh'
    <3>1. /\ Turn(t) /\ t \notin done /\ Present(index["refreshed"][t]) \subseteq looked /\ op = "snapshot"
          /\ UNCHANGED <<target, index, history, controlled>>
          /\ \A s \in Treatments : snapshot'["refreshed"][s] = IF s = t THEN view ELSE snapshot["refreshed"][s]
          /\ UNCHANGED work \/ (UNCHANGED <<phase, done>> /\ op' = "assess" /\ looked' = {})
      BY <1>2, <2>0, <2>5, RolesFacts DEF Snapshot, Looked, At, Watched, End, Then, Begin, Turn, TypeOK
    <3>2. ASSUME NEW f \in Files, t \in Refreshing, <<t, f>> \notin unseen PROVE view[f] = target[t][f]
      BY <1>2, <2>0, <3>1, <3>2 DEF Refresh, Views, Looking, Watched, Present
    <3>3. CASE UNCHANGED work
      BY <1>2, <3>1, <3>3, TurnKept, TurnUnique, TreatmentsFacts DEF Refresh, work, history
    <3>4. CASE UNCHANGED <<phase, done>> /\ op' = "assess" /\ looked' = {}
      BY <1>2, <3>1, <3>2, <3>4, TurnKept, TurnUnique, TreatmentsFacts DEF Refresh, history
    <3> QED BY <3>1, <3>3, <3>4
  <2>6. ASSUME NEW t \in Treatments, AssessRefreshed(t) PROVE Refresh'
    <3>1. Turn(t) /\ op = "assess" /\ UNCHANGED <<target, evidence, history, controlled>>
      BY <2>6 DEF AssessRefreshed, Looked, At
    <3>2. CASE UNCHANGED work
      BY <2>2, <3>1, <3>2
    <3>3. CASE Advance(t)
      <4>1. /\ looked' = {} /\ done' \subseteq done \cup {t} /\ op' = "index"
        BY <1>2, <3>1, <3>3, AdvanceStep, BeginsFacts DEF Advance, Begin
      <4> QED BY <1>2, <3>1, <4>1 DEF Refresh, evidence, history
    <3> QED BY <2>6, <3>2, <3>3 DEF AssessRefreshed, End
  <2> QED
    BY <1>2, <2>1, <2>2, <2>3, <2>4, <2>5, <2>6, PhaseSteps DEF Interrupts, OperationFails, End, vars
<1> QED BY <1>1, <1>2

-----------------------------------------------------------------------------
(* How a scenario ends.                                                    *)

\* A scenario that is ready has assessed its last copy.
LEMMA NextReady == TypeOK /\ Stages /\ Ready /\ [Next]_vars => Ready'
<1> SUFFICES ASSUME TypeOK, Stages, Ready, [Next]_vars, status' = "ready" PROVE Ready'
  BY DEF Ready
<1>1. CASE UNCHANGED vars
  BY <1>1, TurnKept DEF Ready, vars, work
<1>2. CASE status = "running"
  <2>1. PICK t \in Treatments : AssessRefreshed(t) /\ End("ready") /\ Refreshing \subseteq done \cup {t}
    BY <1>2 DEF Next, Lifecycle, Look, Create, Capture, Index, Snapshot, Clone, Validate, Write, Verify, AssessBaseline,
         AssessRefreshed, AdvanceIf, Advance, OperationFails, Edit, End, Then, work, vars, Looked, At
  <2> QED BY <2>1, TurnKept DEF Ready, AssessRefreshed, Looked, At, End, work
<1>3. status = "running" \/ UNCHANGED vars
  BY DEF Next, Lifecycle, Look, Create, Capture, Index, Snapshot, Clone, Validate, Write, Verify, AssessBaseline,
         AssessRefreshed, OperationFails, Edit, Looked, At
<1> QED BY <1>1, <1>2, <1>3

\* Two copies are the same when they hold the same of every file.
LEMMA StatesEqual ==
  ASSUME NEW a \in States, NEW b \in States, \A f \in Files : a[f] = b[f]
  PROVE  a = b
BY DEF States

\* Without edits every comparison finds what it expects.
LEMMA NextNoFalseAlarm ==
  TypeOK /\ Held /\ Untouched /\ Stages /\ Views /\ Holds /\ Saw /\ NoFalseAlarm /\ [Next]_vars => NoFalseAlarm'
<1> SUFFICES ASSUME TypeOK, Held, Untouched, Stages, Views, Holds, Saw, NoFalseAlarm, [Next]_vars, edits = 0,
                    status # "refused", status' = "refused", ~(Cardinality(controlled) > MaxChanges)
             PROVE  FALSE
  BY EditedGrows DEF NoFalseAlarm
<1>0. /\ \A t \in Treatments, f \in Files : ~IsEdited(t, f)
      /\ \A t, f : <<t, f>> \notin unseen
      /\ repeated = {}
  BY DEF IsEdited, Untouched
<1>listed. Cardinality(controlled) <= MaxChanges /\ controlled # {}
  <2>1. IsFiniteSet(controlled) /\ controlled # {}
    BY FilesDisjoint, ScenariosChange, FS_Subset DEF TypeOK
  <2>2. Cardinality(controlled) \in Nat
    BY <2>1, FS_CardinalityType
  <2> QED BY <2>1, <2>2, BoundsNat
<1>1. ASSUME NEW t \in Treatments, Capture(t) PROVE FALSE
  <2> DEFINE states == IF phase = "pre" THEN pre ELSE post
             all == [states EXCEPT ![t] = view]
             expected == [f \in Files |-> IF phase = "pre" THEN Benchmark[f] ELSE Mutation(f)]
  <2>1. Turn(t) /\ Files \subseteq looked /\ phase \in {"pre", "post"} /\ Treatments \subseteq done \cup {t} /\ ~Equivalent(all)
    BY <1>1, PhaseSteps, TakesFacts
       DEF Capture, AdvanceIf, Advance, Looked, At, Watched, Stages, TypeOK, Phases
  <2>2. ASSUME NEW s \in Treatments, NEW f \in Files PROVE all[s][f] = expected[f]
    <3>1. all[s] = IF s = t THEN view ELSE states[s]
      BY DEF TypeOK
    <3>2. CASE phase = "pre"
      BY <1>0, <2>1, <3>1, <3>2 DEF Saw, Pre
    <3>3. CASE phase = "post"
      <4>1. s # t => Captured(s)
        BY <2>1, <3>3 DEF Captured
      <4>2. CASE s = t
        <5>1. PostSaw(t, f, view[f])
          BY <2>1, <3>3 DEF Saw, Post
        <5> QED BY <1>0, <3>1, <3>3, <4>2, <5>1 DEF PostSaw
      <4>3. CASE s # t
        <5>1. PostSaw(s, f, post[s][f])
          BY <4>1, <4>3 DEF Saw, Post
        <5> QED BY <1>0, <3>1, <3>3, <4>3, <5>1 DEF PostSaw
      <4> QED BY <4>2, <4>3
    <3> QED BY <2>1, <3>2, <3>3
  <2>3. \A s \in Treatments : all[s] \in States
    BY DEF TypeOK
  <2>4. \A s \in Treatments : all[s] = all["stale-index"]
    <3> HIDE DEF all, expected
    <3> QED BY <2>2, <2>3, StatesEqual, TreatmentsFacts
  <2> HIDE DEF all
  <2> QED BY <2>1, <2>4, TreatmentsFacts DEF Equivalent
<1>2. ASSUME NEW t \in Treatments, Snapshot(t) PROVE FALSE
  <2>1. /\ Turn(t) /\ op = "snapshot" /\ phase \in {"baseline", "refresh"}
        /\ Watched(t) = Present(index[Role][t]) /\ Watched(t) \subseteq looked /\ Present(view) # Watched(t)
    BY <1>2 DEF Snapshot, Looked, At, Watched, Then, Advance, Stages, TypeOK, Phases
  <2>2. ASSUME NEW f \in Watched(t) PROVE view[f] # "absent"
    <3>1. f \in Files /\ f \in looked /\ index[Role][t][f] # "absent"
      BY <2>1 DEF Present
    <3>2. CASE phase = "baseline"
      BY <1>0, <2>1, <3>1, <3>2 DEF Saw, Baseline, Role
    <3>3. CASE phase = "refresh"
      <4>1. t \in Refreshing
        BY <2>1, <3>3, TakesFacts DEF Turn
      <4> QED BY <1>0, <2>1, <3>1, <3>3, <4>1 DEF Saw, Refresh, Role
    <3> QED BY <2>1, <3>2, <3>3
  <2>3. \A f \in Files \ Watched(t) : view[f] = "absent"
    BY <2>1 DEF Views, Looking
  <2>4. Watched(t) \subseteq Files
    BY <2>1 DEF Present
  <2> QED BY <2>1, <2>2, <2>3, <2>4 DEF Present
<1>3. ASSUME NEW t \in Treatments, Validate(t) PROVE FALSE
  <2>1. PICK f \in controlled : target[t][f] # "original"
    BY <1>3 DEF Validate, Then
  <2>2. phase = "mutate" /\ Turn(t) /\ op = "validate"
    BY <1>3 DEF Validate, At, Stages, TypeOK, Phases
  <2>3. ~Written(t, f)
    BY <2>2 DEF Written, IsMutated, Writing, Turn
  <2> QED BY <1>0, <2>1, <2>2, <2>3, BenchmarkControlled DEF Holds, Created
<1>4. ASSUME NEW t \in Treatments, Verify(t) PROVE FALSE
  <2>1. PICK f \in controlled : view[f] = "mutated" /\ target[t][f] # "mutated"
    BY <1>4 DEF Verify
  <2>2. phase = "mutate" /\ Turn(t) /\ op = "verify"
    BY <1>4 DEF Verify, At, Stages, TypeOK, Phases
  <2>3. Written(t, f) /\ Created(t)
    BY <2>1, <2>2 DEF Written, Writing, Created
  <2> QED BY <1>0, <2>1, <2>3, BenchmarkControlled DEF Holds
<1>5. ASSUME NEW t \in Treatments, AssessBaseline(t) PROVE FALSE
  <2> DEFINE all == [assessed EXCEPT ![t] = view]
             expected == [f \in Files |-> IF Benchmark[f] = "absent" THEN "absent" ELSE Mutation(f)]
  <2>1. /\ Turn(t) /\ op = "assess" /\ phase = "assess" /\ Watched(t) \subseteq looked
        /\ Watched(t) = Present(snapshot["baseline"][t])
        /\ Stale(snapshot["baseline"][t], view) => Treatments \subseteq done \cup {t} /\ ~Symmetric(all)
    BY <1>5, TakesFacts DEF AssessBaseline, AdvanceIf, Advance, Looked, At, Watched, Role
  <2>2. \A s \in Treatments, f \in Files : snapshot["baseline"][s][f] = Benchmark[f]
    BY <1>0, <2>1 DEF Saw, Baseline, Baselined, AsBenchmark
  <2>3. \A f \in Files : Benchmark[f] # "absent" => f \in looked
    BY <2>1, <2>2 DEF Present
  <2>4. \A f \in Files : Benchmark[f] = "absent" => f \notin Watched(t)
    BY <2>1, <2>2 DEF Present
  <2>5. ASSUME NEW f \in Files PROVE view[f] = expected[f]
    <3>1. target[t][f] = Mutation(f)
      BY <1>0, <2>1, LookMutation
    <3> QED BY <1>0, <2>1, <2>3, <2>4, <3>1 DEF Saw, Assess, AssessSaw, Views, Looking
  <2>6. Stale(snapshot["baseline"][t], view)
    <3>1. \A f \in Files : snapshot["baseline"][t][f] # "absent" /\ view[f] # snapshot["baseline"][t][f] <=> f \in controlled
      BY <2>2, <2>5, BenchmarkControlled DEF Mutation
    <3>2. \A f \in controlled : view[f] = "mutated" /\ f \in Files
      BY <2>5, BenchmarkControlled DEF Mutation
    <3>3. Changed(snapshot["baseline"][t], view) = controlled
      BY <3>1, <3>2 DEF Changed, Present
    <3> QED BY <1>listed, <3>2, <3>3 DEF Stale, Present
  <2>7. ASSUME NEW s \in Treatments, NEW f \in Files PROVE all[s][f] = expected[f]
    <3>1. all[s] = IF s = t THEN view ELSE assessed[s]
      BY DEF TypeOK
    <3>2. CASE s = t
      BY <2>5, <3>1, <3>2
    <3>3. CASE s # t
      <4>1. Assessed(s)
        BY <2>1, <2>6, <3>3 DEF Assessed
      <4>2. IF Benchmark[f] = "absent" THEN assessed[s][f] = "absent" ELSE AssessSaw(s, f, assessed[s][f])
        BY <2>2, <4>1 DEF Saw, Assess
      <4>3. target[s][f] = Mutation(f)
        BY <1>0, <2>1, LookMutation
      <4> QED BY <1>0, <3>1, <3>3, <4>2, <4>3 DEF AssessSaw
    <3> QED BY <3>2, <3>3
  <2>8. \A s \in Treatments : all[s] \in States /\ snapshot["baseline"][s] \in States
    BY RolesFacts DEF TypeOK
  <2>9. \A s \in Treatments : all[s] = all["stale-index"] /\ snapshot["baseline"][s] = snapshot["baseline"]["stale-index"]
    <3> HIDE DEF all, expected
    <3> QED BY <2>2, <2>7, <2>8, StatesEqual, TreatmentsFacts
  <2>10. Symmetric(all)
    <3> HIDE DEF all
    <3> QED BY <2>9, TreatmentsFacts DEF Symmetric, Differences
  <2> QED BY <2>1, <2>6, <2>10
<1>6. ASSUME NEW t \in Treatments, AssessRefreshed(t) PROVE FALSE
  <2>1. /\ Turn(t) /\ op = "assess" /\ phase = "refresh" /\ Present(snapshot["refreshed"][t]) \subseteq looked
        /\ ~Fresh(snapshot["refreshed"][t], view)
    BY <1>6 DEF AssessRefreshed, Advance, End, Looked, At, Watched, Role
  <2>2. t \in Refreshing
    BY <2>1, TakesFacts DEF Turn
  <2>3. \A f \in Present(snapshot["refreshed"][t]) : view[f] = snapshot["refreshed"][t][f]
    BY <1>0, <2>1, <2>2 DEF Saw, Refresh, Present
  <2> QED BY <2>1, <2>3 DEF Fresh, Changed
<1> QED
  BY <1>1, <1>2, <1>3, <1>4, <1>5, <1>6
     DEF Next, Lifecycle, Look, Create, Index, Clone, Write, Advance, Then, OperationFails, Edit, End, vars

-----------------------------------------------------------------------------
(* The invariant, and what the comparisons make of it.                     *)

\* A scenario that begins satisfies the invariant.
LEMMA InitIInv == Init => IInv
<1> SUFFICES ASSUME Init PROVE IInv
  OBVIOUS
<1>1. TypeOK
  BY InitTypes
<1>2. phase = "create" /\ done = {} /\ op = "create" /\ looked = {} /\ status = "running" /\ edits = 0
  BY DEF Init
<1>3. Stages /\ Views /\ Ready /\ NoFalseAlarm
  BY <1>2 DEF Stages, Views, Looking, Ready, NoFalseAlarm
<1>4. Holds
  BY DEF Init, Holds, Created, IsEdited
<1>5. Saw
  BY <1>2 DEF Saw, Pre, Baseline, Baselined, Validated, IsMutated, Writing, Post, Captured, Assess, Assessed, Refresh
<1>6. Matched
  BY <1>2 DEF Matched, PostMatched, AssessMatched
<1>7. Held /\ Apart /\ Untouched
  BY DEF Init, Held, Apart, Untouched
<1> QED BY <1>1, <1>3, <1>4, <1>5, <1>6, <1>7 DEF IInv

\* Every action keeps the invariant.
LEMMA NextIInv == IInv /\ [Next]_vars => IInv'
BY NextTypes, NextHeld, NextStages, NextViews, NextHolds, NextPre, NextBaseline, NextValidated, NextPost, NextPostMatched,
   NextAssess, NextAssessMatched, NextRefresh, NextReady, NextNoFalseAlarm DEF IInv, Saw, Matched

\* Where the capture after the mutation saw the benchmark's file, nobody had edited it.
LEMMA PostBenchmark ==
  ASSUME IInv, phase = "refresh", NEW f \in Files \ (repeated \cup controlled), NEW s \in Treatments,
         post[s][f] = Benchmark[f]
  PROVE  \A t \in Treatments : AsBenchmark(t, f)
<1>1. \A t \in Treatments : post[t][f] = Benchmark[f]
  BY TreatmentsFacts DEF IInv, Matched, PostMatched, Equivalent
<1>2. Mutation(f) = Benchmark[f]
  BY GivenFacts
<1>3. \A t \in Treatments : PostSaw(t, f, post[t][f])
  BY DEF IInv, Saw, Post, Captured
<1> QED BY <1>1, <1>2, <1>3 DEF PostSaw

\* What the captures saw of a file is the same in all copies, hence the benchmark's or nothing.
LEMMA PostShared ==
  ASSUME IInv, phase = "refresh", NEW f \in Files \ (repeated \cup controlled)
  PROVE  \E x \in {Benchmark[f], "absent"} : \A t \in Treatments : post[t][f] = x
<1>1. \A t \in Treatments : post[t][f] = post["stale-index"][f] /\ post[t][f] \in held[t][f]
  <2>1. \A t \in Treatments : PostSaw(t, f, post[t][f])
    BY DEF IInv, Saw, Post, Captured
  <2> QED BY <2>1, TreatmentsFacts DEF IInv, Matched, PostMatched, Equivalent, PostSaw
<1>2. /\ "stale-index" \in Treatments /\ "full-refresh" \in Treatments
  BY TreatmentsFacts
<1>3. post["stale-index"][f] \in Given(f) \/ post["stale-index"][f] = "absent"
  BY <1>1, <1>2 DEF IInv, Apart
<1>4. post["stale-index"][f] \in {Benchmark[f], "absent"}
  BY <1>3, GivenFacts
<1> QED BY <1>1, <1>4

\* The chain of comparisons leaves no difference between the baselines.
LEMMA BaselinesAgree ==
  ASSUME IInv, phase = "refresh", NEW t \in Treatments, NEW f \in Files \ repeated
  PROVE  /\ index["baseline"][t][f] = snapshot["baseline"][t][f]
         /\ snapshot["baseline"][t][f] = snapshot["baseline"]["stale-index"][f]
<1> USE DEF IInv, Saw
<1>1. CASE f \in controlled
  <2>1. \A s \in Treatments : AsBenchmark(s, f)
    BY <1>1 DEF Validated, IsMutated
  <2> QED BY <2>1, TreatmentsFacts DEF AsBenchmark
<1>2. CASE f \notin controlled
  <2>1. CASE \E s \in Treatments : snapshot["baseline"][s][f] # "absent"
    <3>1. PICK s \in Treatments : snapshot["baseline"][s][f] # "absent"
      BY <2>1
    <3>2. /\ AssessSaw(s, f, assessed[s][f]) /\ Changed(snapshot["baseline"][s], assessed[s]) = controlled
      BY <3>1 DEF Assess, Assessed, Stale
    <3>3. assessed[s][f] = snapshot["baseline"][s][f]
      BY <1>2, <3>1, <3>2 DEF Changed, Present
    <3>4. post[s][f] # "absent"
      BY <1>2, <3>1, <3>2, <3>3 DEF AssessSaw
    <3>5. post[s][f] = Benchmark[f]
      BY <1>2, <3>4, PostShared
    <3>6. \A r \in Treatments : AsBenchmark(r, f)
      BY <1>2, <3>5, PostBenchmark
    <3> QED BY <3>6, TreatmentsFacts DEF AsBenchmark
  <2>2. CASE \A s \in Treatments : snapshot["baseline"][s][f] = "absent"
    <3>1. Present(snapshot["baseline"][t]) = Present(index["baseline"][t])
      BY DEF Baseline, Baselined
    <3>2. index["baseline"][t][f] = "absent"
      BY <2>2, <3>1 DEF Present
    <3> QED BY <2>2, <3>2, TreatmentsFacts
  <2> QED BY <2>1, <2>2
<1> QED BY <1>1, <1>2

\* A copy that is refreshed holds the baseline and the mutation, but for unseen edits.
LEMMA CopiesAgree ==
  ASSUME IInv, phase = "refresh", NEW t \in Refreshing, NEW f \in Files \ repeated, <<t, f>> \notin unseen
  PROVE  target[t][f] = IF f \in controlled THEN "mutated" ELSE snapshot["baseline"]["stale-index"][f]
<1> USE DEF IInv, Saw
<1>0. t \in Treatments /\ "stale-index" \in Treatments /\ t # "stale-index"
  BY TreatmentsFacts
<1>1. \A s \in Treatments : /\ Stale(snapshot["baseline"][s], assessed[s])
                            /\ snapshot["baseline"][s][f] # "absent" => AssessSaw(s, f, assessed[s][f])
  BY DEF Assess, Assessed
<1>2. CASE f \in controlled
  <2>1. \A s \in Treatments : snapshot["baseline"][s][f] = "original"
    BY <1>2, BenchmarkControlled DEF Validated, IsMutated, AsBenchmark
  <2>2. \A s \in Treatments : f \in Changed(snapshot["baseline"][s], assessed[s]) /\ assessed[s][f] # "absent"
    BY <1>1, <1>2 DEF Stale, Present
  <2>3. <<f, "original", assessed[t][f]>> \in Differences(t, assessed)
    BY <1>0, <2>1, <2>2 DEF Differences
  <2>4. <<f, "original", assessed[t][f]>> \in Differences("stale-index", assessed)
    BY <2>3 DEF Matched, AssessMatched, Symmetric
  <2>5. assessed[t][f] = assessed["stale-index"][f]
    BY <2>4 DEF Differences
  <2>6. assessed[t][f] \in held[t][f] /\ assessed[t][f] \in held["stale-index"][f] /\ assessed[t][f] # "original"
    BY <1>0, <1>1, <2>1, <2>2, <2>5 DEF AssessSaw, Changed
  <2>7. assessed[t][f] \in Given(f)
    BY <1>0, <2>2, <2>6 DEF Apart
  <2>8. assessed[t][f] = "mutated"
    BY <1>2, <2>6, <2>7, GivenFacts, BenchmarkControlled
  <2> QED BY <1>0, <1>1, <1>2, <2>1, <2>8 DEF AssessSaw
<1>3. CASE f \notin controlled
  <2>1. snapshot["baseline"][t][f] = snapshot["baseline"]["stale-index"][f]
    BY <1>0, BaselinesAgree
  <2>2. CASE snapshot["baseline"][t][f] # "absent"
    <3>1. f \notin Changed(snapshot["baseline"][t], assessed[t])
      BY <1>0, <1>1, <1>3 DEF Stale
    <3>2. assessed[t][f] = snapshot["baseline"][t][f]
      BY <2>2, <3>1 DEF Changed, Present
    <3> QED BY <1>0, <1>1, <1>3, <2>1, <2>2, <3>2 DEF AssessSaw
  <2>3. CASE snapshot["baseline"][t][f] = "absent"
    <3>1. PostSaw(t, f, post[t][f])
      BY <1>0 DEF Post, Captured
    <3>2. target[t][f] = post[t][f]
      BY <2>3, <3>1 DEF PostSaw
    <3>3. post[t][f] = "absent"
      <4>1. CASE post[t][f] = Benchmark[f]
        BY <1>0, <1>3, <2>3, <4>1, PostBenchmark DEF AsBenchmark
      <4>2. CASE post[t][f] # Benchmark[f]
        BY <1>0, <1>3, <4>2, PostShared
      <4> QED BY <4>1, <4>2
    <3> QED BY <1>3, <2>1, <2>3, <3>2, <3>3
  <2> QED BY <2>2, <2>3
<1> QED BY <1>2, <1>3

\* What was seen and compared shows the evidence matched.
LEMMA EvidenceFromInvariant == IInv => EvidenceMatched
<1> SUFFICES ASSUME IInv, status = "ready" PROVE EvidenceMatched
  BY DEF EvidenceMatched, BaselinesMatched, RefreshedMatched, ChangesListed
<1>1. PICK t \in Treatments : phase = "refresh" /\ op = "assess" /\ Turn(t) /\ Refreshing \subseteq done \cup {t}
  BY DEF IInv, Ready
<1>2. BaselinesMatched
  BY <1>1, BaselinesAgree DEF BaselinesMatched
<1>3. RefreshedMatched
  <2> SUFFICES ASSUME NEW s \in Refreshing, NEW f \in Files \ repeated, <<s, f>> \notin unseen
               PROVE  /\ index["refreshed"][s][f] = snapshot["refreshed"][s][f]
                      /\ snapshot["refreshed"][s][f] =
                           IF f \in controlled THEN "mutated" ELSE snapshot["baseline"]["stale-index"][f]
    BY DEF RefreshedMatched
  <2>1. index["refreshed"][s][f] = target[s][f] /\ snapshot["refreshed"][s][f] = target[s][f]
    BY <1>1 DEF IInv, Saw, Refresh
  <2> QED BY <1>1, <2>1, CopiesAgree
<1>4. ChangesListed
  <2>1. Stale(snapshot["baseline"][t], assessed[t])
    BY <1>1 DEF IInv, Saw, Assess, Assessed
  <2> QED BY <2>1 DEF Stale, ChangesListed
<1> QED BY <1>2, <1>3, <1>4 DEF EvidenceMatched

\* The inductive invariant holds in every state of every scenario.
THEOREM Invariance == Spec => []IInv
<1> QED BY InitIInv, NextIInv, PTL DEF Spec

\* The state keeps its type, and no phase outlasts its last treatment, for any files and
\* any number of edits.
THEOREM TypeCorrect == Spec => []TypeOK
<1>1. IInv => TypeOK
  BY DEF IInv
<1> QED BY <1>1, Invariance, PTL

\* A scenario that is ready compares like with like, in every file that no edit gave what it held before:
\* the copies' baselines are the same and as hashed, and what was refreshed differs from them in the mutation
\* and in unseen edits only.
THEOREM EvidenceMatchedHolds == Spec => []EvidenceMatched
<1> QED BY EvidenceFromInvariant, Invariance, PTL

\* A scenario whose copies nobody edited is not refused by any of its checks, unless its mutation changes
\* more files than an assessment lists.
THEOREM NoFalseAlarmHolds == Spec => []NoFalseAlarm
<1>1. IInv => NoFalseAlarm
  BY DEF IInv
<1> QED BY <1>1, Invariance, PTL
=============================================================================
