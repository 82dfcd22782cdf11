--------------------------- MODULE IndexStaleness ---------------------------
(***************************************************************************)
(* One scenario of the incremental-change-staleness experiment             *)
(* (experiments/plugins/incrementalChangeStaleness/lifecycleV2.ts): four   *)
(* treatments get a copy of a benchmark each; each copy is indexed by an   *)
(* external tool and the indexed files are hashed (a snapshot); then the   *)
(* same mutation is applied to every copy and three of the four are        *)
(* indexed again.  The scenario is ready only if a chain of comparisons    *)
(* shows that the treatments differ in nothing but the refresh.            *)
(*                                                                         *)
(* A copy "can drift between creation and mutation"                        *)
(* (mutationExecution.ts, line 57): Edit is somebody else's edit of a      *)
(* copy, at any moment.  Every operation looks at the files one by one, so *)
(* that an edit may fall between any two looks.                            *)
(***************************************************************************)
EXTENDS FiniteSets, Naturals

CONSTANTS Originals,   \* the files of the benchmark
          New,         \* files it does not have, which an edit may add
          Scenarios,   \* for each scenario, the files its mutation changes
          Texts,       \* what somebody else may write in a file
          MaxChanges,  \* the changes an assessment lists (MAX_CHANGES)
          MaxEdits     \* bound: edits by somebody else

ASSUME FilesDisjoint == Originals \cap New = {} /\ IsFiniteSet(Originals)
ASSUME ScenariosChange == Scenarios \subseteq (SUBSET Originals) \ {{}}
ASSUME BoundsNat == MaxChanges \in Nat /\ MaxEdits \in Nat

VARIABLES controlled,  \* the files the mutation of this scenario changes
          phase,       \* what the lifecycle is doing to one treatment after the other
          done,        \* the treatments with which it has finished that
          op,          \* what it is doing to the current treatment
          looked,      \* the files that operation has looked at
          view,        \* what it saw of them
          target,      \* the copies, as they are
          pre, post,   \* the copies' captured source states
          index,       \* what the tool indexed, per role and treatment
          snapshot,    \* what was hashed of the indexed files after that
          assessed,    \* what the assessment of the baseline saw of the indexed files
          status,
          edits,       \* how often somebody edited a file of a copy
          held,        \* history: what a file of a copy is given by the scenario, or was by an edit
          repeated,    \* history: the files that an edit gave what was held before
          unseen       \* history: those edited after the last check that compares them
work == <<phase, done, op, looked, view>>
evidence == <<pre, post, index, snapshot, assessed>>
history == <<edits, held, repeated, unseen>>
vars == <<controlled, work, target, evidence, status, history>>

-----------------------------------------------------------------------------
Files == Originals \cup New
Partial == {"changed-files-refresh", "affected-neighborhood-refresh"}
Refreshing == Partial \cup {"full-refresh"}
Treatments == {"stale-index"} \cup Refreshing
Rank == [t \in Treatments |->
           CASE t = "stale-index" -> 1 [] t = "changed-files-refresh" -> 2
             [] t = "affected-neighborhood-refresh" -> 3 [] t = "full-refresh" -> 4]

\* What a file may hold.
Contents == {"absent", "original", "mutated"} \cup Texts
States == [Files -> Contents]
Benchmark == [f \in Files |-> IF f \in New THEN "absent" ELSE "original"]
Nothing == [f \in Files |-> "absent"]
\* What the scenario itself puts in a file.
Given(f) == {Benchmark[f]} \cup {x \in {"mutated"} : f \in controlled}
Present(state) == {f \in Files : state[f] # "absent"}
Roles == {"baseline", "refreshed"}

Phases == {"create", "pre", "baseline", "clone", "mutate", "post", "assess", "refresh"}
Takes(p) == CASE p = "clone" -> Partial [] p = "refresh" -> Refreshing [] OTHER -> Treatments
After(p) == CASE p = "create" -> "pre" [] p = "pre" -> "baseline" [] p = "baseline" -> "clone" [] p = "clone" -> "mutate"
              [] p = "mutate" -> "post" [] p = "post" -> "assess" [] OTHER -> "refresh"
Begins(p) == CASE p \in {"pre", "post"} -> "capture" [] p \in {"baseline", "refresh"} -> "index"
               [] p = "mutate" -> "validate" [] OTHER -> p
Operations == {"create", "capture", "index", "snapshot", "clone", "validate", "write", "verify", "assess"}

\* The treatment whose turn it is.
Turn(t) == /\ t \in Takes(phase) \ done
           /\ \A s \in Takes(phase) \ done : Rank[t] <= Rank[s]
Role == IF phase = "refresh" THEN "refreshed" ELSE "baseline"

Init ==
  /\ controlled \in Scenarios
  /\ phase = "create" /\ done = {} /\ op = "create" /\ looked = {} /\ view = Nothing
  /\ target = [t \in Treatments |-> Nothing]
  /\ pre = target /\ post = target /\ assessed = target
  /\ index = [r \in Roles |-> target] /\ snapshot = index
  /\ status = "running"
  /\ edits = 0 /\ held = [t \in Treatments |-> [f \in Files |-> Given(f)]] /\ repeated = {} /\ unseen = {}

-----------------------------------------------------------------------------
(* The comparisons (lifecyclePolicy.ts, sourceState.ts).                   *)

Equivalent(states) == \A t \in Refreshing : states[t] = states["stale-index"]

\* The files of a snapshot that are no longer what was hashed.
Changed(snap, now) == {f \in Present(snap) : now[f] # snap[f]}
\* Mutant: the paths are compared although the list of changes was cut.
StaleCut(snap, now) ==
  /\ Changed(snap, now) # {}
  /\ Changed(snap, now) = controlled /\ controlled \subseteq Present(now)
\* Complete "stale": something changed, all of it is listed, and it is the controlled files, none of them missing.
Stale(snap, now) ==
  /\ Changed(snap, now) # {} /\ Cardinality(Changed(snap, now)) <= MaxChanges
  /\ Changed(snap, now) = controlled /\ controlled \subseteq Present(now)
Fresh(snap, now) == Changed(snap, now) = {}

Differences(t, seen) == {<<f, snapshot["baseline"][t][f], seen[t][f]>> : f \in Changed(snapshot["baseline"][t], seen[t])}
\* Mutant: only the paths are compared.
SymmetricPaths(seen) ==
  \A t \in Refreshing : Changed(snapshot["baseline"][t], seen[t]) = Changed(snapshot["baseline"]["stale-index"], seen["stale-index"])
Symmetric(seen) == \A t \in Refreshing : Differences(t, seen) = Differences("stale-index", seen)

-----------------------------------------------------------------------------
(* An operation looks at its files one by one, in any order.               *)

Watched(t) ==
  CASE op \in {"capture", "index"} -> Files
    [] op = "snapshot" -> Present(index[Role][t])
    [] op = "assess" -> Present(snapshot[Role][t])
    [] op \in {"validate", "write", "verify"} -> controlled
    [] OTHER -> {}

At(t, o) == status = "running" /\ Turn(t) /\ op = o
\* The operation has looked at everything.
Looked(t, o) == At(t, o) /\ Watched(t) \subseteq looked

Begin(o) == op' = o /\ looked' = {} /\ view' = Nothing
Then(o) == Begin(o) /\ UNCHANGED <<phase, done, status>>
End(how) == status' = how /\ UNCHANGED work

\* Mutant: the next phase starts with the treatments of the last one done.
AdvanceKeeping(t) ==
  /\ phase' = IF Takes(phase) \subseteq done \cup {t} THEN After(phase) ELSE phase
  /\ done' = done \cup {t}
  /\ Begin(Begins(phase'))
  /\ UNCHANGED status
\* The phase is over for treatment t.
Advance(t) ==
  /\ IF Takes(phase) \subseteq done \cup {t}
       THEN phase' = After(phase) /\ done' = {}
       ELSE phase' = phase /\ done' = done \cup {t}
  /\ Begin(Begins(phase'))
  /\ UNCHANGED status
\* The phase ends with a comparison of all treatments.
AdvanceIf(t, holds) == IF holds \/ ~(Takes(phase) \subseteq done \cup {t}) THEN Advance(t) ELSE End("refused")

Look(t) ==
  /\ status = "running" /\ Turn(t) /\ op \in {"capture", "index", "snapshot", "assess"}
  /\ \E f \in Watched(t) \ looked :
       /\ looked' = looked \cup {f}
       /\ view' = [view EXCEPT ![f] = target[t][f]]
  /\ UNCHANGED <<phase, done, op, target, evidence, status, history, controlled>>

Create(t) ==
  /\ At(t, "create")
  /\ target' = [target EXCEPT ![t] = Benchmark]
  /\ Advance(t)
  /\ UNCHANGED <<evidence, history, controlled>>

\* Mutant: the captures after the mutation are not compared.
CaptureUncompared(t) ==
  /\ Looked(t, "capture")
  /\ LET states == IF phase = "pre" THEN pre ELSE post
         all == [states EXCEPT ![t] = view]
     IN /\ pre' = IF phase = "pre" THEN all ELSE pre
        /\ post' = IF phase = "post" THEN all ELSE post
        /\ AdvanceIf(t, phase = "pre" => Equivalent(all))
  /\ UNCHANGED <<target, index, snapshot, assessed, history, controlled>>

\* Mutant: the captures after the mutation are compared with the reference before it.
CaptureCrossed(t) ==
  /\ Looked(t, "capture")
  /\ LET states == IF phase = "pre" THEN pre ELSE post
         all == [states EXCEPT ![t] = view]
     IN /\ pre' = IF phase = "pre" THEN all ELSE pre
        /\ post' = IF phase = "post" THEN all ELSE post
        /\ AdvanceIf(t, Equivalent([all EXCEPT !["stale-index"] = pre["stale-index"]]))
  /\ UNCHANGED <<target, index, snapshot, assessed, history, controlled>>

\* The copies must be alike before the baselines, and again after the mutation.
Capture(t) ==
  /\ Looked(t, "capture")
  /\ LET states == IF phase = "pre" THEN pre ELSE post
         all == [states EXCEPT ![t] = view]
     IN /\ pre' = IF phase = "pre" THEN all ELSE pre
        /\ post' = IF phase = "post" THEN all ELSE post
        /\ AdvanceIf(t, Equivalent(all))
  /\ UNCHANGED <<target, index, snapshot, assessed, history, controlled>>

\* The tool has read the copy and written its index: a new one, or in place of the clone.
Index(t) ==
  /\ Looked(t, "index")
  /\ index' = [index EXCEPT ![Role][t] = view]
  /\ Then("snapshot")
  /\ UNCHANGED <<target, pre, post, snapshot, assessed, history, controlled>>

\* A snapshot is complete if every file the index lists could be hashed.
Snapshot(t) ==
  /\ Looked(t, "snapshot")
  /\ snapshot' = [snapshot EXCEPT ![Role][t] = view]
  /\ IF Present(view) # Watched(t) THEN End("refused")
     ELSE IF phase = "refresh" THEN Then("assess")
     ELSE Advance(t)
  /\ UNCHANGED <<target, pre, post, index, assessed, history, controlled>>

Clone(t) ==
  /\ At(t, "clone")
  /\ index' = [index EXCEPT !["refreshed"][t] = index["baseline"][t]]
  /\ Advance(t)
  /\ UNCHANGED <<target, pre, post, snapshot, assessed, history, controlled>>

\* First the whole plan is checked against the files, then they are written one by one.
Validate(t) ==
  /\ At(t, "validate")
  /\ \/ \E f \in controlled \ looked :
          IF target[t][f] = "original"
            THEN looked' = looked \cup {f} /\ UNCHANGED <<phase, done, op, view, status>>
            ELSE End("refused")
     \/ controlled \subseteq looked /\ Then("write")
  /\ UNCHANGED <<target, evidence, history, controlled>>

Write(t) ==
  /\ At(t, "write")
  /\ \/ \E f \in controlled \ looked :
          /\ target' = [target EXCEPT ![t][f] = "mutated"]
          /\ view' = [view EXCEPT ![f] = "mutated"]
          /\ op' = "verify"
          /\ UNCHANGED <<phase, done, looked, status>>
     \/ controlled \subseteq looked /\ Advance(t) /\ UNCHANGED target
  /\ UNCHANGED <<evidence, history, controlled>>

Verify(t) ==
  /\ At(t, "verify")
  /\ \E f \in controlled \ looked :
       /\ view[f] = "mutated"
       /\ IF target[t][f] = "mutated"
            THEN op' = "write" /\ looked' = looked \cup {f} /\ UNCHANGED <<phase, done, view, status>>
            ELSE End("refused")
  /\ UNCHANGED <<target, evidence, history, controlled>>

\* The baseline must be stale by the mutation alone, and for all treatments alike.
AssessBaseline(t) ==
  /\ phase = "assess" /\ Looked(t, "assess")
  /\ LET all == [assessed EXCEPT ![t] = view]
     IN /\ assessed' = all
        /\ IF Stale(snapshot["baseline"][t], view) THEN AdvanceIf(t, Symmetric(all)) ELSE End("refused")
  /\ UNCHANGED <<target, pre, post, index, snapshot, history, controlled>>

\* A refreshed index must be fresh; the last one makes the scenario ready.
AssessRefreshed(t) ==
  /\ phase = "refresh" /\ Looked(t, "assess")
  /\ IF ~Fresh(snapshot["refreshed"][t], view) THEN End("refused")
     ELSE IF Refreshing \subseteq done \cup {t} THEN End("ready")
     ELSE Advance(t)
  /\ UNCHANGED <<target, evidence, history, controlled>>

\* Any operation may fail: a copy, a command, a file that cannot be read or written, tools that are not the same.
OperationFails ==
  /\ status = "running"
  /\ End("failed")
  /\ UNCHANGED <<target, evidence, history, controlled>>

-----------------------------------------------------------------------------
\* No later check compares what file f of copy t holds now with anything that was taken before.
Unseen(t, f) ==
  LET past == t \in done \/ (Turn(t) /\ f \in looked)
  IN \/ phase = "refresh"
     \/ phase = "assess" /\ (past \/ snapshot["baseline"][t][f] = "absent")
     \/ phase = "post" /\ past /\ snapshot["baseline"][t][f] = "absent"

\* File f of copy t, or of another copy, had content x before: nothing could tell that it was edited.
\* That two copies lose the same file is no such case.
Recurs(t, f, x) == \E s \in Treatments : x \in held[s][f] /\ (s = t \/ x # "absent")

\* Somebody writes, adds or deletes a file of a copy, with any content and as often as they like:
\* an edit may be taken back, and other copies be edited alike.
Edit(t, f) ==
  /\ status = "running" /\ (phase = "create" => t \in done)
  /\ edits < MaxEdits /\ edits' = edits + 1
  /\ \E content \in Contents \ {target[t][f]} :
       /\ target' = [target EXCEPT ![t][f] = content]
       /\ held' = [held EXCEPT ![t][f] = @ \cup {content}]
       /\ repeated' = IF Recurs(t, f, content) THEN repeated \cup {f} ELSE repeated
  /\ unseen' = IF Unseen(t, f) THEN unseen \cup {<<t, f>>} ELSE unseen
  /\ UNCHANGED <<controlled, work, evidence, status>>

Lifecycle ==
  \/ \E t \in Treatments : \/ Look(t) \/ Create(t) \/ Capture(t) \/ Index(t) \/ Snapshot(t) \/ Clone(t)
                           \/ Validate(t) \/ Write(t) \/ Verify(t) \/ AssessBaseline(t) \/ AssessRefreshed(t)
  \/ OperationFails
Next == Lifecycle \/ \E t \in Treatments, f \in Files : Edit(t, f)
Spec == Init /\ [][Next]_vars

-----------------------------------------------------------------------------
\* Every variable has its type, and no phase outlasts its last treatment.
TypeOK ==
  /\ controlled \in Scenarios
  /\ phase \in Phases /\ done \subseteq Takes(phase) /\ done # Takes(phase)
  /\ op \in Operations /\ looked \subseteq Files /\ view \in States
  /\ {target, pre, post, assessed} \subseteq [Treatments -> States]
  /\ {index, snapshot} \subseteq [Roles -> [Treatments -> States]]
  /\ status \in {"running", "ready", "refused", "failed"}
  /\ edits \in 0..MaxEdits /\ held \in [Treatments -> [Files -> SUBSET Contents]]
  /\ repeated \subseteq Files /\ unseen \subseteq Treatments \X Files

\* The treatments of a scenario that is ready started from the same baseline, and
\* what was hashed of it is what was indexed, although either was read while the
\* copies could be edited.  The hashes are all the code compares, so this is said of the
\* files that no edit gave what they, or another copy's, had before: an edit that the
\* tool indexed and that was taken back before the files were hashed is not noticed.
BaselinesMatched ==
  status = "ready" =>
    \A t \in Treatments, f \in Files \ repeated :
      /\ index["baseline"][t][f] = snapshot["baseline"][t][f]
      /\ snapshot["baseline"][t][f] = snapshot["baseline"]["stale-index"][f]

\* A refreshed index of a scenario that is ready differs from the baseline in the mutation
\* and nothing else, but for those files and for files edited after the last check that
\* compares them: the final "fresh" compares a copy only with a snapshot just taken of it.
RefreshedMatched ==
  status = "ready" =>
    \A t \in Refreshing, f \in Files \ repeated :
      <<t, f>> \notin unseen =>
        /\ index["refreshed"][t][f] = snapshot["refreshed"][t][f]
        /\ snapshot["refreshed"][t][f] = IF f \in controlled THEN "mutated" ELSE snapshot["baseline"]["stale-index"][f]

\* No scenario is ready whose changes an assessment could not list.
ChangesListed == status = "ready" => Cardinality(controlled) <= MaxChanges

\* What a comparison of the treatments relies on.
EvidenceMatched == BaselinesMatched /\ RefreshedMatched /\ ChangesListed

\* No check refuses a scenario whose copies nobody has touched, each of them expecting exactly
\* what the steps before it do, unless its mutation changes more files than an assessment lists.
NoFalseAlarm == status = "refused" /\ edits = 0 => Cardinality(controlled) > MaxChanges
=============================================================================
