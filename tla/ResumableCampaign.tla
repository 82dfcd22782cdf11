--------------------------- MODULE ResumableCampaign ---------------------------
(***************************************************************************)
(* The executor of a resumable campaign and the command in front of it:    *)
(* executeResumableCampaign (campaignResumableExecution.ts) and            *)
(* runAgentCampaignCommand (runExperimentRunCommand.ts), run by several    *)
(* processes on one output root, with the root's checkpoint store and its  *)
(* final artifact family (campaignCheckpointStore.ts).                     *)
(*                                                                         *)
(* Each action is what a process does between two awaits at which others   *)
(* may act.  `Faults` says what may go wrong.  A process is one slot in    *)
(* which a command runs; a crash ends the command and leaves its files.    *)
(* The clock ticks once for every generation: updatedAt is the generation. *)
(***************************************************************************)
EXTENDS CampaignRecovery, FiniteSets

CONSTANTS Procs,           \* processes
          NoProc,          \* "the file is absent"
          MaxRuns,         \* bound: commands issued in all
          RepairAttempts,  \* repairs of an attempt that failed its checks
          Faults           \* a subset of FaultKinds

FaultKinds == {"crash",   \* a process dies between two steps
               "io",      \* a file operation or a preparation fails
               "torn",    \* a final file is left partially written
               "marker"}  \* campaign-dispatch.json is deleted under its owner
ASSUME NoProcAssumption == NoProc \notin Procs
ASSUME FaultsAssumption == Faults \subseteq FaultKinds
ASSUME RunsAssumption == MaxRuns \in Nat /\ 1..MaxRuns \subseteq EpochIds
ASSUME RepairAssumption == RepairAttempts \in 0..2

VARIABLES committed,  \* the newest committed checkpoint
          used,       \* the root has a checkpoint directory
          marker,     \* owner of campaign-dispatch.json
          writer,     \* owner of writer.json
          temps,      \* owners of .temporary-*.json files
          family,     \* the intent marker and the two final artifacts
          pc, run,    \* where each process is, and the number of its command
          intent,     \* its CampaignIntent: mode, authorization, one-case limit
          observed,   \* the generation its command read
          seen,       \* outcome.checkpoint
          next, then, \* the checkpoint it publishes, and where it goes on
          case,       \* caseProcessed, or 0
          attempt,    \* the number of the provider attempt
          evidence,   \* why the unit ends
          outcome,    \* how its last command ended
          runs,       \* commands issued
          invoked     \* provider calls made

root == <<committed, used, marker, writer, temps, family>>
locals == <<intent, observed, seen, next, then, case, attempt, evidence, run, runs>>
vars == <<committed, used, marker, writer, temps, family, pc, run, intent, observed, seen, next, then, case,
          attempt, evidence, outcome, runs, invoked>>

\* The chain is empty.
NoCheckpoint == [generation |-> 0, createdAt |-> NoTime, updatedAt |-> NoTime,
                 units |-> [i \in UnitIndex |-> PendingUnit], finalization |-> NoTime]
Ledger == INSTANCE CampaignLedger WITH checkpoint <- committed

CaseOf(i) == (i + 1) \div 2
Modes == {"new", "resume", "continue"}
Intents == [mode : Modes, authorization : Authorizations, oneCase : BOOLEAN]
\* A file of the family holds the completedAt it was written for.
Files == {"intent", "execution", "analysis"}
Absent == -1
Torn == -2
Outcomes == {"none", "completed", "partial", "blocked", "failed", "FINAL_OWNER_MISMATCH", "ARTIFACT_INTEGRITY"}
Publishing == {"lock", "assert", "assertPublication", "link", "unlink", "readback"}
Working == {"firstRead", "queue", "reserve", "contexts", "claim", "attempt", "invoke", "settle", "settled",
            "finalRead", "intent", "execution", "analysis", "finalize", "done"} \cup Publishing
Invocations == [unit : UnitIndex, epoch : {1, 2}, attempt : 1..3, run : 1..MaxRuns]

TypeOK ==
  /\ committed \in Checkpoints /\ used \in BOOLEAN
  /\ marker \in Procs \cup {NoProc} /\ writer \in Procs \cup {NoProc} /\ temps \subseteq Procs
  /\ family \in [Files -> Nat \cup {Absent, Torn}]
  /\ pc \in [Procs -> {"idle", "acquire", "checkWriter", "release"} \cup Working]
  /\ intent \in [Procs -> Intents] /\ observed \in [Procs -> Nat]
  /\ seen \in [Procs -> Checkpoints] /\ next \in [Procs -> Checkpoints]
  /\ then \in [Procs -> Working] /\ case \in [Procs -> 0..CaseOf(N)] /\ attempt \in [Procs -> 0..3]
  /\ evidence \in [Procs -> Reasons]
  /\ outcome \in [Procs -> Outcomes] /\ runs \in 0..MaxRuns /\ run \in [Procs -> 0..MaxRuns]
  /\ invoked \subseteq Invocations

NoIntent == [mode |-> "resume", authorization |-> NoAuthorization, oneCase |-> FALSE]

Init ==
  /\ committed = NoCheckpoint /\ used = FALSE
  /\ marker = NoProc /\ writer = NoProc /\ temps = {}
  /\ family = [f \in Files |-> Absent]
  /\ pc = [p \in Procs |-> "idle"] /\ run = [p \in Procs |-> 0]
  /\ intent = [p \in Procs |-> NoIntent] /\ observed = [p \in Procs |-> 0]
  /\ seen = [p \in Procs |-> NoCheckpoint] /\ next = [p \in Procs |-> NoCheckpoint]
  /\ then = [p \in Procs |-> "queue"] /\ case = [p \in Procs |-> 0] /\ attempt = [p \in Procs |-> 0]
  /\ evidence = [p \in Procs |-> "incomplete"]
  /\ outcome = [p \in Procs |-> "none"] /\ runs = 0
  /\ invoked = {}

Goto(p, step) == pc' = [pc EXCEPT ![p] = step]

\* The command ends; what it knew is gone.
Return(p) ==
  /\ Goto(p, "idle")
  /\ run' = [run EXCEPT ![p] = 0] /\ intent' = [intent EXCEPT ![p] = NoIntent]
  /\ observed' = [observed EXCEPT ![p] = 0] /\ evidence' = [evidence EXCEPT ![p] = "incomplete"]
  /\ seen' = [seen EXCEPT ![p] = NoCheckpoint] /\ next' = [next EXCEPT ![p] = NoCheckpoint]
  /\ then' = [then EXCEPT ![p] = "queue"]
  /\ case' = [case EXCEPT ![p] = 0] /\ attempt' = [attempt EXCEPT ![p] = 0]
  /\ UNCHANGED runs

\* The loop or the executor returns, or the catch block runs; then `finally`
\* releases the dispatch.
Ends(p, how) == Goto(p, "release") /\ outcome' = [outcome EXCEPT ![p] = how]
Fails(p) == Ends(p, "failed")

\* assertCampaignDispatch
Fresh(p) == marker = p

\* verifyArtifacts: a finalized checkpoint vouches for the whole family.
FamilyVerified(cp) == cp.finalization # NoTime => \A f \in Files : family[f] = cp.finalization

\* read(): the dispatch is still owned, nothing is unresolved, the chain verifies.
Reads(p) == Fresh(p) /\ temps = {} /\ FamilyVerified(committed)

(***************************************************************************)
(* runAgentCampaignCommand: the intent is formed from what the command     *)
(* reads before the executor acquires the dispatch.                        *)
(***************************************************************************)
With(mode, authorization) ==
  \* With a single case the one-case limit makes no difference.
  [mode : {mode}, authorization : {authorization}, oneCase : IF N > 2 THEN BOOLEAN ELSE {FALSE}]

\* "new" wants an empty root, the others a checkpoint that verifies, and an
\* authorization is for the unit paused in that checkpoint.
Offered ==
  IF committed = NoCheckpoint
  THEN IF ~used /\ marker = NoProc THEN With("new", NoAuthorization) ELSE {}
  ELSE IF FamilyVerified(committed)
       THEN With("resume", NoAuthorization) \cup
            UNION {With("continue", a) : a \in {a \in [generation : {committed.generation}, unit : UnitIndex] :
                                                 ValidLimitAuthorization(a, committed, a.unit)}}
       ELSE {}

Command(p) ==
  /\ pc[p] = "idle" /\ runs < MaxRuns
  /\ runs' = runs + 1 /\ run' = [run EXCEPT ![p] = runs + 1]
  /\ \E offer \in Offered : intent' = [intent EXCEPT ![p] = offer]
  /\ observed' = [observed EXCEPT ![p] = committed.generation]
  /\ outcome' = [outcome EXCEPT ![p] = "none"]
  /\ Goto(p, "acquire")
  /\ UNCHANGED <<root, invoked, seen, next, then, case, attempt, evidence>>

(***************************************************************************)
(* acquireCampaignDispatch, releaseCampaignDispatch                        *)
(***************************************************************************)
Acquire(p) ==
  /\ pc[p] = "acquire"
  /\ IF marker = NoProc
     THEN marker' = p /\ Goto(p, "checkWriter") /\ UNCHANGED <<locals, outcome>>
     ELSE Return(p) /\ outcome' = [outcome EXCEPT ![p] = "failed"] /\ UNCHANGED marker
  /\ UNCHANGED <<committed, used, writer, temps, family, invoked>>

\* A failed acquisition leaves its marker, and there is no ownership to release.
CheckWriter(p) ==
  /\ pc[p] = "checkWriter"
  /\ \/ writer = NoProc /\ Goto(p, "firstRead") /\ UNCHANGED <<locals, outcome>>
     \/ /\ writer # NoProc \/ "io" \in Faults
        /\ Return(p) /\ outcome' = [outcome EXCEPT ![p] = "failed"]
  /\ UNCHANGED <<root, invoked>>

Release(p) ==
  /\ pc[p] = "release"
  /\ \/ marker' = IF Fresh(p) THEN NoProc ELSE marker
     \/ "io" \in Faults /\ UNCHANGED marker
  /\ Return(p)
  /\ UNCHANGED <<committed, used, writer, temps, family, outcome, invoked>>

(***************************************************************************)
(* publish(): writeCampaignCheckpointV2 and the read-back.                 *)
(***************************************************************************)
Publish(p, cp, continuation) ==
  /\ next' = [next EXCEPT ![p] = cp]
  /\ then' = [then EXCEPT ![p] = continuation]
  /\ Goto(p, "lock")
  /\ UNCHANGED outcome

Lock(p) ==
  /\ pc[p] = "lock"
  /\ IF Fresh(p) /\ ValidCheckpoint(next[p]) /\ writer = NoProc
     THEN writer' = p /\ used' = TRUE /\ Goto(p, "assert") /\ UNCHANGED outcome
     ELSE Fails(p) /\ UNCHANGED <<writer, used>>
  /\ UNCHANGED <<committed, marker, temps, family, locals, invoked>>

Successive(previous, cp) ==
  IF previous = NoCheckpoint THEN cp = Created(cp.createdAt) ELSE ValidHistory(previous, cp)

\* The dispatch is asserted under the lock, the chain and its artifacts are
\* verified, and the temporary file is written.
AssertHistory(p) ==
  /\ pc[p] = "assert"
  /\ IF Fresh(p) /\ Successive(committed, next[p]) /\ FamilyVerified(next[p])
     THEN temps' = temps \cup {p} /\ Goto(p, "assertPublication") /\ UNCHANGED <<writer, outcome>>
     ELSE writer' = NoProc /\ Fails(p) /\ UNCHANGED temps
  /\ UNCHANGED <<committed, used, marker, family, locals, invoked>>

AssertPublication(p) ==
  /\ pc[p] = "assertPublication"
  /\ IF Fresh(p) THEN Goto(p, "link") /\ UNCHANGED <<writer, outcome>> ELSE writer' = NoProc /\ Fails(p)
  /\ UNCHANGED <<committed, used, marker, temps, family, locals, invoked>>

Link(p) ==
  /\ pc[p] = "link"
  /\ IF committed.generation < next[p].generation
     THEN committed' = next[p] /\ Goto(p, "unlink")
          /\ UNCHANGED <<writer, outcome>>
     ELSE writer' = NoProc /\ Fails(p) /\ UNCHANGED committed
  /\ UNCHANGED <<used, marker, temps, family, locals, invoked>>

Unlink(p) ==
  /\ pc[p] = "unlink"
  /\ temps' = temps \ {p} /\ writer' = NoProc
  /\ Goto(p, "readback")
  /\ UNCHANGED <<committed, used, marker, family, locals, outcome, invoked>>

Readback(p) ==
  /\ pc[p] = "readback"
  /\ IF Reads(p) /\ committed = next[p]
     THEN seen' = [seen EXCEPT ![p] = next[p]] /\ Goto(p, then[p]) /\ UNCHANGED outcome
     ELSE Fails(p) /\ UNCHANGED seen
  /\ UNCHANGED <<root, intent, observed, next, then, case, attempt, evidence, run, runs, invoked>>

\* Mutant: a failure after the commit takes the generation back.
PublicationFailsRevoking(p) ==
  /\ "io" \in Faults
  /\ pc[p] \in {"assert", "assertPublication", "link", "unlink"}
  /\ committed' = IF pc[p] = "unlink" THEN seen[p] ELSE committed
  /\ writer' = NoProc
  /\ Fails(p)
  /\ UNCHANGED <<used, marker, temps, family, locals, invoked>>

\* Before the commit the lock is removed (unless that fails too) and a
\* temporary file stays; after it the lock stays, and what is left.
PublicationFails(p) ==
  /\ "io" \in Faults
  /\ \/ pc[p] \in {"assert", "assertPublication", "link"} /\ writer' \in {writer, NoProc} /\ UNCHANGED temps
     \/ pc[p] = "unlink" /\ temps' \in {temps, temps \ {p}} /\ UNCHANGED writer
  /\ Fails(p)
  /\ UNCHANGED <<committed, used, marker, family, locals, invoked>>

(***************************************************************************)
(* executeResumableCampaign                                                *)
(***************************************************************************)
\* Mutant: a unit that ended incomplete counts as done.
UncompletedButIncomplete(cp) == {i \in UnitIndex : cp.units[i].state \notin {"completed", "incomplete"}}

Uncompleted(cp) == {i \in UnitIndex : cp.units[i].state # "completed"}
\* The first unit of the queue that is not completed.
FirstUnit(cp) == CHOOSE i \in Uncompleted(cp) : \A j \in Uncompleted(cp) : i <= j

\* Mutant: a continuation is not validated before the queue is walked.
FirstReadUnvalidated(p) ==
  /\ pc[p] = "firstRead"
  /\ CASE ~Reads(p) -> Fails(p) /\ UNCHANGED <<seen, next, then>>
       [] Reads(p) /\ intent[p].mode = "new" ->
            /\ IF committed = NoCheckpoint THEN Publish(p, Created(1), "queue") ELSE Fails(p) /\ UNCHANGED <<next, then>>
            /\ UNCHANGED seen
       [] OTHER -> seen' = [seen EXCEPT ![p] = committed] /\ Goto(p, "queue") /\ UNCHANGED <<next, then, outcome>>
  /\ UNCHANGED <<root, intent, observed, case, attempt, evidence, run, runs, invoked>>

FirstRead(p) ==
  /\ pc[p] = "firstRead"
  /\ CASE ~Reads(p) -> Fails(p) /\ UNCHANGED <<seen, next, then>>
       [] Reads(p) /\ intent[p].mode = "new" ->
            /\ IF committed = NoCheckpoint THEN Publish(p, Created(1), "queue") ELSE Fails(p) /\ UNCHANGED <<next, then>>
            /\ UNCHANGED seen
       [] OTHER ->
            /\ seen' = [seen EXCEPT ![p] = committed]
            /\ IF /\ committed # NoCheckpoint
                  /\ intent[p].mode = "continue" =>
                       /\ Uncompleted(committed) # {}
                       /\ ValidLimitAuthorization(intent[p].authorization, committed, FirstUnit(committed))
               THEN Goto(p, "queue") /\ UNCHANGED outcome
               ELSE Fails(p)
            /\ UNCHANGED <<next, then>>
  /\ UNCHANGED <<root, intent, observed, case, attempt, evidence, run, runs, invoked>>

\* Mutant: the one-case limit is not looked at again.
QueueUnlimited(p) ==
  LET i == FirstUnit(seen[p])
      unit == seen[p].units[i]
  IN
  /\ pc[p] = "queue"
  /\ CASE Uncompleted(seen[p]) = {} -> Goto(p, "finalRead") /\ UNCHANGED <<case, outcome>>
       [] OTHER ->
            IF unit.state # "pending" /\ intent[p].authorization = NoAuthorization
            THEN Ends(p, "blocked") /\ UNCHANGED case
            ELSE case' = [case EXCEPT ![p] = CaseOf(i)] /\ Goto(p, "reserve") /\ UNCHANGED outcome
  /\ UNCHANGED <<root, intent, observed, seen, next, then, attempt, evidence, run, runs, invoked>>

\* Mutant: a reservation that another command left unauthorized is taken up again.
QueueResuming(p) ==
  LET i == FirstUnit(seen[p])
      unit == seen[p].units[i]
  IN
  /\ pc[p] = "queue"
  /\ CASE Uncompleted(seen[p]) = {} -> Goto(p, "finalRead") /\ UNCHANGED <<case, outcome>>
       [] Uncompleted(seen[p]) # {} /\ unit.state = "in-progress" /\ LastEpoch(unit).phase = "reserved" ->
            case' = [case EXCEPT ![p] = CaseOf(i)] /\ Goto(p, "contexts") /\ UNCHANGED outcome
       [] OTHER ->
            IF unit.state # "pending" /\ intent[p].authorization = NoAuthorization
            THEN Ends(p, "blocked") /\ UNCHANGED case
            ELSE case' = [case EXCEPT ![p] = CaseOf(i)] /\ Goto(p, "reserve") /\ UNCHANGED outcome
  /\ UNCHANGED <<root, intent, observed, seen, next, then, attempt, evidence, run, runs, invoked>>

\* The head of the loop over the queue.
Queue(p) ==
  LET i == FirstUnit(seen[p])
      unit == seen[p].units[i]
  IN
  /\ pc[p] = "queue"
  /\ CASE Uncompleted(seen[p]) = {} -> Goto(p, "finalRead") /\ UNCHANGED <<case, outcome>>
       [] Uncompleted(seen[p]) # {} /\ intent[p].oneCase /\ case[p] \notin {0, CaseOf(i)} ->
            Ends(p, "partial") /\ UNCHANGED case
       [] OTHER ->
            IF unit.state # "pending" /\ intent[p].authorization = NoAuthorization
            THEN Ends(p, "blocked") /\ UNCHANGED case
            ELSE case' = [case EXCEPT ![p] = CaseOf(i)] /\ Goto(p, "reserve") /\ UNCHANGED outcome
  /\ UNCHANGED <<root, intent, observed, seen, next, then, attempt, evidence, run, runs, invoked>>

\* Mutant: the provider is called before the reservation is durable.
ReserveUnitInvoking(p) ==
  /\ pc[p] = "reserve"
  /\ IF Reads(p) /\ committed = seen[p] /\ MayReserve(committed, FirstUnit(seen[p]), intent[p].authorization)
     THEN attempt' = [attempt EXCEPT ![p] = 1] /\ Goto(p, "attempt") /\ UNCHANGED outcome
     ELSE Fails(p) /\ UNCHANGED attempt
  /\ UNCHANGED <<root, intent, observed, seen, next, then, case, evidence, run, runs, invoked>>

\* The chain is read again (STALE_REVISION), and the epoch's directory allocated.
ReserveUnit(p) ==
  LET i == FirstUnit(seen[p])
      a == intent[p].authorization
  IN
  /\ pc[p] = "reserve"
  /\ IF Reads(p) /\ committed = seen[p] /\ MayReserve(committed, i, a)
     THEN Publish(p, Reserved(committed, i, run[p], a, committed.generation + 1), "contexts")
     ELSE Fails(p) /\ UNCHANGED <<next, then>>
  /\ UNCHANGED <<root, intent, observed, seen, case, attempt, evidence, run, runs, invoked>>

\* Mutant: the provider is called on the reservation alone.
ContextsUnauthorized(p) ==
  /\ pc[p] = "contexts"
  /\ attempt' = [attempt EXCEPT ![p] = 1] /\ Goto(p, "attempt")
  /\ UNCHANGED <<root, intent, observed, seen, next, then, case, evidence, run, runs, outcome, invoked>>

\* Contexts are built, then the invocation is authorized durably.
Contexts(p) ==
  /\ pc[p] = "contexts"
  /\ Publish(p, Authorized(seen[p], FirstUnit(seen[p]), seen[p].generation + 1), "claim")
  /\ UNCHANGED <<root, intent, observed, seen, case, attempt, evidence, run, runs, invoked>>

Claim(p) ==
  LET e == LastEpoch(committed.units[FirstUnit(seen[p])]) IN
  /\ pc[p] = "claim"
  /\ IF Reads(p) /\ committed = seen[p] /\ e.id = run[p] /\ e.phase = "invocation-authorized"
     THEN attempt' = [attempt EXCEPT ![p] = 1] /\ Goto(p, "attempt") /\ UNCHANGED outcome
     ELSE Fails(p) /\ UNCHANGED attempt
  /\ UNCHANGED <<root, intent, observed, seen, next, then, case, evidence, run, runs, invoked>>

Concludes(p, reason) ==
  evidence' = [evidence EXCEPT ![p] = reason] /\ Goto(p, "settle")

\* An attempt whose baseline is not evaluable invokes nobody.  Otherwise the claim
\* is read again and the output directory prepared; if either throws, the exception
\* becomes evidence.  TreatmentAttempts says what is in the evidence.
Attempt(p) ==
  /\ pc[p] = "attempt"
  /\ \/ Concludes(p, "incomplete")
     \/ Reads(p) /\ committed = seen[p] /\ Goto(p, "invoke") /\ UNCHANGED evidence
  /\ UNCHANGED <<root, intent, observed, seen, next, then, case, attempt, run, runs, outcome, invoked>>

\* Mutant: repairs are not counted.
InvokeUncounted(p) ==
  LET i == FirstUnit(seen[p]) IN
  /\ pc[p] = "invoke"
  /\ invoked' = invoked \cup {[unit |-> i, epoch |-> Len(seen[p].units[i].epochs), attempt |-> attempt[p], run |-> run[p]]}
  /\ \/ (\E reason \in Reasons : Concludes(p, reason)) /\ UNCHANGED attempt
     \/ attempt' = [attempt EXCEPT ![p] = @ + 1] /\ Goto(p, "attempt") /\ UNCHANGED evidence
  /\ UNCHANGED <<root, intent, observed, seen, next, then, case, run, runs, outcome>>

\* Mutant: a provider at its limit is asked again.
InvokeRetrying(p) ==
  LET i == FirstUnit(seen[p]) IN
  /\ pc[p] = "invoke"
  /\ invoked' = invoked \cup {[unit |-> i, epoch |-> Len(seen[p].units[i].epochs), attempt |-> attempt[p], run |-> run[p]]}
  /\ \/ (\E reason \in Reasons : Concludes(p, reason))
     \/ Goto(p, "attempt") /\ UNCHANGED evidence
  /\ UNCHANGED <<root, intent, observed, seen, next, then, case, attempt, run, runs, outcome>>

\* The provider is called, and its answer evaluated.  An attempt that failed
\* its checks may be repaired.
Invoke(p) ==
  LET i == FirstUnit(seen[p]) IN
  /\ pc[p] = "invoke"
  /\ invoked' = invoked \cup {[unit |-> i, epoch |-> Len(seen[p].units[i].epochs), attempt |-> attempt[p], run |-> run[p]]}
  /\ \/ (\E reason \in Reasons : Concludes(p, reason)) /\ UNCHANGED attempt
     \/ /\ attempt[p] <= RepairAttempts
        /\ attempt' = [attempt EXCEPT ![p] = @ + 1] /\ Goto(p, "attempt")
        /\ UNCHANGED evidence
  /\ UNCHANGED <<root, intent, observed, seen, next, then, case, run, runs, outcome>>

\* The supporting artifacts are persisted, and the terminal evidence published.
Settle(p) ==
  /\ pc[p] = "settle"
  /\ IF Fresh(p)
     THEN Publish(p, Terminal(seen[p], FirstUnit(seen[p]), evidence[p], seen[p].generation + 1), "settled")
     ELSE Fails(p) /\ UNCHANGED <<next, then>>
  /\ UNCHANGED <<root, intent, observed, seen, case, attempt, evidence, run, runs, invoked>>

\* Mutant: a unit that ends blocked returns past `finally`.
SettledUnreleased(p) ==
  /\ pc[p] = "settled"
  /\ IF evidence[p] = "evaluated"
     THEN Goto(p, "queue") /\ intent' = [intent EXCEPT ![p].authorization = NoAuthorization]
          /\ UNCHANGED <<observed, seen, next, then, case, attempt, evidence, run, runs, outcome>>
     ELSE Return(p) /\ outcome' = [outcome EXCEPT ![p] = "blocked"]
  /\ UNCHANGED <<root, invoked>>

Settled(p) ==
  /\ pc[p] = "settled"
  /\ intent' = [intent EXCEPT ![p].authorization = NoAuthorization]
  /\ IF evidence[p] = "evaluated" THEN Goto(p, "queue") /\ UNCHANGED outcome ELSE Ends(p, "blocked")
  /\ UNCHANGED <<root, observed, seen, next, then, case, attempt, evidence, run, runs, invoked>>

(***************************************************************************)
(* The end of the queue: publishCampaignFinalArtifacts.                    *)
(***************************************************************************)
FinalRead(p) ==
  /\ pc[p] = "finalRead"
  /\ IF Reads(p)
     THEN seen' = [seen EXCEPT ![p] = committed] /\ Goto(p, "intent") /\ UNCHANGED outcome
     ELSE Fails(p) /\ UNCHANGED seen
  /\ UNCHANGED <<root, intent, observed, next, then, case, attempt, evidence, run, runs, invoked>>

\* Mutant: the final metadata are not stable.
CompletedAtUpdated(cp) == cp.updatedAt

CompletedAt(cp) == IF cp.finalization # NoTime THEN cp.finalization ELSE cp.updatedAt

\* The intent marker is created exclusively, or must be this very family's; the
\* artifacts there already must be this family's too, and only the others are
\* written, the execution artifact first.
Intent(p) ==
  LET at == CompletedAt(seen[p])
      artifacts == {family["execution"], family["analysis"]}
  IN
  /\ pc[p] = "intent"
  /\ CASE ~Fresh(p) \/ (family["intent"] = Absent /\ artifacts # {Absent}) -> Fails(p) /\ UNCHANGED family
       [] Fresh(p) /\ family["intent"] = Absent /\ artifacts = {Absent} ->
            family' = [family EXCEPT !["intent"] = at] /\ Goto(p, "execution") /\ UNCHANGED outcome
       [] Fresh(p) /\ family["intent"] \notin {Absent, at} -> Ends(p, "FINAL_OWNER_MISMATCH") /\ UNCHANGED family
       [] OTHER ->
            /\ \/ artifacts = {at} /\ Goto(p, "finalize") /\ UNCHANGED outcome
               \/ /\ Absent \in artifacts /\ artifacts \subseteq {Absent, at}
                  /\ Goto(p, IF family["execution"] = Absent THEN "execution" ELSE "analysis")
                  /\ UNCHANGED outcome
               \/ ~(artifacts \subseteq {Absent, at}) /\ Ends(p, "ARTIFACT_INTEGRITY")
            /\ UNCHANGED family
  /\ UNCHANGED <<committed, used, marker, writer, temps, locals, invoked>>

\* persistCampaignArtifact of a file that was absent when the marker was read: a
\* file that appeared since, whatever its bytes, is an ARTIFACT_COLLISION.
Persist(p, file, continuation) ==
  /\ pc[p] = file
  /\ IF Fresh(p) /\ family[file] = Absent
     THEN family' = [family EXCEPT ![file] = CompletedAt(seen[p])] /\ Goto(p, continuation) /\ UNCHANGED outcome
     ELSE Fails(p) /\ UNCHANGED family
  /\ UNCHANGED <<committed, used, marker, writer, temps, locals, invoked>>

\* A write stops half way: the file exists, with other bytes.
WriteTorn(p) ==
  /\ "torn" \in Faults
  /\ pc[p] \in Files /\ family[pc[p]] = Absent /\ Fresh(p)
  /\ family' = [family EXCEPT ![pc[p]] = Torn]
  /\ Fails(p)
  /\ UNCHANGED <<committed, used, marker, writer, temps, locals, invoked>>

Finalize(p) ==
  /\ pc[p] = "finalize"
  /\ IF seen[p].finalization = NoTime
     THEN IF Fresh(p) THEN Publish(p, Finalized(seen[p], CompletedAt(seen[p]), seen[p].generation + 1), "done")
          ELSE Fails(p) /\ UNCHANGED <<next, then>>
     ELSE Goto(p, "done") /\ UNCHANGED <<next, then, outcome>>
  /\ UNCHANGED <<root, intent, observed, seen, case, attempt, evidence, run, runs, invoked>>

Done(p) ==
  /\ pc[p] = "done"
  /\ Ends(p, "completed")
  /\ UNCHANGED <<root, locals, invoked>>

(***************************************************************************)
(* Failures, and the operator of the output root.                          *)
(***************************************************************************)
\* A read, a preparation or a write outside a publication throws.
Preparing == {"firstRead", "reserve", "contexts", "claim", "settle", "lock", "readback", "finalRead", "intent",
              "execution", "analysis"}
PreparationFails(p) ==
  /\ "io" \in Faults
  /\ pc[p] \in Preparing
  /\ Fails(p)
  /\ UNCHANGED <<root, locals, invoked>>

Crash(p) ==
  /\ "crash" \in Faults
  /\ pc[p] # "idle"
  /\ Return(p)
  /\ UNCHANGED <<root, outcome, invoked>>

\* A marker whose owner is gone may be deleted by hand, and so may one whose
\* owner only seems to be gone.
RemoveMarker ==
  /\ marker # NoProc
  /\ "marker" \in Faults \/ pc[marker] \in {"idle", "acquire"}
  /\ marker' = NoProc
  /\ UNCHANGED <<committed, used, writer, temps, family, pc, locals, outcome, invoked>>

\* What a dead publication left is cleared by hand only when nobody publishes.
ClearPublication ==
  /\ writer # NoProc \/ temps # {}
  /\ \A p \in Procs : pc[p] \notin Publishing
  /\ writer' = NoProc /\ temps' = {}
  /\ UNCHANGED <<committed, used, marker, family, pc, locals, outcome, invoked>>

Publication(p) ==
  Lock(p) \/ AssertHistory(p) \/ AssertPublication(p) \/ Link(p) \/ Unlink(p) \/ Readback(p) \/ PublicationFails(p)
Finalization(p) ==
  \/ FinalRead(p) \/ Intent(p) \/ Persist(p, "execution", "analysis") \/ Persist(p, "analysis", "finalize")
  \/ WriteTorn(p) \/ Finalize(p) \/ Done(p)
Step(p) ==
  \/ Acquire(p) \/ CheckWriter(p) \/ Release(p) \/ FirstRead(p) \/ Queue(p) \/ ReserveUnit(p) \/ Contexts(p)
  \/ Claim(p) \/ Attempt(p) \/ Invoke(p) \/ Settle(p) \/ Settled(p) \/ Publication(p) \/ Finalization(p)
  \/ PreparationFails(p)

Next ==
  \/ \E p \in Procs : Command(p) \/ Step(p) \/ Crash(p)
  \/ RemoveMarker
  \/ ClearPublication

Spec == Init /\ [][Next]_vars

\* A process that runs goes on running: every await returns.  Nobody has to
\* issue a command, crash or clean up.
FairSpec == Spec /\ \A p \in Procs : WF_vars(Step(p))

(***************************************************************************)
(* Properties.                                                             *)
(***************************************************************************)
\* Every provider call was claimed before it was made: its epoch is committed
\* with the id of the command that called, past its reservation, and the calls
\* within an epoch are bounded by the repairs allowed.
InvocationClaimed ==
  \A x \in invoked :
    /\ x.epoch \in DOMAIN committed.units[x.unit].epochs
    /\ LET e == committed.units[x.unit].epochs[x.epoch] IN e.id = x.run /\ e.phase # "reserved"
    /\ x.attempt <= 1 + RepairAttempts

\* Two commands are never both at the provider, even when the dispatch marker
\* was deleted under the first: the committed reservation keeps the second out.
SingleInvoker == \A p, q \in Procs : pc[p] \in {"attempt", "invoke"} /\ pc[q] \in {"attempt", "invoke"} => p = q

\* The commands of one root together do what the ledger promises: this is
\* Ledger!Spec, with the stutter first, which TLC then decides at once.
ImplementsLedger == Ledger!Init /\ [][committed' # committed => Ledger!Next]_committed

\* No file of the final family exists before every unit is completed, and a
\* finalized checkpoint has the whole family beside it.
FamilyWhole ==
  /\ (\E f \in Files : family[f] # Absent) => AllCompleted(committed)
  /\ FamilyVerified(committed)

\* What a command wrote of the family the next one takes over: it is refused
\* only when a file was left partially written.
FamilyReusable ==
  (\E p \in Procs : outcome[p] \in {"FINAL_OWNER_MISMATCH", "ARTIFACT_INTEGRITY"}) => \E f \in Files : family[f] = Torn

\* The final family is whole when it may be read, and never in the way of the command that completes it.
FamilySound == FamilyWhole /\ FamilyReusable

\* A command that acts on a limit authorization starts from the revision it
\* names: whatever was committed since the user looked, it refuses.
ContinuesObserved ==
  [][\A p \in Procs :
       pc[p] = "firstRead" /\ pc'[p] = "queue" /\ intent[p].mode = "continue" => seen'[p].generation = observed[p]]_vars

\* The executor stops at a unit that ended for good, or that a command left
\* reserved or authorized when it died or failed: blocked() tells the user, and
\* nobody takes the unit up again, steps past it, or finalizes the campaign: no
\* generation is committed any more.  (Stopped depends on the newest generation and
\* on the commands under way.)
EndedForGood(u) == u.state \in {"incomplete", "uncertain"} \/ (u.state = "paused-limit" /\ Len(u.epochs) = 2)
Abandoned(u) == u.state = "in-progress" /\ \A p \in Procs : run[p] # LastEpoch(u).id
Stopped == \E i \in UnitIndex : EndedForGood(committed.units[i]) \/ Abandoned(committed.units[i])
StaysStopped ==
  [][committed'.generation # committed.generation \/ run' # run =>
       (Stopped => committed'.generation = committed.generation /\ Stopped')]_vars

\* A one-case command calls the provider for one case only.
OneCaseKept ==
  \A p \in Procs : intent[p].oneCase =>
    \A x, y \in invoked : x.run = run[p] /\ y.run = run[p] => CaseOf(x.unit) = CaseOf(y.unit)

\* Without faults every command ends, and every dispatch is released.
EveryCommandEnds == \A p \in Procs : pc[p] # "idle" ~> pc[p] = "idle"
DispatchFreed == marker # NoProc ~> marker = NoProc
CommandsEnd == EveryCommandEnds /\ DispatchFreed

(***************************************************************************)
(* What documents and comments say, and the code does not do.              *)
(***************************************************************************)
\* campaignCheckpointStore.ts: "An immutable owned publication intent permits
\* safe recovery of a partially written final family."
FinalFamilyRecoverable == \A p \in Procs : outcome[p] \notin {"FINAL_OWNER_MISMATCH", "ARTIFACT_INTEGRITY"}
=============================================================================
