--------------------------- MODULE TreatmentAttempts ---------------------------
(***************************************************************************)
(* One treatment of a campaign case: executeAgentSuccessRepairTreatment    *)
(* (repairExecution.ts) around executeAgentSuccessTreatment (execution.ts) *)
(* and its proposal source (realAgentExecution.ts), and what the executor  *)
(* makes of the result (campaignResumableExecution.ts, 121-129).  Every    *)
(* attempt copies the benchmark into a sandbox of its own, checks the      *)
(* copy, asks the provider from a private directory, applies the answer,   *)
(* checks again and removes what it made.  Each of these steps may fail;   *)
(* the evidence says how far the attempt came, and everything after it is  *)
(* decided from the evidence alone.                                        *)
(***************************************************************************)
EXTENDS Naturals, Sequences

CONSTANT Allowances  \* the numbers of repairs a campaign may be configured with
ASSUME AllowancesAssumption == Allowances \subseteq 0..2

VARIABLES mode, allowance, context,  \* fixed for a treatment
          pc, number,  \* where the attempt is, and its number
          evidence,    \* AgentSuccessTreatmentEvidenceV1 of the attempt
          proposal,    \* proposalText
          attempts,    \* the evidence of the attempts that ended
          runtime,     \* the runtime root, which holds the sandboxes, exists
          sandboxes, cwds,  \* attempts whose sandbox, or working directory, exists
          called,      \* attempts in which the provider was called
          outcome      \* what became of the unit

fixed == <<mode, allowance, context>>
files == <<runtime, sandboxes, cwds>>
vars == <<fixed, pc, number, evidence, proposal, attempts, files, called, outcome>>

\* Without a proposal source the task's fixture is the proposal, if it has one.
Modes == {"real-agent", "deterministic-fixture", "fixture-missing"}
Contexts == {"available", "unavailable"}
Numbers == 1..3

\* A check passed ("true"), failed ("false"), or timed out or erred ("unknown").
Tri == {"true", "false", "unknown"}
\* "skipped" and "invalid-output" are handled like "failed" wherever a call is judged.
ProviderStatuses == {"completed", "failed", "timeout", "agent-unavailable", "agent-limit-reached"}
PatchFailures == {"parse-failure", "policy-rejection", "git-check-failure", "git-apply-failure"}
Directory == {"none", "removed", "left"}
Agents == [invoked : BOOLEAN, status : ProviderStatuses \cup {"not-invoked", "absent"}, answer : BOOLEAN, cwd : Directory]
Integrity == {"intact", "mutated", "unproven"}
Posts == [task : Tri, regression : Tri, required : Tri, determinate : BOOLEAN]
\* "attempted" is a patch without an outcome.
Evidence ==
  [status : {"failed", "skipped", "partial", "completed"},
   availability : {"infrastructure-failure", "baseline-invalid", "incomplete", "complete"},
   baseline : {"none", "evaluable", "invalid"}, agent : Agents,
   patch : {"none", "attempted", "success"} \cup PatchFailures, change : BOOLEAN, post : Posts,
   integrity : Integrity, cleanup : Directory]

TypeOK ==
  /\ mode \in Modes /\ allowance \in Allowances /\ context \in Contexts
  /\ pc \in {"create", "baseline", "propose", "provider", "patch", "verify", "cleanup", "judge", "runtime", "settle", "done"}
  /\ number \in Numbers /\ evidence \in Evidence /\ proposal \in {"none", "malformed", "diff"}
  /\ attempts \in Seq(Evidence)
  /\ runtime \in BOOLEAN /\ sandboxes \subseteq Numbers /\ cwds \subseteq Numbers /\ called \subseteq Numbers
  /\ outcome \in {"none", "settled", "refused", "failed"}

Agent(invoked, status, answer, cwd) == [invoked |-> invoked, status |-> status, answer |-> answer, cwd |-> cwd]
NoAgent == Agent(FALSE, "absent", FALSE, "none")
NotInvoked == Agent(FALSE, "not-invoked", FALSE, "none")
NoPost == [task |-> "unknown", regression |-> "unknown", required |-> "unknown", determinate |-> FALSE]
NoEvidence ==
  [status |-> "failed", availability |-> "infrastructure-failure", baseline |-> "none", agent |-> NoAgent,
   patch |-> "none", change |-> FALSE, post |-> NoPost, integrity |-> "unproven", cleanup |-> "none"]

Init ==
  /\ mode \in Modes /\ allowance \in Allowances /\ context \in Contexts
  /\ pc = "create" /\ number = 1 /\ evidence = NoEvidence /\ proposal = "none" /\ attempts = <<>>
  /\ runtime = FALSE /\ sandboxes = {} /\ cwds = {} /\ called = {}
  /\ outcome = "none"

\* Mutant: evidence of the agent that is there already is replaced.
RecordNotInvokedAgain(e) == IF mode = "real-agent" THEN [e EXCEPT !.agent = NotInvoked] ELSE e

\* recordNotInvoked
RecordNotInvoked(e) == IF mode = "real-agent" /\ e.agent = NoAgent THEN [e EXCEPT !.agent = NotInvoked] ELSE e

\* A step that does not end the attempt, and leaves the unit undecided.
Goto(next) == pc' = next /\ UNCHANGED <<fixed, number, attempts, outcome>>

\* createBenchmarkSandbox.  A failure may leave the directory it had made.
CreateSandbox ==
  /\ pc = "create" /\ mode # "fixture-missing"
  /\ \/ /\ runtime' = TRUE /\ sandboxes' = sandboxes \cup {number}
        /\ Goto("baseline") /\ UNCHANGED evidence
     \/ /\ runtime' \in {runtime, TRUE}
        /\ sandboxes' \in {sandboxes} \cup (IF runtime' THEN {sandboxes \cup {number}} ELSE {})
        /\ evidence' = RecordNotInvoked(evidence)
        /\ Goto("judge")
  /\ UNCHANGED <<proposal, cwds, called>>

FixtureMissing ==
  /\ pc = "create" /\ mode = "fixture-missing"
  /\ Goto("judge") /\ UNCHANGED <<evidence, proposal, files, called>>

\* The sets hold the verdicts of the task checks and of the regression checks.
Evaluable(task, regression) ==
  "false" \in task /\ "unknown" \notin task \cup regression /\ "false" \notin regression

CheckBaseline ==
  /\ pc = "baseline"
  /\ \E task, regression \in SUBSET Tri \ {{}}, integrity \in Integrity :
       IF Evaluable(task, regression)
       THEN /\ evidence' = [evidence EXCEPT !.baseline = "evaluable"]
            /\ Goto("propose")
       ELSE /\ evidence' = RecordNotInvoked(
                 [evidence EXCEPT !.status = "skipped", !.availability = "baseline-invalid",
                                  !.baseline = "invalid", !.integrity = integrity])
            /\ Goto("cleanup")
  /\ UNCHANGED <<proposal, files, called>>

ProposeFixture ==
  /\ pc = "propose" /\ mode = "deterministic-fixture"
  /\ proposal' = "diff" /\ Goto("patch") /\ UNCHANGED <<evidence, files, called>>

\* A treatment without a proposal is incomplete; nothing is applied to its sandbox.
WithoutProposal(agent) ==
  /\ \E integrity \in Integrity :
       evidence' = [evidence EXCEPT !.agent = agent, !.status = "partial",
                                    !.availability = "incomplete", !.integrity = integrity]
  /\ Goto("cleanup") /\ UNCHANGED proposal

\* No context, a leak in the prompt, or an artifact directory that is invalid or in use.
RefuseProposal ==
  /\ pc = "propose" /\ mode = "real-agent"
  /\ WithoutProposal(NotInvoked) /\ UNCHANGED <<files, called>>

\* mkdtemp, assertNeutralCwd and the removal in the finally clause.
OpenWorkingDirectory ==
  /\ pc = "propose" /\ mode = "real-agent" /\ context = "available"
  /\ \/ WithoutProposal(Agent(FALSE, "failed", FALSE, "none")) /\ UNCHANGED cwds
     \/ \E status \in {"not-invoked", "failed"}, cwd \in {"removed", "left"} :
          /\ WithoutProposal(Agent(FALSE, status, FALSE, cwd))
          /\ cwds' = IF cwd = "left" THEN cwds \cup {number} ELSE cwds
     \/ cwds' = cwds \cup {number} /\ Goto("provider") /\ UNCHANGED <<evidence, proposal>>
  /\ UNCHANGED <<runtime, sandboxes, called>>

\* The provider's status is recorded first, its prompt contract is persisted next, and
\* only a completed call with an answer has a proposal.  providerInvoked is set before
\* runAgent, whose first steps may refuse without calling.
CallProvider ==
  /\ pc = "provider"
  /\ \E cwd \in {"removed", "left"} :
       /\ cwds' = IF cwd = "left" THEN cwds ELSE cwds \ {number}
       /\ \/ /\ called' \in {called, called \cup {number}}
             /\ WithoutProposal(Agent(TRUE, "failed", FALSE, cwd))
          \/ /\ called' = called \cup {number}
             /\ \E status \in ProviderStatuses : WithoutProposal(Agent(TRUE, status, FALSE, cwd))
          \/ /\ called' = called \cup {number}
             /\ proposal' \in {"malformed", "diff"}
             /\ evidence' = [evidence EXCEPT !.agent = Agent(TRUE, "completed", TRUE, cwd)]
             /\ Goto("patch")
  /\ UNCHANGED <<runtime, sandboxes>>

\* applyPatchToSandbox and captureChanges.
ApplyPatch ==
  /\ pc = "patch"
  /\ \/ \E failure \in PatchFailures :
          /\ proposal = "malformed" => failure = "parse-failure"
          /\ evidence' = [evidence EXCEPT !.patch = failure]
     \/ \E change \in BOOLEAN :
          /\ proposal = "diff"
          /\ evidence' = [evidence EXCEPT !.patch = "success", !.change = change]
  /\ Goto("verify") /\ UNCHANGED <<proposal, files, called>>

\* Git cannot be run: the attempt is abandoned, what it recorded so far stays.
ApplyPatchThrows ==
  /\ pc = "patch" /\ proposal = "diff"
  /\ evidence' = RecordNotInvoked([evidence EXCEPT !.patch = "attempted", !.status = "failed",
                                                   !.availability = "infrastructure-failure"])
  /\ Goto("cleanup") /\ UNCHANGED <<proposal, files, called>>

\* and3 over the verdicts in a set.
And3(verdicts) ==
  IF "false" \in verdicts THEN "false" ELSE IF "unknown" \in verdicts THEN "unknown" ELSE "true"

\* The baseline let every regression check count; a required fact names some of the checks.
Verdicts == [task : SUBSET Tri \ {{}}, regression : SUBSET Tri \ {{}}, required : SUBSET Tri]
PostEdit ==
  {[task |-> And3(v.task), regression |-> And3(v.regression), required |-> And3(v.required),
    determinate |-> "unknown" \notin v.task \cup v.regression] :
     v \in {w \in Verdicts : w.required \subseteq w.task \cup w.regression}}

\* Mutant: a working directory that is left does not matter.
CompleteDespiteCwd(e) ==
  /\ e.patch = "success" => e.change /\ e.post.determinate
  /\ e.integrity # "unproven"

Complete(e) ==
  /\ e.patch = "success" => e.change /\ e.post.determinate
  /\ e.agent.cwd # "left"
  /\ e.integrity # "unproven"

Verify ==
  /\ pc = "verify"
  /\ \E post \in IF evidence.patch = "success" THEN PostEdit ELSE {NoPost}, integrity \in Integrity :
       LET e == [evidence EXCEPT !.post = post, !.integrity = integrity]
       IN  evidence' = IF Complete(e)
                       THEN [e EXCEPT !.status = "completed", !.availability = "complete"]
                       ELSE [e EXCEPT !.status = "partial", !.availability = "incomplete"]
  /\ Goto("cleanup") /\ UNCHANGED <<proposal, files, called>>

\* removeBenchmarkSandbox in the finally clause: it removes and proves it, fails with the
\* sandbox still there, or removes it and cannot prove it.
Cleanup ==
  /\ pc = "cleanup"
  /\ \E cleanup \in {"removed", "left"}, kept \in BOOLEAN :
       /\ cleanup = "removed" => ~kept
       /\ sandboxes' = IF kept THEN sandboxes ELSE sandboxes \ {number}
       /\ evidence' = IF cleanup = "left" /\ evidence.status = "completed"
                      THEN [evidence EXCEPT !.cleanup = cleanup, !.status = "partial",
                                            !.availability = "incomplete"]
                      ELSE [evidence EXCEPT !.cleanup = cleanup]
  /\ Goto("judge") /\ UNCHANGED <<proposal, runtime, cwds, called>>

\* The metric taskSuccess of an attempt (stateOf, analyzeAgentSuccessTreatment).
TaskSuccess(e) ==
  IF e.availability \in {"infrastructure-failure", "baseline-invalid"} \/ e.patch \in {"none", "attempted"}
  THEN "unknown"
  ELSE IF e.patch \in PatchFailures
       THEN "false"
       ELSE And3({e.post.task, e.post.regression, e.post.required,
                  CASE e.integrity = "intact" -> "true"
                    [] e.integrity = "mutated" -> "false"
                    [] OTHER -> "unknown"})

\* The failure category of an attempt is one a repair may follow (classifyAgentSuccessAttempt).
\* Mutant: whatever became of the directories.
EligibleUncleaned(e) ==
  /\ e.baseline = "evaluable"
  /\ e.agent.invoked /\ e.agent.status = "completed" /\ e.agent.answer
  /\ e.integrity # "unproven"
  /\ \/ e.patch \in PatchFailures
     \/ e.patch = "success" /\ e.integrity = "intact" /\ TaskSuccess(e) = "false"

Eligible(e) ==
  /\ e.availability = "complete" /\ e.baseline = "evaluable"
  /\ e.agent.invoked /\ e.agent.status = "completed" /\ e.agent.answer
  /\ e.cleanup = "removed" /\ e.agent.cwd # "left" /\ e.integrity # "unproven"
  /\ \/ e.patch \in PatchFailures
     \/ e.patch = "success" /\ e.integrity = "intact" /\ TaskSuccess(e) = "false"

\* Mutants: one repair more than allowed; a failure that is not eligible.
ShouldRepairOnceMore(e) == Eligible(e) /\ TaskSuccess(e) = "false" /\ number <= allowance + 1 /\ number < 3
ShouldRepairUnbounded(e) == Eligible(e) /\ TaskSuccess(e) = "false" /\ number <= allowance + 1

ShouldRepair(e) == Eligible(e) /\ TaskSuccess(e) = "false" /\ number <= allowance /\ number < 3

\* executeAgentSuccessRepairTreatment: another attempt, from a new sandbox, or the end.
Judge ==
  /\ pc = "judge"
  /\ attempts' = Append(attempts, evidence)
  /\ IF mode = "real-agent" /\ ShouldRepair(evidence)
     THEN pc' = "create" /\ number' = number + 1 /\ evidence' = NoEvidence /\ proposal' = "none"
     ELSE pc' = "runtime" /\ UNCHANGED <<number, evidence, proposal>>
  /\ UNCHANGED <<fixed, files, called, outcome>>

\* rmdir of the runtime root: it must be there and be empty.
RemoveRuntime ==
  /\ pc = "runtime"
  /\ IF runtime /\ sandboxes = {}
     THEN runtime' = FALSE /\ pc' = "settle" /\ UNCHANGED outcome
     ELSE pc' = "done" /\ outcome' = "failed" /\ UNCHANGED runtime
  /\ UNCHANGED <<fixed, number, evidence, proposal, attempts, sandboxes, cwds, called>>

Reason(e) ==
  IF e.agent.status = "agent-limit-reached" THEN "provider-limit"
  ELSE IF e.status = "completed" /\ e.availability = "complete" THEN "evaluated" ELSE "incomplete"

\* validateCampaignCompletion, of the attempts of an evaluated treatment.
Acceptable(e) ==
  /\ e.status = "completed" /\ e.availability = "complete" /\ e.cleanup = "removed"
  /\ e.integrity # "unproven" /\ e.baseline = "evaluable"
  /\ e.patch \in PatchFailures \cup {"success"}
  /\ e.patch = "success" <=> e.change
  /\ e.change => e.post.determinate
  /\ IF mode = "real-agent" THEN e.agent = Agent(TRUE, "completed", TRUE, "removed") ELSE e.agent = NoAgent

LimitProof(e) ==
  /\ e.agent.invoked /\ e.availability # "complete" /\ e.patch = "none"
  /\ e.cleanup = "removed" /\ e.agent.cwd = "removed" /\ e.integrity = "intact"

\* Every attempt but the last is one a repair may follow.  The summary of an attempt
\* gives a duration only when the provider was invoked, its evidence also when the
\* working directory could not be made or examined ("failed"): then they do not agree.
Justified ==
  /\ Len(attempts) <= 1 + allowance
  /\ \A i \in 1..Len(attempts) - 1 : Eligible(attempts[i]) /\ TaskSuccess(attempts[i]) = "false"
  /\ \A i \in 1..Len(attempts) : attempts[i].agent.status = "failed" => attempts[i].agent.invoked

\* prepareCampaignEpochTerminal and the terminal transition validate the evidence.
Settle ==
  /\ pc = "settle" /\ pc' = "done"
  /\ outcome' = IF /\ Justified
                   /\ Reason(evidence) = "evaluated" => \A i \in 1..Len(attempts) : Acceptable(attempts[i])
                   /\ Reason(evidence) = "provider-limit" => LimitProof(evidence)
                THEN "settled" ELSE "refused"
  /\ UNCHANGED <<fixed, number, evidence, proposal, attempts, files, called>>

Next ==
  \/ CreateSandbox \/ FixtureMissing \/ CheckBaseline
  \/ ProposeFixture \/ RefuseProposal \/ OpenWorkingDirectory \/ CallProvider
  \/ ApplyPatch \/ ApplyPatchThrows \/ Verify \/ Cleanup
  \/ Judge \/ RemoveRuntime \/ Settle

Spec == Init /\ [][Next]_vars

(***************************************************************************)
(* Properties                                                              *)
(***************************************************************************)
\* An attempt starts when nothing is left of the attempts before it: their sandbox
\* and their working directory are gone, although removing either may fail
\* ("Nothing from a previous attempt's filesystem state is reused").
NothingReused == sandboxes \cup cwds \subseteq {number}

\* The evidence of an attempt in which the provider was called says so, however the
\* attempt ended: a later failure of the patch, the checks or the removal does not
\* turn a call that was paid for into one that never was.
CallRecorded ==
  /\ number \in called => evidence.agent.invoked
  /\ \A i \in 1..Len(attempts) : i \in called => attempts[i].agent.invoked

\* What the executor takes for an evaluated treatment is accepted by the validation of
\* the terminal epoch: execution.ts, repairPolicy.ts and validateCampaignCompletion agree
\* on what a complete attempt is.  Otherwise the unit would be left authorized, and be
\* taken for uncertain, with its evaluation lost.
EvaluatedAccepted == outcome = "refused" => Reason(evidence) # "evaluated"

stage == IF pc \in {"runtime", "settle", "done"} THEN "concluded"
         ELSE IF number \in called THEN "called" ELSE "attempting"
conclusion == IF stage = "concluded"
              THEN [reason |-> Reason(evidence), invoked |-> evidence.agent.invoked]
              ELSE [reason |-> "none", invoked |-> FALSE]

Attempts == INSTANCE ProviderAttempts
  WITH scripted <- mode # "real-agent", allowed <- allowance, attempt <- number, calls <- called

\* The treatment asks its provider at most once in an attempt, again only after an
\* answer that failed and while repairs are allowed, never for a fixture, and says
\* "evaluated" or "provider-limit" only of a treatment whose last attempt was answered.
ImplementsAttempts == Attempts!Spec

\* What the campaign command prints as new provider work, of a unit that is settled.
NewWork == IF evidence.agent.invoked THEN "invoked" ELSE "none"

\* runExperimentRunCommand.ts: "Provider evidence, never mere creation of a
\* reservation, establishes invocation."
InvocationReported == outcome = "settled" /\ NewWork = "none" => called = {}
=============================================================================
