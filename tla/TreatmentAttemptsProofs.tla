------------------------- MODULE TreatmentAttemptsProofs -------------------------
(***************************************************************************)
(* A treatment of a campaign case keeps its type, never starts an attempt  *)
(* while something of an earlier one is left, records every call of its    *)
(* provider, has every evaluation of its accepted, and implements          *)
(* ProviderAttempts.  The inductive invariant says how far the evidence of *)
(* the attempt has come at each place (Progress), what complete evidence   *)
(* proves (Evaluated), which files and calls the attempt is responsible    *)
(* for (Files, Calls) and why it was made at all (Earlier).                *)
(***************************************************************************)
EXTENDS TreatmentAttempts, TLAPS

Ended == {"runtime", "settle", "done"}

\* The agent of an attempt whose proposal is examined.
Answered(agent) ==
  IF mode = "real-agent"
  THEN agent.invoked /\ agent.status = "completed" /\ agent.answer /\ agent.cwd \in {"removed", "left"}
  ELSE agent = NoAgent

\* How far the evidence has come.
Progress ==
  /\ pc \in {"create", "baseline"} => evidence = NoEvidence
  /\ pc \in {"propose", "provider"} => evidence = [NoEvidence EXCEPT !.baseline = "evaluable"]
  /\ pc \in {"patch", "verify"} => evidence.baseline = "evaluable" /\ Answered(evidence.agent)
  /\ pc = "patch" => ~evidence.change /\ evidence.patch = "none"
  /\ pc = "verify" =>
       /\ evidence.patch \in PatchFailures \cup {"success"}
       /\ evidence.change => evidence.patch = "success"
  /\ pc \in {"patch", "verify"} => evidence.status = "failed" /\ evidence.availability = "infrastructure-failure"
  /\ pc \in {"patch", "verify", "cleanup"} => evidence.cleanup = "none"
  /\ pc \in {"baseline", "propose", "provider"} => mode # "fixture-missing"
  /\ pc = "provider" => mode = "real-agent"
  /\ mode # "real-agent" => evidence.agent = NoAgent /\ number = 1

\* What complete evidence proves, once its sandbox is removed.
Evaluated ==
  evidence.status = "completed" \/ evidence.availability = "complete" =>
    /\ evidence.status = "completed" /\ evidence.availability = "complete"
    /\ pc # "cleanup" => evidence.cleanup = "removed"
    /\ evidence.integrity # "unproven" /\ evidence.baseline = "evaluable"
    /\ evidence.patch \in PatchFailures \cup {"success"}
    /\ evidence.patch = "success" <=> evidence.change
    /\ evidence.change => evidence.post.determinate
    /\ Answered(evidence.agent) /\ evidence.agent.cwd # "left"

\* The attempt answers for every file that is left.
Files ==
  /\ NothingReused
  /\ pc = "create" => sandboxes = {} /\ cwds = {}
  /\ evidence.cleanup = "removed" => sandboxes = {}
  /\ cwds # {} => pc = "provider" \/ evidence.agent.cwd = "left"

\* The provider is called at the place "provider", and never without evidence of it.
Calls ==
  /\ CallRecorded
  /\ \A i \in called : i <= number
  /\ pc \in {"create", "baseline", "propose", "provider"} => number \notin called
  /\ evidence.agent.status \in ProviderStatuses \ {"failed"} => number \in called

\* Every attempt but the present one was eligible for a repair that was allowed.
Earlier ==
  /\ number <= 1 + allowance
  /\ Len(attempts) = IF pc \in Ended THEN number ELSE number - 1
  /\ pc \in Ended => attempts[number] = evidence
  /\ \A i \in 1..number - 1 :
       Eligible(attempts[i]) /\ TaskSuccess(attempts[i]) = "false" /\ Acceptable(attempts[i])

Outcome ==
  /\ EvaluatedAccepted
  /\ pc \notin Ended => outcome = "none"

Inductive == TypeOK /\ Progress /\ Evaluated /\ Files /\ Calls /\ Earlier /\ Outcome

USE DEF fixed, files

\* The constants that evidence is made of are of its type.
LEMMA NoEvidenceType == NoAgent \in Agents /\ NotInvoked \in Agents /\ NoPost \in Posts /\ NoEvidence \in Evidence
  BY DEF NoAgent, NotInvoked, Agent, Agents, NoPost, Posts, Tri, NoEvidence, Evidence, Directory,
     ProviderStatuses, Integrity, PatchFailures

\* recordNotInvoked only fills in an agent that is not there.
LEMMA RecordNotInvokedFacts ==
  ASSUME NEW e \in Evidence
  PROVE  LET r == RecordNotInvoked(e) IN
         /\ r \in Evidence
         /\ r.status = e.status /\ r.availability = e.availability /\ r.baseline = e.baseline
         /\ r.patch = e.patch /\ r.change = e.change /\ r.integrity = e.integrity
         /\ r.cleanup = e.cleanup /\ r.post = e.post
         /\ r.agent = e.agent \/ (mode = "real-agent" /\ e.agent = NoAgent /\ r.agent = NotInvoked)
         /\ mode = "real-agent" => r.agent # NoAgent
  BY NoEvidenceType DEF RecordNotInvoked, Evidence, NotInvoked, NoAgent, Agent

\* A treatment that has not begun satisfies the inductive invariant.
LEMMA InitInductive == Init => Inductive
<1> SUFFICES ASSUME Init PROVE Inductive
  OBVIOUS
<1>1. TypeOK
  <2>1. runtime \in BOOLEAN /\ evidence \in Evidence
    BY NoEvidenceType DEF Init
  <2>2. attempts \in Seq(Evidence)
    BY DEF Init
  <2>3. number \in Numbers /\ sandboxes \subseteq Numbers /\ cwds \subseteq Numbers /\ called \subseteq Numbers
    BY DEF Init, Numbers
  <2> QED
    BY <2>1, <2>2, <2>3 DEF Init, TypeOK
<1>2. Progress /\ Evaluated
  BY DEF Init, Progress, Evaluated, NoEvidence
<1>3. Files /\ Calls
  BY DEF Init, Files, NothingReused, Calls, CallRecorded, NoEvidence, NoAgent, Agent, ProviderStatuses
<1>4. Earlier /\ Outcome
  BY AllowancesAssumption DEF Init, Earlier, Outcome, EvaluatedAccepted, Ended
<1> QED
  BY <1>1, <1>2, <1>3, <1>4 DEF Inductive

\* An attempt without a proposal leaves evidence of its type.
LEMMA WithoutProposalFacts ==
  ASSUME TypeOK, NEW agent \in Agents, WithoutProposal(agent)
  PROVE  /\ evidence' \in Evidence /\ evidence'.agent = agent
         /\ evidence'.status = "partial" /\ evidence'.availability = "incomplete"
         /\ evidence'.patch = evidence.patch /\ evidence'.change = evidence.change
         /\ evidence'.cleanup = evidence.cleanup /\ evidence'.baseline = evidence.baseline
         /\ pc' = "cleanup" /\ number' = number /\ attempts' = attempts /\ outcome' = outcome
         /\ mode' = mode /\ allowance' = allowance /\ context' = context /\ proposal' = proposal
  BY DEF WithoutProposal, Goto, TypeOK, Evidence

\* What is observed of the post-edit checks is of its type.
LEMMA PostEditType == PostEdit \subseteq Posts
<1>1. \A verdicts : And3(verdicts) \in Tri
  BY DEF And3, Tri
<1>2. SUFFICES ASSUME NEW post \in PostEdit PROVE post \in Posts
  OBVIOUS
<1>3. \E v \in Verdicts :
        post = [task |-> And3(v.task), regression |-> And3(v.regression), required |-> And3(v.required),
                determinate |-> "unknown" \notin v.task \cup v.regression]
  BY DEF PostEdit
<1> QED
  BY <1>1, <1>3 DEF Posts

\* Every record the agent of an attempt may be.
LEMMA AgentType ==
  ASSUME NEW invoked \in BOOLEAN, NEW status \in ProviderStatuses \cup {"not-invoked", "absent"},
         NEW answer \in BOOLEAN, NEW cwd \in Directory
  PROVE  /\ Agent(invoked, status, answer, cwd) \in Agents
         /\ Agent(invoked, status, answer, cwd).invoked = invoked
         /\ Agent(invoked, status, answer, cwd).status = status
         /\ Agent(invoked, status, answer, cwd).answer = answer
         /\ Agent(invoked, status, answer, cwd).cwd = cwd
  BY DEF Agent, Agents

\* Every step keeps the type of the variables.
LEMMA TypePreserved == ASSUME Inductive, Next PROVE TypeOK'
<1> USE DEF Inductive
<1>1. CASE CreateSandbox
  <2>1. evidence' \in Evidence
    BY <1>1, RecordNotInvokedFacts DEF CreateSandbox, TypeOK
  <2>2. runtime' \in BOOLEAN /\ sandboxes' \subseteq Numbers
    BY <1>1 DEF CreateSandbox, TypeOK
  <2> QED
    BY <1>1, <2>1, <2>2 DEF CreateSandbox, Goto, TypeOK
<1>2. CASE FixtureMissing
  BY <1>2 DEF FixtureMissing, Goto, TypeOK
<1>3. CASE CheckBaseline
  <2>1. PICK task, regression \in SUBSET Tri \ {{}}, integrity \in Integrity :
          IF Evaluable(task, regression)
          THEN /\ evidence' = [evidence EXCEPT !.baseline = "evaluable"]
               /\ Goto("propose")
          ELSE /\ evidence' = RecordNotInvoked(
                    [evidence EXCEPT !.status = "skipped", !.availability = "baseline-invalid",
                                     !.baseline = "invalid", !.integrity = integrity])
               /\ Goto("cleanup")
    BY <1>3 DEF CheckBaseline
  <2>2. /\ [evidence EXCEPT !.baseline = "evaluable"] \in Evidence
        /\ [evidence EXCEPT !.status = "skipped", !.availability = "baseline-invalid",
                            !.baseline = "invalid", !.integrity = integrity] \in Evidence
    BY DEF TypeOK, Evidence
  <2>3. evidence' \in Evidence
    BY <2>1, <2>2, RecordNotInvokedFacts
  <2> QED
    BY <1>3, <2>1, <2>3 DEF CheckBaseline, Goto, TypeOK
<1>4. CASE ProposeFixture
  BY <1>4 DEF ProposeFixture, Goto, TypeOK
<1>5. CASE RefuseProposal
  BY <1>5, NoEvidenceType, WithoutProposalFacts DEF RefuseProposal, TypeOK
<1>6. CASE OpenWorkingDirectory
  <2>1. cwds' \subseteq Numbers
    BY <1>6 DEF OpenWorkingDirectory, TypeOK
  <2>2. evidence' \in Evidence /\ pc' \in {"cleanup", "provider"}
    <3>1. Agent(FALSE, "failed", FALSE, "none") \in Agents
      BY AgentType DEF ProviderStatuses, Directory
    <3>2. \A status \in {"not-invoked", "failed"}, cwd \in {"removed", "left"} :
            Agent(FALSE, status, FALSE, cwd) \in Agents
      BY AgentType DEF ProviderStatuses, Directory
    <3> QED
      BY <1>6, <3>1, <3>2, WithoutProposalFacts DEF OpenWorkingDirectory, Goto, TypeOK
  <2> QED
    BY <1>6, <2>1, <2>2 DEF OpenWorkingDirectory, WithoutProposal, Goto, TypeOK
<1>7. CASE CallProvider
  <2>1. cwds' \subseteq Numbers /\ called' \subseteq Numbers
    BY <1>7 DEF CallProvider, TypeOK
  <2>2. evidence' \in Evidence /\ pc' \in {"cleanup", "patch"} /\ proposal' \in {"none", "malformed", "diff"}
    <3>1. \A status \in ProviderStatuses, answer \in BOOLEAN, cwd \in {"removed", "left"} :
            Agent(TRUE, status, answer, cwd) \in Agents
      BY AgentType DEF ProviderStatuses, Directory
    <3>2. \A agent \in Agents : [evidence EXCEPT !.agent = agent] \in Evidence
      BY DEF TypeOK, Evidence
    <3> QED
      BY <1>7, <3>1, <3>2, WithoutProposalFacts DEF CallProvider, Goto, TypeOK, ProviderStatuses
  <2> QED
    BY <1>7, <2>1, <2>2 DEF CallProvider, WithoutProposal, Goto, TypeOK
<1>8. CASE ApplyPatch
  <2>1. evidence' \in Evidence
    BY <1>8 DEF ApplyPatch, TypeOK, Evidence
  <2> QED
    BY <1>8, <2>1 DEF ApplyPatch, Goto, TypeOK
<1>9. CASE ApplyPatchThrows
  <2>1. [evidence EXCEPT !.patch = "attempted", !.status = "failed",
                         !.availability = "infrastructure-failure"] \in Evidence
    BY DEF TypeOK, Evidence
  <2>2. evidence' \in Evidence
    BY <1>9, <2>1, RecordNotInvokedFacts DEF ApplyPatchThrows
  <2> QED
    BY <1>9, <2>2 DEF ApplyPatchThrows, Goto, TypeOK
<1>10. CASE Verify
  <2>1. PICK post \in IF evidence.patch = "success" THEN PostEdit ELSE {NoPost}, integrity \in Integrity :
          LET e == [evidence EXCEPT !.post = post, !.integrity = integrity]
          IN  evidence' = IF Complete(e)
                          THEN [e EXCEPT !.status = "completed", !.availability = "complete"]
                          ELSE [e EXCEPT !.status = "partial", !.availability = "incomplete"]
    BY <1>10 DEF Verify
  <2>2. post \in Posts
    BY PostEditType, NoEvidenceType
  <2>3. evidence' \in Evidence
    BY <2>1, <2>2 DEF TypeOK, Evidence
  <2> QED
    BY <1>10, <2>3 DEF Verify, Goto, TypeOK
<1>11. CASE Cleanup
  <2>1. evidence' \in Evidence
    BY <1>11 DEF Cleanup, TypeOK, Evidence, Directory
  <2> QED
    BY <1>11, <2>1 DEF Cleanup, Goto, TypeOK
<1>12. CASE Judge
  <2>1. attempts' \in Seq(Evidence)
    BY <1>12 DEF Judge, TypeOK
  <2>2. number' \in Numbers
    BY <1>12 DEF Judge, ShouldRepair, TypeOK, Numbers
  <2>3. evidence' \in Evidence
    BY <1>12, NoEvidenceType DEF Judge, TypeOK
  <2> QED
    BY <1>12, <2>1, <2>2, <2>3 DEF Judge, TypeOK
<1>13. CASE RemoveRuntime
  BY <1>13 DEF RemoveRuntime, TypeOK
<1>14. CASE Settle
  BY <1>14 DEF Settle, TypeOK
<1> QED
  BY <1>1, <1>2, <1>3, <1>4, <1>5, <1>6, <1>7, <1>8, <1>9, <1>10, <1>11, <1>12, <1>13, <1>14 DEF Next

\* What a failure to make the sandbox leaves.
LEMMA CreateSandboxFacts ==
  ASSUME Inductive, CreateSandbox
  PROVE  /\ pc = "create" /\ pc' \in {"baseline", "judge"} /\ number' = number /\ attempts' = attempts
         /\ mode' = mode /\ outcome' = outcome /\ called' = called /\ cwds' = cwds
         /\ sandboxes' \in {sandboxes, sandboxes \cup {number}}
         /\ evidence'.status = "failed" /\ evidence'.availability = "infrastructure-failure"
         /\ evidence'.cleanup = "none" /\ evidence'.agent.status \in {"absent", "not-invoked"}
<1> USE DEF Inductive
<1>1. evidence = NoEvidence /\ pc = "create"
  BY DEF CreateSandbox, Progress
<1>2. evidence' \in {NoEvidence, RecordNotInvoked(NoEvidence)}
  BY <1>1 DEF CreateSandbox
<1>3. \A e \in {NoEvidence, RecordNotInvoked(NoEvidence)} :
        /\ e.status = "failed" /\ e.availability = "infrastructure-failure"
        /\ e.cleanup = "none" /\ e.agent.status \in {"absent", "not-invoked"}
  BY DEF RecordNotInvoked, NoEvidence, NoAgent, NotInvoked, Agent
<1>4. /\ pc' \in {"baseline", "judge"} /\ number' = number /\ attempts' = attempts
      /\ mode' = mode /\ outcome' = outcome /\ called' = called /\ cwds' = cwds
      /\ sandboxes' \in {sandboxes, sandboxes \cup {number}}
  BY DEF CreateSandbox, Goto
<1> QED
  BY <1>1, <1>2, <1>3, <1>4

\* A baseline that is not evaluable ends the attempt before the agent is asked.
LEMMA CheckBaselineFacts ==
  ASSUME Inductive, CheckBaseline
  PROVE  /\ pc = "baseline" /\ mode' = mode /\ number' = number /\ attempts' = attempts /\ outcome' = outcome
         /\ \/ pc' = "propose" /\ evidence' = [NoEvidence EXCEPT !.baseline = "evaluable"]
            \/ /\ pc' = "cleanup" /\ evidence'.status = "skipped" /\ evidence'.availability = "baseline-invalid"
               /\ evidence'.cleanup = "none" /\ evidence'.agent \in {NoAgent, NotInvoked}
               /\ evidence'.agent = NotInvoked => mode = "real-agent"
<1> USE DEF Inductive
<1>1. evidence = NoEvidence /\ pc = "baseline"
  BY DEF CheckBaseline, Progress
<1>2. PICK task, regression \in SUBSET Tri \ {{}}, integrity \in Integrity :
        IF Evaluable(task, regression)
        THEN /\ evidence' = [evidence EXCEPT !.baseline = "evaluable"]
             /\ Goto("propose")
        ELSE /\ evidence' = RecordNotInvoked(
                  [evidence EXCEPT !.status = "skipped", !.availability = "baseline-invalid",
                                   !.baseline = "invalid", !.integrity = integrity])
             /\ Goto("cleanup")
  BY DEF CheckBaseline
<1>3. CASE Evaluable(task, regression)
  BY <1>1, <1>2, <1>3 DEF Goto
<1>4. CASE ~Evaluable(task, regression)
  <2> DEFINE skipped == [evidence EXCEPT !.status = "skipped", !.availability = "baseline-invalid",
                                         !.baseline = "invalid", !.integrity = integrity]
  <2>1. /\ skipped \in Evidence /\ skipped.status = "skipped" /\ skipped.availability = "baseline-invalid"
        /\ skipped.cleanup = "none" /\ skipped.agent = NoAgent
    BY <1>1 DEF TypeOK, Evidence, NoEvidence
  <2>2. evidence' = RecordNotInvoked(skipped) /\ Goto("cleanup")
    BY <1>2, <1>4
  <2> HIDE DEF skipped
  <2>3. NotInvoked # NoAgent
    BY DEF NotInvoked, NoAgent, Agent
  <2> QED
    BY <1>1, <2>1, <2>2, <2>3, RecordNotInvokedFacts DEF Goto
<1> QED
  BY <1>3, <1>4

\* A call leaves an answer to examine, or ends the attempt without one.
LEMMA CallProviderFacts ==
  ASSUME Inductive, CallProvider
  PROVE  /\ pc = "provider" /\ mode = "real-agent"
         /\ mode' = mode /\ number' = number /\ attempts' = attempts /\ outcome' = outcome
         /\ called' \in {called, called \cup {number}} /\ sandboxes' = sandboxes
         /\ evidence'.agent.invoked /\ evidence'.agent.cwd \in {"removed", "left"}
         /\ evidence'.agent.status \in ProviderStatuses
         /\ evidence'.agent.status # "failed" => number \in called'
         /\ cwds' = IF evidence'.agent.cwd = "left" THEN cwds ELSE cwds \ {number}
         /\ evidence'.patch = "none" /\ ~evidence'.change /\ evidence'.cleanup = "none"
         /\ evidence'.baseline = "evaluable"
         /\ \/ /\ pc' = "patch" /\ evidence'.status = "failed" /\ evidence'.availability = "infrastructure-failure"
               /\ evidence'.agent.status = "completed" /\ evidence'.agent.answer
            \/ pc' = "cleanup" /\ evidence'.status = "partial" /\ evidence'.availability = "incomplete"
<1> USE DEF Inductive
<1>1. /\ evidence = [NoEvidence EXCEPT !.baseline = "evaluable"] /\ pc = "provider" /\ mode = "real-agent"
      /\ evidence.agent = NoAgent /\ evidence.patch = "none" /\ ~evidence.change /\ evidence.cleanup = "none"
      /\ evidence.baseline = "evaluable" /\ evidence.status = "failed"
      /\ evidence.availability = "infrastructure-failure"
  BY DEF CallProvider, Progress, NoEvidence
<1>2. PICK cwd \in {"removed", "left"} :
        /\ cwds' = IF cwd = "left" THEN cwds ELSE cwds \ {number}
        /\ \/ /\ called' \in {called, called \cup {number}}
              /\ WithoutProposal(Agent(TRUE, "failed", FALSE, cwd))
           \/ /\ called' = called \cup {number}
              /\ \E status \in ProviderStatuses : WithoutProposal(Agent(TRUE, status, FALSE, cwd))
           \/ /\ called' = called \cup {number}
              /\ proposal' \in {"malformed", "diff"}
              /\ evidence' = [evidence EXCEPT !.agent = Agent(TRUE, "completed", TRUE, cwd)]
              /\ Goto("patch")
  BY DEF CallProvider
<1>3. sandboxes' = sandboxes
  BY DEF CallProvider
<1>4. ASSUME NEW status \in ProviderStatuses, WithoutProposal(Agent(TRUE, status, FALSE, cwd))
      PROVE  /\ pc' = "cleanup" /\ evidence'.status = "partial" /\ evidence'.availability = "incomplete"
             /\ evidence'.agent.invoked /\ evidence'.agent.cwd = cwd /\ evidence'.agent.status = status
             /\ evidence'.patch = "none" /\ ~evidence'.change /\ evidence'.cleanup = "none"
             /\ evidence'.baseline = "evaluable"
             /\ mode' = mode /\ number' = number /\ attempts' = attempts /\ outcome' = outcome
  <2>1. /\ Agent(TRUE, status, FALSE, cwd) \in Agents /\ Agent(TRUE, status, FALSE, cwd).invoked
        /\ Agent(TRUE, status, FALSE, cwd).cwd = cwd /\ Agent(TRUE, status, FALSE, cwd).status = status
    BY DEF Agent, Agents, Directory
  <2>2. TypeOK
    OBVIOUS
  <2> QED
    BY <1>1, <1>4, <2>1, <2>2, WithoutProposalFacts
<1>5. CASE /\ called' \in {called, called \cup {number}}
           /\ WithoutProposal(Agent(TRUE, "failed", FALSE, cwd))
  BY <1>1, <1>2, <1>3, <1>4, <1>5 DEF ProviderStatuses, Progress
<1>6. CASE /\ called' = called \cup {number}
           /\ \E status \in ProviderStatuses : WithoutProposal(Agent(TRUE, status, FALSE, cwd))
  BY <1>1, <1>2, <1>3, <1>4, <1>6 DEF Progress
<1>7. CASE /\ called' = called \cup {number}
           /\ evidence' = [evidence EXCEPT !.agent = Agent(TRUE, "completed", TRUE, cwd)]
           /\ Goto("patch")
  <2>1. evidence'.agent = Agent(TRUE, "completed", TRUE, cwd)
    BY <1>1, <1>7 DEF NoEvidence
  <2>2. evidence'.agent.invoked /\ evidence'.agent.status = "completed" /\ evidence'.agent.answer /\ evidence'.agent.cwd = cwd
    BY <2>1 DEF Agent
  <2>3. /\ evidence'.patch = evidence.patch /\ evidence'.change = evidence.change
        /\ evidence'.cleanup = evidence.cleanup /\ evidence'.baseline = evidence.baseline
        /\ evidence'.status = evidence.status /\ evidence'.availability = evidence.availability
    BY <1>7 DEF TypeOK, Evidence
  <2>4. "completed" \in ProviderStatuses
    BY DEF ProviderStatuses
  <2> QED
    BY <1>1, <1>2, <1>3, <1>7, <2>2, <2>3, <2>4 DEF Goto
<1> QED
  BY <1>1, <1>2, <1>5, <1>6, <1>7

\* The working directory is there for the provider, or the attempt ends without a proposal.
LEMMA OpenWorkingDirectoryFacts ==
  ASSUME Inductive, OpenWorkingDirectory
  PROVE  /\ pc = "propose" /\ mode = "real-agent"
         /\ mode' = mode /\ number' = number /\ attempts' = attempts /\ outcome' = outcome
         /\ called' = called /\ sandboxes' = sandboxes
         /\ evidence'.cleanup = "none"
         /\ \/ pc' = "provider" /\ evidence' = evidence /\ cwds' = cwds \cup {number}
            \/ /\ pc' = "cleanup" /\ evidence'.status = "partial" /\ evidence'.availability = "incomplete"
               /\ evidence'.agent.status \in {"failed", "not-invoked"}
               /\ cwds' = IF evidence'.agent.cwd = "left" THEN cwds \cup {number} ELSE cwds
<1> USE DEF Inductive
<1>1. evidence.cleanup = "none" /\ pc = "propose" /\ mode = "real-agent"
  BY DEF OpenWorkingDirectory, Progress, NoEvidence
<1>2. ASSUME NEW status \in {"not-invoked", "failed"}, NEW cwd \in Directory,
             WithoutProposal(Agent(FALSE, status, FALSE, cwd))
      PROVE  /\ pc' = "cleanup" /\ evidence'.status = "partial" /\ evidence'.availability = "incomplete"
             /\ evidence'.agent.status = status /\ evidence'.agent.cwd = cwd /\ evidence'.cleanup = "none"
             /\ mode' = mode /\ number' = number /\ attempts' = attempts /\ outcome' = outcome
  <2>1. /\ Agent(FALSE, status, FALSE, cwd) \in Agents
        /\ Agent(FALSE, status, FALSE, cwd).cwd = cwd /\ Agent(FALSE, status, FALSE, cwd).status = status
    BY DEF Agent, Agents, ProviderStatuses
  <2>2. TypeOK
    OBVIOUS
  <2> QED
    BY <1>1, <1>2, <2>1, <2>2, WithoutProposalFacts
<1>3. called' = called /\ sandboxes' = sandboxes
  BY DEF OpenWorkingDirectory
<1>4. CASE WithoutProposal(Agent(FALSE, "failed", FALSE, "none")) /\ UNCHANGED cwds
  BY <1>1, <1>2, <1>3, <1>4 DEF Directory
<1>5. CASE \E status \in {"not-invoked", "failed"}, cwd \in {"removed", "left"} :
             /\ WithoutProposal(Agent(FALSE, status, FALSE, cwd))
             /\ cwds' = IF cwd = "left" THEN cwds \cup {number} ELSE cwds
  BY <1>1, <1>2, <1>3, <1>5 DEF Directory
<1>6. CASE cwds' = cwds \cup {number} /\ Goto("provider") /\ UNCHANGED <<evidence, proposal>>
  BY <1>1, <1>3, <1>6 DEF Goto
<1> QED
  BY <1>4, <1>5, <1>6 DEF OpenWorkingDirectory

\* The evidence of an attempt says how far it has come.
LEMMA ProgressPreserved == ASSUME Inductive, Next PROVE Progress'
<1> USE DEF Inductive
<1> mode' = mode
  BY DEF Next, CreateSandbox, FixtureMissing, CheckBaseline, ProposeFixture, RefuseProposal,
     OpenWorkingDirectory, CallProvider, ApplyPatch, ApplyPatchThrows, Verify, Cleanup, Judge,
     RemoveRuntime, Settle, WithoutProposal, Goto
<1>1. CASE CreateSandbox
  BY <1>1, RecordNotInvokedFacts DEF CreateSandbox, Goto, TypeOK, NoEvidence, Progress, Answered
<1>2. CASE FixtureMissing
  BY <1>2 DEF FixtureMissing, Goto, Progress, Answered
<1>3. CASE CheckBaseline
  BY <1>3, CheckBaselineFacts DEF Progress, NoEvidence, Answered
<1>4. CASE ProposeFixture
  BY <1>4 DEF ProposeFixture, Goto, NoEvidence, Progress, Answered
<1>5. CASE RefuseProposal
  BY <1>5, NoEvidenceType, WithoutProposalFacts DEF RefuseProposal, NoEvidence, Progress, Answered
<1>6. CASE OpenWorkingDirectory
  BY <1>6, AgentType, WithoutProposalFacts DEF OpenWorkingDirectory, Goto, NoEvidence, ProviderStatuses, Directory, Progress, Answered
<1>7. CASE CallProvider
  BY <1>7, CallProviderFacts DEF Progress, Answered
<1>8. CASE ApplyPatch
  BY <1>8 DEF ApplyPatch, Goto, TypeOK, Evidence, Progress, Answered
<1>9. CASE ApplyPatchThrows
  BY <1>9 DEF ApplyPatchThrows, Goto, RecordNotInvoked, TypeOK, Evidence, Progress, Answered
<1>10. CASE Verify
  BY <1>10 DEF Verify, Goto, TypeOK, Evidence, Progress, Answered
<1>11. CASE Cleanup
  BY <1>11 DEF Cleanup, Goto, TypeOK, Evidence, Progress, Answered
<1>12. CASE Judge
  BY <1>12 DEF Judge, Goto, Progress, Answered
<1>13. CASE RemoveRuntime
  BY <1>13 DEF RemoveRuntime, Goto, Progress, Answered
<1>14. CASE Settle
  BY <1>14 DEF Settle, Goto, Progress, Answered
<1> QED
  BY <1>1, <1>2, <1>3, <1>4, <1>5, <1>6, <1>7, <1>8, <1>9, <1>10, <1>11, <1>12, <1>13, <1>14 DEF Next

\* Complete evidence keeps proving what it proved.
LEMMA EvaluatedPreserved == ASSUME Inductive, Next PROVE Evaluated'
<1> USE DEF Inductive
<1> mode' = mode
  BY DEF Next, CreateSandbox, FixtureMissing, CheckBaseline, ProposeFixture, RefuseProposal,
     OpenWorkingDirectory, CallProvider, ApplyPatch, ApplyPatchThrows, Verify, Cleanup, Judge,
     RemoveRuntime, Settle, WithoutProposal, Goto
<1>1. CASE CreateSandbox
  BY <1>1, CreateSandboxFacts DEF Evaluated
<1>2. CASE FixtureMissing
  BY <1>2 DEF FixtureMissing, Goto, Evaluated, Progress, NoEvidence
<1>3. CASE CheckBaseline
  BY <1>3, CheckBaselineFacts DEF Evaluated, NoEvidence
<1>4. CASE ProposeFixture
  BY <1>4 DEF ProposeFixture, Goto, Evaluated, Progress, NoEvidence
<1>5. CASE RefuseProposal
  BY <1>5, NoEvidenceType, WithoutProposalFacts DEF RefuseProposal, Evaluated
<1>6. CASE OpenWorkingDirectory
  BY <1>6, OpenWorkingDirectoryFacts DEF Evaluated, Progress, NoEvidence
<1>7. CASE CallProvider
  BY <1>7, CallProviderFacts DEF Evaluated
<1>8. CASE ApplyPatch
  <2>1. evidence'.status = "failed" /\ evidence'.availability = "infrastructure-failure"
    BY <1>8 DEF ApplyPatch, Progress, TypeOK, Evidence
  <2> QED
    BY <2>1 DEF Evaluated
<1>9. CASE ApplyPatchThrows
  <2> DEFINE abandoned == [evidence EXCEPT !.patch = "attempted", !.status = "failed",
                                           !.availability = "infrastructure-failure"]
  <2>1. abandoned \in Evidence /\ abandoned.status = "failed" /\ abandoned.availability = "infrastructure-failure"
    BY DEF TypeOK, Evidence
  <2>2. evidence' = RecordNotInvoked(abandoned)
    BY <1>9 DEF ApplyPatchThrows
  <2> HIDE DEF abandoned
  <2> QED
    BY <2>1, <2>2, RecordNotInvokedFacts DEF Evaluated
<1>10. CASE Verify
  <2>1. PICK post \in IF evidence.patch = "success" THEN PostEdit ELSE {NoPost}, integrity \in Integrity :
          LET e == [evidence EXCEPT !.post = post, !.integrity = integrity]
          IN  evidence' = IF Complete(e)
                          THEN [e EXCEPT !.status = "completed", !.availability = "complete"]
                          ELSE [e EXCEPT !.status = "partial", !.availability = "incomplete"]
    BY <1>10 DEF Verify
  <2> DEFINE e == [evidence EXCEPT !.post = post, !.integrity = integrity]
  <2>2. /\ e.patch = evidence.patch /\ e.change = evidence.change /\ e.post = post
        /\ e.integrity = integrity /\ e.agent = evidence.agent /\ e.baseline = evidence.baseline
    BY DEF TypeOK, Evidence
  <2>3. CASE Complete(e)
    <3>1. /\ evidence'.patch = e.patch /\ evidence'.change = e.change /\ evidence'.post = e.post
          /\ evidence'.integrity = e.integrity /\ evidence'.agent = e.agent /\ evidence'.baseline = e.baseline
          /\ evidence'.status = "completed" /\ evidence'.availability = "complete"
      BY <2>1, <2>3 DEF TypeOK, Evidence
    <3>2. pc = "verify" /\ pc' = "cleanup"
      BY <1>10 DEF Verify, Goto
    <3> QED
      BY <2>2, <2>3, <3>1, <3>2 DEF Complete, Evaluated, Progress, Answered
  <2>4. CASE ~Complete(e)
    <3>1. evidence'.status = "partial" /\ evidence'.availability = "incomplete"
      BY <2>1, <2>4 DEF TypeOK, Evidence
    <3> QED
      BY <3>1 DEF Evaluated
  <2> QED
    BY <2>3, <2>4
<1>11. CASE Cleanup
  BY <1>11 DEF Cleanup, Goto, Evaluated, Answered, TypeOK, Evidence
<1>12. CASE Judge
  BY <1>12 DEF Judge, Evaluated, NoEvidence, Answered
<1>13. CASE RemoveRuntime
  BY <1>13 DEF RemoveRuntime, Evaluated, Answered
<1>14. CASE Settle
  BY <1>14 DEF Settle, Evaluated, Answered
<1> QED
  BY <1>1, <1>2, <1>3, <1>4, <1>5, <1>6, <1>7, <1>8, <1>9, <1>10, <1>11, <1>12, <1>13, <1>14 DEF Next

\* The attempt keeps answering for the files that are left.
LEMMA FilesPreserved == ASSUME Inductive, Next PROVE Files'
<1> USE DEF Inductive
<1>0. number \in Nat
  BY DEF TypeOK, Numbers
<1>1. CASE CreateSandbox
  <2>1. evidence'.cleanup = "none" /\ cwds' = {} /\ pc' # "create"
    BY <1>1, CreateSandboxFacts DEF Files
  <2>2. sandboxes' \subseteq {number} /\ number' = number
    BY <1>1 DEF CreateSandbox, Goto, Files
  <2> QED
    BY <2>1, <2>2 DEF Files, NothingReused
<1>2. CASE FixtureMissing
  BY <1>2 DEF FixtureMissing, Goto, Files, NothingReused
<1>3. CASE CheckBaseline
  <2>1. evidence = NoEvidence /\ pc = "baseline"
    BY <1>3 DEF CheckBaseline, Progress
  <2>2. NoEvidence.agent.cwd = "none"
    BY DEF NoEvidence, NoAgent, Agent
  <2>3. cwds = {}
    BY <2>1, <2>2 DEF Files
  <2>4. evidence'.cleanup = "none"
    BY <1>3, CheckBaselineFacts DEF NoEvidence
  <2> QED
    BY <1>3, <2>3, <2>4, CheckBaselineFacts DEF CheckBaseline, Files, NothingReused
<1>4. CASE ProposeFixture
  BY <1>4 DEF ProposeFixture, Goto, Files, NothingReused
<1>5. CASE RefuseProposal
  <2>1. cwds = {} /\ evidence.cleanup = "none"
    BY <1>5 DEF RefuseProposal, Progress, Files, NoEvidence, NoAgent, Agent
  <2> QED
    BY <1>5, <2>1, NoEvidenceType, WithoutProposalFacts DEF RefuseProposal, Files, NothingReused
<1>6. CASE OpenWorkingDirectory
  <2>1. cwds = {}
    BY <1>6 DEF OpenWorkingDirectory, Progress, Files, NoEvidence, NoAgent, Agent
  <2> QED
    BY <1>6, <2>1, OpenWorkingDirectoryFacts DEF Files, NothingReused
<1>7. CASE CallProvider
  BY <1>7, CallProviderFacts DEF Files, NothingReused
<1>8. CASE ApplyPatch
  <2>1. evidence'.agent = evidence.agent /\ evidence'.cleanup = evidence.cleanup
    BY <1>8 DEF ApplyPatch, TypeOK, Evidence
  <2> QED
    BY <1>8, <2>1 DEF ApplyPatch, Goto, Files, NothingReused
<1>9. CASE ApplyPatchThrows
  <2>1. evidence'.cleanup = evidence.cleanup /\ evidence'.agent \in {evidence.agent, NotInvoked}
        /\ (evidence'.agent # evidence.agent => evidence.agent = NoAgent)
    <3> DEFINE abandoned == [evidence EXCEPT !.patch = "attempted", !.status = "failed",
                                             !.availability = "infrastructure-failure"]
    <3>1. abandoned \in Evidence /\ abandoned.cleanup = evidence.cleanup /\ abandoned.agent = evidence.agent
      BY DEF TypeOK, Evidence
    <3>2. evidence' = RecordNotInvoked(abandoned)
      BY <1>9 DEF ApplyPatchThrows
    <3> HIDE DEF abandoned
    <3> QED
      BY <3>1, <3>2, RecordNotInvokedFacts
  <2> QED
    BY <1>9, <2>1 DEF ApplyPatchThrows, Goto, Files, NothingReused, NoAgent, Agent
<1>10. CASE Verify
  <2>1. evidence'.agent = evidence.agent /\ evidence'.cleanup = evidence.cleanup
    BY <1>10 DEF Verify, TypeOK, Evidence
  <2> QED
    BY <1>10, <2>1 DEF Verify, Goto, Files, NothingReused
<1>11. CASE Cleanup
  <2>1. PICK cleanup \in {"removed", "left"}, kept \in BOOLEAN :
          /\ cleanup = "removed" => ~kept
          /\ sandboxes' = IF kept THEN sandboxes ELSE sandboxes \ {number}
          /\ evidence' = IF cleanup = "left" /\ evidence.status = "completed"
                         THEN [evidence EXCEPT !.cleanup = cleanup, !.status = "partial",
                                               !.availability = "incomplete"]
                         ELSE [evidence EXCEPT !.cleanup = cleanup]
    BY <1>11 DEF Cleanup
  <2>2. evidence'.agent = evidence.agent /\ evidence'.cleanup = cleanup
    BY <2>1 DEF TypeOK, Evidence
  <2>3. sandboxes' \subseteq {number} /\ (cleanup = "removed" => sandboxes' = {})
    BY <2>1 DEF Files, NothingReused
  <2> QED
    BY <1>11, <2>2, <2>3 DEF Cleanup, Goto, Files, NothingReused
<1>12. CASE Judge
  BY <1>12 DEF Judge, ShouldRepair, Eligible, Files, NothingReused, NoEvidence
<1>13. CASE RemoveRuntime
  BY <1>13 DEF RemoveRuntime, Files, NothingReused
<1>14. CASE Settle
  BY <1>14 DEF Settle, Files, NothingReused
<1> QED
  BY <1>1, <1>2, <1>3, <1>4, <1>5, <1>6, <1>7, <1>8, <1>9, <1>10, <1>11, <1>12, <1>13, <1>14 DEF Next

\* A step that is neither a call nor a judgement.
Quiet ==
  \/ CreateSandbox \/ FixtureMissing \/ CheckBaseline
  \/ ProposeFixture \/ RefuseProposal \/ OpenWorkingDirectory
  \/ ApplyPatch \/ ApplyPatchThrows \/ Verify \/ Cleanup
  \/ RemoveRuntime \/ Settle

\* Such a step calls nobody, and changes the agent of the evidence only where nobody was called.
LEMMA QuietFacts ==
  ASSUME Inductive, Quiet
  PROVE  /\ called' = called /\ number' = number /\ attempts' = attempts /\ pc' # "create"
         /\ mode' = mode /\ allowance' = allowance
         /\ pc' \in {"baseline", "propose", "provider"} => pc \in {"create", "baseline", "propose"}
         /\ \/ evidence'.agent = evidence.agent
            \/ /\ evidence'.agent.status \in {"absent", "not-invoked", "failed"}
               /\ number \notin called
<1> USE DEF Inductive
<1> DEFINE Same == /\ called' = called /\ number' = number /\ attempts' = attempts /\ pc' # "create"
                   /\ mode' = mode /\ allowance' = allowance
           Silent == \/ evidence'.agent = evidence.agent
                     \/ /\ evidence'.agent.status \in {"absent", "not-invoked", "failed"}
                        /\ number \notin called
<1>1. Same /\ (pc' \in {"baseline", "propose", "provider"} => pc \in {"create", "baseline", "propose"})
  BY DEF Quiet, CreateSandbox, FixtureMissing, CheckBaseline, ProposeFixture, RefuseProposal,
     OpenWorkingDirectory, ApplyPatch, ApplyPatchThrows, Verify, Cleanup,
     RemoveRuntime, Settle, WithoutProposal, Goto
<1>2. CASE CreateSandbox
  BY <1>1, <1>2, CreateSandboxFacts DEF Calls
<1>3. CASE CheckBaseline
  <2>1. NoAgent.status = "absent" /\ NotInvoked.status = "not-invoked"
    BY DEF NoAgent, NotInvoked, Agent
  <2>2. evidence.baseline # "evaluable" => number \notin called /\ evidence.agent = NoAgent
    BY <1>3 DEF CheckBaseline, Calls, Progress, NoEvidence
  <2>3. [NoEvidence EXCEPT !.baseline = "evaluable"].agent = NoAgent
    BY DEF NoEvidence
  <2>4. number \notin called
    BY <1>3 DEF CheckBaseline, Calls
  <2> QED
    BY <1>1, <1>3, <2>1, <2>3, <2>4, CheckBaselineFacts
<1>4. CASE RefuseProposal
  <2>1. NotInvoked.status = "not-invoked"
    BY DEF NotInvoked, Agent
  <2> QED
    BY <1>1, <1>4, <2>1, NoEvidenceType, WithoutProposalFacts DEF RefuseProposal, Calls
<1>5. CASE OpenWorkingDirectory
  BY <1>1, <1>5, OpenWorkingDirectoryFacts DEF Calls
<1>6. CASE ApplyPatchThrows
  <2> DEFINE abandoned == [evidence EXCEPT !.patch = "attempted", !.status = "failed",
                                           !.availability = "infrastructure-failure"]
  <2>1. abandoned \in Evidence /\ abandoned.agent = evidence.agent
    BY DEF TypeOK, Evidence
  <2>2. evidence' = RecordNotInvoked(abandoned) /\ pc = "patch"
    BY <1>6 DEF ApplyPatchThrows
  <2> HIDE DEF abandoned
  <2>3. mode = "real-agent" => evidence.agent # NoAgent
    BY <2>2 DEF Progress, Answered, NoAgent, Agent
  <2> QED
    BY <1>1, <2>1, <2>2, <2>3, RecordNotInvokedFacts
<1>7. CASE ApplyPatch \/ Verify \/ Cleanup
  BY <1>1, <1>7 DEF ApplyPatch, Verify, Cleanup, TypeOK, Evidence
<1>8. CASE FixtureMissing \/ ProposeFixture \/ RemoveRuntime \/ Settle
  BY <1>1, <1>8 DEF FixtureMissing, ProposeFixture, RemoveRuntime, Settle
<1> QED
  BY <1>1, <1>2, <1>3, <1>4, <1>5, <1>6, <1>7, <1>8 DEF Quiet

\* No call goes unrecorded.
LEMMA CallsPreserved == ASSUME Inductive, Next PROVE Calls'
<1> USE DEF Inductive
<1>0. /\ number \in Nat /\ attempts \in Seq(Evidence)
      /\ \A i \in called : i \in Nat /\ i <= number
  BY DEF TypeOK, Numbers, Calls
<1>1. CASE Quiet
  <2>1. number \in called => evidence.agent = evidence'.agent
    BY <1>1, QuietFacts
  <2>2. CallRecorded'
    BY <1>1, <2>1, QuietFacts DEF Calls, CallRecorded
  <2>3. evidence'.agent.status \in ProviderStatuses \ {"failed"} => number' \in called'
    BY <1>1, QuietFacts DEF Calls, ProviderStatuses
  <2>4. \A i \in called' : i <= number'
    BY <1>1, QuietFacts DEF Calls
  <2>5. pc' \in {"create", "baseline", "propose", "provider"} => number' \notin called'
    BY <1>1, QuietFacts DEF Calls
  <2> QED
    BY <2>2, <2>3, <2>4, <2>5 DEF Calls
<1>2. CASE CallProvider
  <2>1. Len(attempts) = number - 1
    BY <1>2, CallProviderFacts DEF Earlier, Ended
  <2>2. CallRecorded'
    BY <1>0, <1>2, <2>1, CallProviderFacts DEF Calls, CallRecorded
  <2>3. \A i \in called' : i <= number'
    BY <1>0, <1>2, CallProviderFacts
  <2>4. pc' \notin {"create", "baseline", "propose", "provider"}
    BY <1>2, CallProviderFacts
  <2> QED
    BY <1>2, <2>2, <2>3, <2>4, CallProviderFacts DEF Calls
<1>3. CASE Judge
  <2>1. Len(attempts) = number - 1 /\ pc = "judge"
    BY <1>3 DEF Judge, Earlier, Ended
  <2>2. /\ attempts' = Append(attempts, evidence) /\ Len(attempts') = number
        /\ \A i \in 1..number : attempts'[i] = IF i = number THEN evidence ELSE attempts[i]
    <3>1. attempts' = Append(attempts, evidence) /\ evidence \in Evidence
      BY <1>3 DEF Judge, TypeOK
    <3> QED
      BY <1>0, <2>1, <3>1
  <2>3. \A i \in 1..number : i \in called' => attempts'[i].agent.invoked
    BY <1>0, <1>3, <2>1, <2>2 DEF Judge, Calls, CallRecorded
  <2>4. CASE pc' = "create"
    <3>1. number' = number + 1 /\ called' = called /\ evidence' = NoEvidence
      BY <1>3, <2>4 DEF Judge
    <3>2. number' \notin called'
      BY <1>0, <3>1 DEF Calls
    <3>3. NoEvidence.agent.status = "absent"
      BY DEF NoEvidence, NoAgent, Agent
    <3>4. CallRecorded'
      BY <1>0, <2>2, <2>3, <3>1, <3>2 DEF CallRecorded
    <3>5. \A i \in called' : i <= number'
      BY <1>0, <3>1
    <3> QED
      BY <3>1, <3>2, <3>3, <3>4, <3>5 DEF Calls, ProviderStatuses
  <2>5. CASE pc' = "runtime"
    <3>1. number' = number /\ called' = called /\ evidence' = evidence
      BY <1>3, <2>5 DEF Judge
    <3> QED
      BY <2>2, <2>3, <2>5, <3>1 DEF Calls, CallRecorded
  <2> QED
    BY <1>3, <2>4, <2>5 DEF Judge
<1> QED
  BY <1>1, <1>2, <1>3 DEF Next, Quiet

\* Complete evidence, its sandbox removed, is accepted by the terminal epoch's validation.
LEMMA CompleteAcceptable ==
  ASSUME Inductive, pc # "cleanup", evidence.status = "completed" \/ evidence.availability = "complete"
  PROVE  Acceptable(evidence) /\ evidence.agent.status \in {"completed", "absent"}
<1> USE DEF Inductive
<1>1. /\ evidence.status = "completed" /\ evidence.availability = "complete" /\ evidence.cleanup = "removed"
      /\ evidence.integrity # "unproven" /\ evidence.baseline = "evaluable"
      /\ evidence.patch \in PatchFailures \cup {"success"}
      /\ evidence.patch = "success" <=> evidence.change
      /\ evidence.change => evidence.post.determinate
      /\ Answered(evidence.agent) /\ evidence.agent.cwd # "left"
  BY DEF Evaluated
<1>2. evidence.agent \in Agents
  BY DEF TypeOK, Evidence
<1>3. CASE mode = "real-agent"
  BY <1>1, <1>2, <1>3 DEF Acceptable, Answered, Agent, Agents
<1>4. CASE mode # "real-agent"
  BY <1>1, <1>4 DEF Acceptable, Answered, NoAgent, Agent
<1> QED
  BY <1>3, <1>4

\* A repair follows only what it may follow, and within what is allowed.
LEMMA EarlierPreserved == ASSUME Inductive, Next PROVE Earlier'
<1> USE DEF Inductive
<1>0. number \in Nat /\ attempts \in Seq(Evidence) /\ allowance \in Nat
  BY AllowancesAssumption DEF TypeOK, Numbers
<1>1. CASE Quiet \/ CallProvider
  <2>1. /\ number' = number /\ attempts' = attempts /\ mode' = mode /\ allowance' = allowance
        /\ pc' \in Ended => pc \in Ended /\ evidence' = evidence
        /\ pc \in Ended => pc' \in Ended
    BY <1>1 DEF Quiet, CreateSandbox, FixtureMissing, CheckBaseline, ProposeFixture, RefuseProposal,
       OpenWorkingDirectory, CallProvider, ApplyPatch, ApplyPatchThrows, Verify, Cleanup,
       RemoveRuntime, Settle, WithoutProposal, Goto, Ended
  <2>2. \A i \in 1..number - 1 : Acceptable(attempts[i])'
    BY <2>1 DEF Earlier, Acceptable
  <2> QED
    BY <2>1, <2>2 DEF Earlier
<1>2. CASE Judge
  <2>1. Len(attempts) = number - 1 /\ pc = "judge" /\ mode' = mode /\ allowance' = allowance
    BY <1>2 DEF Judge, Earlier, Ended
  <2>2. /\ attempts' = Append(attempts, evidence) /\ Len(attempts') = number
        /\ \A i \in 1..number : attempts'[i] = IF i = number THEN evidence ELSE attempts[i]
    <3>1. attempts' = Append(attempts, evidence) /\ evidence \in Evidence
      BY <1>2 DEF Judge, TypeOK
    <3> QED
      BY <1>0, <2>1, <3>1
  <2>3. \A i \in 1..number - 1 :
          Eligible(attempts'[i]) /\ TaskSuccess(attempts'[i]) = "false" /\ Acceptable(attempts'[i])
    BY <1>0, <2>2 DEF Earlier
  <2>5. CASE pc' = "create"
    <3>1. Eligible(evidence) /\ TaskSuccess(evidence) = "false" /\ number <= allowance /\ number' = number + 1
      BY <1>2, <2>5 DEF Judge, ShouldRepair
    <3>2. Acceptable(evidence)
      BY <2>1, <3>1, CompleteAcceptable DEF Eligible
    <3>3. \A i \in 1..number :
            Eligible(attempts'[i]) /\ TaskSuccess(attempts'[i]) = "false" /\ Acceptable(attempts'[i])
      BY <1>0, <2>2, <2>3, <3>1, <3>2
    <3>4. \A i \in 1..number : Acceptable(attempts[i])'
      BY <2>1, <3>3 DEF Acceptable
    <3>5. number' <= 1 + allowance' /\ Len(attempts') = number' - 1 /\ number' - 1 = number
      BY <1>0, <2>1, <2>2, <3>1
    <3> QED
      BY <2>5, <3>3, <3>4, <3>5 DEF Earlier, Ended
  <2>6. CASE pc' = "runtime"
    <3>1. number' = number /\ evidence' = evidence
      BY <1>2, <2>6 DEF Judge
    <3>2. \A i \in 1..number - 1 : Acceptable(attempts[i])'
      BY <2>1, <2>3 DEF Acceptable
    <3>3. number' <= 1 + allowance' /\ Len(attempts') = number' /\ attempts'[number'] = evidence'
      BY <1>0, <2>1, <2>2, <3>1 DEF Earlier, TypeOK, Numbers
    <3> QED
      BY <2>3, <2>6, <3>1, <3>2, <3>3 DEF Earlier, Ended
  <2> QED
    BY <1>2, <2>5, <2>6 DEF Judge
<1> QED
  BY <1>1, <1>2 DEF Next, Quiet

\* An evaluated treatment is not refused.
LEMMA OutcomePreserved == ASSUME Inductive, Next PROVE Outcome'
<1> USE DEF Inductive
<1>0. number \in Nat \ {0} /\ allowance \in Nat
  BY AllowancesAssumption DEF TypeOK, Numbers
<1>1. CASE Settle
  <2>1. pc = "settle" /\ pc' = "done" /\ evidence' = evidence
    BY <1>1 DEF Settle
  <2>2. ASSUME Reason(evidence) = "evaluated" PROVE outcome' = "settled"
    <3>1. evidence.status = "completed" /\ evidence.agent.status # "agent-limit-reached"
      BY <2>2 DEF Reason
    <3>2. Acceptable(evidence) /\ evidence.agent.status \in {"completed", "absent"}
      BY <2>1, <3>1, CompleteAcceptable
    <3>3. /\ Len(attempts) = number /\ number <= 1 + allowance /\ attempts[number] = evidence
          /\ \A i \in 1..number - 1 :
               Eligible(attempts[i]) /\ TaskSuccess(attempts[i]) = "false" /\ Acceptable(attempts[i])
      BY <2>1 DEF Earlier, Ended
    <3>4. \A i \in 1..Len(attempts) : Acceptable(attempts[i])
      BY <1>0, <3>2, <3>3
    <3>5. \A i \in 1..Len(attempts) : attempts[i].agent.status # "failed"
      BY <1>0, <3>2, <3>3 DEF Eligible
    <3>6. Justified
      BY <3>3, <3>5 DEF Justified
    <3> QED
      BY <1>1, <2>2, <3>4, <3>6 DEF Settle
  <2>3. Reason(evidence)' = Reason(evidence)
    BY <2>1 DEF Reason
  <2> QED
    BY <2>1, <2>2, <2>3 DEF Outcome, EvaluatedAccepted, Ended
<1>2. CASE RemoveRuntime
  BY <1>2 DEF RemoveRuntime, Outcome, EvaluatedAccepted, Ended
<1>3. CASE Next /\ ~Settle /\ ~RemoveRuntime
  <2>1. outcome' = outcome /\ pc \notin Ended
    BY <1>3 DEF Next, CreateSandbox, FixtureMissing, CheckBaseline, ProposeFixture, RefuseProposal,
       OpenWorkingDirectory, CallProvider, ApplyPatch, ApplyPatchThrows, Verify, Cleanup, Judge,
       WithoutProposal, Goto, Ended
  <2> QED
    BY <2>1 DEF Outcome, EvaluatedAccepted
<1> QED
  BY <1>1, <1>2, <1>3

\* The invariant holds in every reachable state.
LEMMA AlwaysInductive == Spec => []Inductive
<1>1. ASSUME Inductive, [Next]_vars PROVE Inductive'
  <2>1. CASE Next
    BY <1>1, <2>1, TypePreserved, ProgressPreserved, EvaluatedPreserved, FilesPreserved, CallsPreserved,
       EarlierPreserved, OutcomePreserved DEF Inductive
  <2>2. CASE UNCHANGED vars
    <3> USE <2>2 DEF vars, Inductive
    <3>1. TypeOK' /\ Progress' /\ Evaluated'
      BY <1>1 DEF TypeOK, Progress, Answered, Evaluated
    <3>2. Files' /\ Calls'
      BY <1>1 DEF Files, NothingReused, Calls, CallRecorded
    <3>3. (\A i \in 1..number - 1 : Acceptable(attempts[i]))'
      BY <1>1 DEF Earlier, Acceptable
    <3>4. Earlier' /\ Outcome'
      BY <1>1, <3>3 DEF Earlier, Outcome, EvaluatedAccepted, Reason
    <3> QED
      BY <3>1, <3>2, <3>4
  <2> QED
    BY <1>1, <2>1, <2>2
<1> QED
  BY <1>1, InitInductive, PTL DEF Spec

\* The variables of a treatment keep their type.
THEOREM TypeCorrect == Spec => []TypeOK
<1>1. Inductive => TypeOK
  BY DEF Inductive
<1> QED
  BY <1>1, AlwaysInductive, PTL

\* No attempt starts, or ends, with a file of an earlier attempt left.
THEOREM NothingReusedHolds == Spec => []NothingReused
<1>1. Inductive => NothingReused
  BY DEF Inductive, Files
<1> QED
  BY <1>1, AlwaysInductive, PTL

\* Every call of the provider is in the evidence of its attempt.
THEOREM CallRecordedHolds == Spec => []CallRecorded
<1>1. Inductive => CallRecorded
  BY DEF Inductive, Calls
<1> QED
  BY <1>1, AlwaysInductive, PTL

\* Every evaluated treatment is accepted by the validation of the terminal epoch.
THEOREM EvaluatedAcceptedHolds == Spec => []EvaluatedAccepted
<1>1. Inductive => EvaluatedAccepted
  BY DEF Inductive, Outcome
<1> QED
  BY <1>1, AlwaysInductive, PTL

\* A treatment begins as its promise does.
LEMMA InitImplements == Init => Attempts!Init
<1> SUFFICES ASSUME Init PROVE Attempts!Init
  OBVIOUS
<1>1. allowance \in 0..2 /\ (mode # "real-agent") \in BOOLEAN
  BY AllowancesAssumption DEF Init
<1>2. stage = "attempting"
  BY DEF Init, stage
<1>3. conclusion = [reason |-> "none", invoked |-> FALSE]
  BY <1>2 DEF conclusion
<1> QED
  BY <1>1, <1>2, <1>3 DEF Init, Attempts!Init, Attempts!NoConclusion

\* A step that neither calls nor judges is no step of the promise.
LEMMA QuietImplements == ASSUME Inductive, Quiet PROVE UNCHANGED Attempts!vars
<1> USE DEF Inductive
<1>1. /\ number' = number /\ called' = called /\ mode' = mode /\ allowance' = allowance
      /\ pc' \in Ended <=> pc \in Ended
      /\ pc \in Ended => evidence' = evidence
  BY DEF Quiet, CreateSandbox, FixtureMissing, CheckBaseline, ProposeFixture, RefuseProposal,
     OpenWorkingDirectory, ApplyPatch, ApplyPatchThrows, Verify, Cleanup,
     RemoveRuntime, Settle, WithoutProposal, Goto, Ended
<1>2. stage' = stage
  BY <1>1 DEF stage, Ended
<1>3. stage = "concluded" <=> pc \in Ended
  BY DEF stage, Ended
<1>4. conclusion' = conclusion
  BY <1>1, <1>2, <1>3 DEF conclusion, Reason
<1> QED
  BY <1>1, <1>2, <1>4 DEF Attempts!vars

\* Every step of a treatment is a step of its promise, or none.
LEMMA NextImplements == ASSUME Inductive, Next PROVE Attempts!Next \/ UNCHANGED Attempts!vars
<1> USE DEF Inductive
<1>0. number \in Nat /\ allowance \in Nat
  BY AllowancesAssumption DEF TypeOK, Numbers
<1>1. CASE Quiet
  BY <1>1, QuietImplements
<1>2. CASE CallProvider
  <2>1. pc = "provider" /\ pc' \in {"patch", "cleanup"} /\ number' = number /\ number \notin called
    BY <1>2, CallProviderFacts DEF Calls
  <2>2. stage = "attempting" /\ stage' = IF number \in called' THEN "called" ELSE "attempting"
    BY <2>1 DEF stage
  <2>3. conclusion' = conclusion
    BY <2>2 DEF conclusion
  <2>4. mode' = mode /\ allowance' = allowance /\ mode = "real-agent"
    BY <1>2, CallProviderFacts DEF CallProvider, WithoutProposal, Goto
  <2>5. CASE number \in called'
    <3>1. called' = called \cup {number}
      BY <1>2, <2>1, <2>5, CallProviderFacts
    <3>2. Attempts!Call
      BY <2>1, <2>2, <2>3, <2>4, <2>5, <3>1 DEF Attempts!Call
    <3> QED
      BY <3>2 DEF Attempts!Next
  <2>6. CASE number \notin called'
    <3>1. called' = called
      BY <1>2, <2>6, CallProviderFacts
    <3> QED
      BY <2>1, <2>2, <2>3, <2>4, <2>6, <3>1 DEF Attempts!vars
  <2> QED
    BY <2>5, <2>6
<1>3. CASE Judge
  <2>1. pc = "judge" /\ called' = called /\ mode' = mode /\ allowance' = allowance
    BY <1>3 DEF Judge
  <2>2. stage = IF number \in called THEN "called" ELSE "attempting"
    BY <2>1 DEF stage
  <2>3. CASE pc' = "create"
    <3>1. number' = number + 1 /\ number <= allowance /\ evidence.agent.status = "completed"
      BY <1>3, <2>3 DEF Judge, ShouldRepair, Eligible
    <3>2. number \in called /\ number + 1 \notin called
      BY <1>0, <3>1 DEF Calls, ProviderStatuses
    <3>3. stage = "called" /\ stage' = "attempting"
      BY <2>1, <2>2, <2>3, <3>1, <3>2 DEF stage
    <3>4. conclusion' = conclusion
      BY <3>3 DEF conclusion
    <3>5. Attempts!Repair
      BY <2>1, <3>1, <3>3, <3>4 DEF Attempts!Repair
    <3> QED
      BY <3>5 DEF Attempts!Next
  <2>4. CASE pc' = "runtime"
    <3>1. number' = number /\ evidence' = evidence /\ stage' = "concluded"
      BY <1>3, <2>4 DEF Judge, stage
    <3>2. /\ conclusion' = [reason |-> Reason(evidence), invoked |-> evidence.agent.invoked]
          /\ Reason(evidence) \in Attempts!Reasons /\ evidence.agent.invoked \in BOOLEAN
      BY <3>1 DEF conclusion, Reason, Attempts!Reasons, TypeOK, Evidence, Agents
    <3>3. stage = "called" => evidence.agent.invoked
      BY <2>2 DEF Calls, CallRecorded
    <3>4. Reason(evidence) = "evaluated" => Answered(evidence.agent)
      BY DEF Reason, Evaluated
    <3>5. mode # "real-agent" =>
            evidence.agent = NoAgent /\ ~evidence.agent.invoked /\ evidence.agent.status = "absent"
      BY DEF Progress, NoAgent, Agent
    <3>6. mode # "real-agent" => ~evidence.agent.invoked /\ Reason(evidence) # "provider-limit"
      BY <3>5 DEF Reason
    <3>7. stage = "attempting" => Reason(evidence) = "incomplete" \/ mode # "real-agent"
      <4>1. SUFFICES ASSUME mode = "real-agent", Reason(evidence) # "incomplete" PROVE number \in called
        BY <2>2
      <4>2. evidence.agent.status \in {"completed", "agent-limit-reached"}
        BY <3>4, <4>1 DEF Reason, Answered
      <4> QED
        BY <4>2 DEF Calls, ProviderStatuses
    <3>8. stage # "concluded"
      BY <2>2
    <3>9. Attempts!Conclude
      BY <2>1, <3>1, <3>2, <3>3, <3>6, <3>7, <3>8 DEF Attempts!Conclude
    <3> QED
      BY <3>9 DEF Attempts!Next
  <2> QED
    BY <1>3, <2>3, <2>4 DEF Judge
<1> QED
  BY <1>1, <1>2, <1>3 DEF Next, Quiet

\* A treatment keeps the promise that ProviderAttempts states.
THEOREM ImplementsAttemptsHolds == Spec => ImplementsAttempts
<1>1. ASSUME Inductive, [Next]_vars PROVE [Attempts!Next]_(Attempts!vars)
  <2>1. CASE Next
    BY <1>1, <2>1, NextImplements
  <2>2. CASE UNCHANGED vars
    <3>1. stage' = stage
      BY <2>2 DEF vars, stage
    <3>2. conclusion' = conclusion
      BY <2>2, <3>1 DEF vars, conclusion, Reason
    <3> QED
      BY <2>2, <3>1, <3>2 DEF vars, Attempts!vars
  <2> QED
    BY <1>1, <2>1, <2>2
<1> QED
  BY <1>1, InitImplements, AlwaysInductive, PTL DEF Spec, ImplementsAttempts, Attempts!Spec
=============================================================================
