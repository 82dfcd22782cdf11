# A verification project for my-dev-kit-lab

my-dev-kit-lab is a command-line laboratory, in TypeScript, that measures how
context tools change the work of coding agents. Most of it is sequential: it
parses a command, copies a benchmark project, runs tools and writes reports. A
few parts are not, and they are where a test hardly reaches: a *resumable
campaign* calls a paid provider, from several commands, across crashes, on one
output root; *child processes* end, hang, fork and are killed while timers run; and
*experiments* draw conclusions from copies and indexes that may be edited, or be
incomplete, while they look. This project models those parts in TLA+, checks them with
TLC, and proves with TLAPS, for every value of the constants, the safety properties of
all of them.

Paths below are relative to `src/src/` of the repository; `g/` stands for
`experiments/plugins/agentSuccessRate/` and `s/` for
`experiments/plugins/incrementalChangeStaleness/`.

## 1. Inventory

### The campaign

A campaign runs *units*, in a fixed queue: for each benchmark case, two
treatments in order. Each unit is worked on by one provider invocation, or two
when the first met the provider's limit and the user authorized another.

| Part | State it keeps | Operations |
| --- | --- | --- |
| Checkpoint store, `g/campaignCheckpointStore.ts` | in an output root: `campaign-dispatch.json` (the dispatch marker), per identity and format a directory with `owner.json`, `writer.json` (a lock), `.temporary-*.json`, `generation-*.json`; the final artifact family and its intent marker | acquire / assert / release the dispatch; read the newest checkpoint; publish a generation (lock, validate history, write, link, unlink, unlock); publish the final family |
| Recovery, `g/campaignRecovery.ts` | nothing; it computes checkpoints: units, their epochs (`reserved`, `authorized`, `terminal`, `uncertain`), times, generation, parent | create, five transitions, validation, history check |
| Executor, `g/campaignResumableExecution.ts`, `g/campaignQueue.ts` | the checkpoint it saw last, the case it processes, the outcome | acquire, read, walk the queue, reserve, authorize, claim, run the provider, settle, finalize, release |
| Campaign command, `commands/runExperimentRunCommand.ts` | the user's intent (new, resume, continue at a limit), the revision read | checks the intent against the newest checkpoint, runs the executor, reports |
| Treatment, `g/repairExecution.ts`, `g/execution.ts`, `g/realAgentExecution.ts`, `g/repairPolicy.ts` | the attempts made and their evidence; per attempt a sandbox and a private working directory | copy and check the benchmark, call the provider, apply its answer, check, remove; repair up to the allowance |

*How they interact.* The command reads the store, forms an intent and calls the
executor in the same process. The executor owns the dispatch from its first read
to its return and publishes every step before it acts on it: a reservation, then
an authorization, then the treatment with its provider calls, then the settlement.
Commands in other processes share nothing but the output root.

*What is hard.* Interleavings of processes at every `await`; a crash between any
two file operations; a marker or a lock whose owner is dead, or only seems to be,
and is deleted by hand; a publication that fails after it has committed; three
views of one checkpoint (the user's, the command's, the executor's); a wall clock
that goes back; a final family that is half written; in a treatment, any of a
dozen operations of any attempt failing after the provider was paid, while four
pieces of code decide from the evidence alone what the attempt was.

*What makes it correct.* Two commands never extend one chain; the chain stays
readable; the provider is called only under a durable authorization of the same
command, once, within the repairs allowed; a second invocation is bought by an
authorization for exactly the revision it names; settled work never changes; a campaign
stays stopped at a unit that ended for good or that a command abandoned; a call
is never lost from the evidence, and an evaluation never refused; the final family is
whole and can be completed by a later command; a command ends and frees the dispatch.

### Child processes

| Part | State it keeps | Operations |
| --- | --- | --- |
| Measured command, `core/runMeasuredCommand.ts`, `core/processTree.ts` | collectors, timers, the termination promise, `settled` | spawn, collect, time out, exceed a limit, terminate, settle, write the artifacts |
| Managed process, `runtime/managedProcess.ts` | `exited`, the stop in flight, waiters | start, poll readiness, wait for exit, stop with escalation |
| Tutorial runner, `tutorial/runTutorial.ts` and its session and artifacts | handles started, browser, context and page, results of steps, records, cleanup errors | prepare, start processes, launch, execute and record steps, close, write, stop what was started, decide the status |

Everything that runs a tool, a test suite or a git command goes through the
first; the tutorial runner starts servers through the second. *Hard:* the close
event comes only when the child has ended *and* no descendant holds its pipes;
timeouts race exits; POSIX and Windows kill different things; a result may be
settled twice; several callers may stop at once; every stage of a tutorial may fail,
and each failure leaves a different set of things to release. *Correct* means: an `ok`
result is complete, a bounded command is answered whatever its processes do, a tree
that could not be terminated is visible in the result, a stop that returned
left nothing running, and a tutorial stops dependents first and reports the truth.

### Evidence of experiments

| Part | State it keeps | Operations |
| --- | --- | --- |
| Staleness lifecycle, `s/lifecycleV2.ts` with `s/lifecyclePolicy*.ts`, `s/mutationExecution.ts`, `s/sourceState.ts`, `s/indexClone.ts` | four copies of a benchmark, their indexes and snapshots, captured states | copy, capture, index, hash, clone, validate, write, verify, assess, refresh |
| Snapshots and freshness, `evaluation/indexSnapshot.ts`, `evaluation/indexFreshness.ts` | the hashes of an index's files | capture, compare, list (at most 100 changes) |
| Affected neighborhood, `evaluation/affectedNeighborhood.ts`, in the session of `experiments/plugins/warmIndexReuse` | the graph loaded once, the seeds and their neighborhood | load, map changes and tasks to nodes, traverse, decide |

An external tool makes the indexes. *Hard:* files are read one after the other, by
operation after operation, while somebody may edit them; a comparison tells nothing of
edits after it; an entry that is dropped early must still be felt in the verdict.
*Correct* means: scenarios that are compared differ in nothing but the refresh, one
that nobody touched is not refused, and no task is called unrelated to a change
that concerns it.

### The rest

`PROJECT.json` lists all parts, a directory by its longest files; section 6 says why
they are not modelled.

## 2. Plan

Most important behaviour first. All of these are *done*:

1. `CheckpointStore` - the file protocol, its proofs.
2. `CampaignRecovery` (operators), `CampaignLedger` (the abstract specification: the newest checkpoint and its transitions), its proofs.
3. `ResumableCampaign` - executor, command, provider attempts and final family over the store; shown, and proved, to implement `CampaignLedger`.
4. `MeasuredCommand`, `ManagedProcess` - child processes, their proofs.
5. `TutorialRun` - the release of what was started and the status, on every failure path; its proofs.
6. `TreatmentAttempts` - sandbox, provider, checks, repair policy and repair loop; proved to implement `ProviderAttempts`, its abstract specification.
7. `IndexStaleness` - the comparisons of the staleness experiment under edits; its proofs.
8. `AffectedNeighborhood` - incomplete evidence on its way to a verdict; its proofs.

*Next*, should the project go on: the version 1 executor (`g/campaignExecution.ts`) over
`CheckpointStore`; `g/campaignProgress.ts` as an operator of `CampaignRecovery`; the
retrieval that follows the lifecycle of `IndexStaleness`.

## 3. Modules

| Module | Models | Kind |
| --- | --- | --- |
| `CheckpointStore` | `g/campaignCheckpointStore.ts` but for the final family | state machine |
| `CampaignRecovery` | `g/campaignRecovery.ts` | operators |
| `CampaignLedger` | the transitions of one campaign's checkpoint | abstract specification |
| `ResumableCampaign` | executor, command, attempts, final family | state machine; `Ledger == INSTANCE CampaignLedger WITH checkpoint <- committed` |
| `TreatmentAttempts` | one treatment: `g/repairExecution.ts`, `g/execution.ts`, `g/realAgentExecution.ts`, `g/repairPolicy.ts` | state machine; `Attempts == INSTANCE ProviderAttempts` |
| `ProviderAttempts` | what a treatment promises of its provider | abstract specification |
| `MeasuredCommand` | `core/runMeasuredCommand.ts`, `core/processTree.ts` | state machine |
| `ManagedProcess` | `runtime/managedProcess.ts` | state machine |
| `TutorialRun` | `tutorial/runTutorial.ts`, session, artifacts | state machine |
| `IndexStaleness` | `s/lifecycleV2.ts` and what it calls | state machine |
| `AffectedNeighborhood` | `evaluation/affectedNeighborhood.ts`, snapshots, freshness | state machine and operators |
| `...Proofs` | of every state machine; those of `ManagedProcess` are in `TutorialRunProofs`, which uses its handles | theorems |
| `MC...` | symmetry sets and finite constants for TLC; `MCTutorialRun` has a tutorial run and the handle of a process beside each other | model-checking modules |

A definition with a comment that starts with "Mutant" is not part of a specification:
it is a plausible bug. Substituted for the definition that follows it, it breaks a
property, which shows that the property depends on that code.

### CheckpointStore

One action per file operation of `acquireCampaignDispatch`, `writeStoredCheckpoint`
and `releaseCampaignDispatch`; `pc[p]` is where process `p` is. `marker`, `dir`,
`writer`, `temporaries`, `generations` are the files, shared by all; `dispatch`,
`target`, `candidate`, `attempts` are local. A process may crash anywhere (its files
stay) and any operation may fail (`Abort`, `WriteFails`, `AcquireFails`: the code's
`catch` blocks, whose order decides what is left on disk). A random token is the
process that drew it. A revision (hash of content and parent) is its author and a
number that is never used twice.

### CampaignRecovery and CampaignLedger

`CampaignRecovery` has the checkpoint as a record and, for each transition of the
code, the guard (`MayReserve`, ...), the result (`Reserved`, ...), and the
validation and history check that every process applies to what it reads.
Abstracted: evidence is its *reason*, which is all the transitions look at; a
digest of a checkpoint is its generation, by which it is unique in a chain;
identifiers of an epoch are drawn from `EpochIds`. Times are numbers from `Times`,
chosen freely at each step: the clock may go back. `CampaignLedger` makes these
transitions the steps of one variable.

### ResumableCampaign

Each action is what a process does between two awaits at which another could act.
The store's protocol is here in the steps that matter to the executor (`Lock`,
`AssertHistory`, `AssertPublication`, `Link`, `Unlink`, `Readback`,
`PublicationFails`); `CheckpointStore` has the finer ones. A process is
a slot for a command: it is given an intent (`Command`), runs, and returns; `run` numbers the
commands and stands for the fresh epoch id each draws. `seen` is the checkpoint the
process read last, on which it acts: the stale view is explicit. `invoked` records the
provider calls made; nothing reads it but the properties. An artifact of the family is written
only if it was absent when the marker was read, and a file that appeared since, whatever its
bytes, makes the write fail (`Persist`).

Simplifications: the clock ticks once per generation, as the ledger has the clock
that goes back; the preparation of contexts, the supporting artifacts of a unit and
the directories of epochs, created exclusively under names nobody shares, are
preparations that succeed or fail; the reading and the creation of the intent
marker are one step; the path without a real provider is left out.

### TreatmentAttempts and ProviderAttempts

`evidence` is the record the code fills, with the values its readers tell apart: every
operation (creation, baseline, proposal, provider call, patch, each check, integrity,
removal) succeeds or fails in each way that leaves a different trace in it. What is
decided from it is computed by `Eligible`, `TaskSuccess`, `Reason` and `Acceptable`, the
four readers of the code. `sandboxes`, `cwds` and `runtime` are what is on disk,
`called` the attempts that called the provider. A crash inside a treatment is
`ResumableCampaign`'s: the evidence, which is in memory, does not survive it.

### MeasuredCommand and ManagedProcess

The host is Node.js: one handler runs at a time, to its end, and the continuations
of a promise that is resolved run before the next handler (`Quiet`). Beside it run
the child and one descendant that shares its pipes and its process group. Signals
arrive later than they are sent; SIGTERM may be ignored on POSIX and may not on
Windows; `taskkill /T` needs the root of the tree to be alive, may fail, and a
success is taken to have reached the whole tree. Options and platform are chosen
once, in `Init`. Output is counted in chunks of one stream, and the text of an error
is a set of reasons. Not modelled: errors of the streams, which only add to the
error; reuse of a process id by an unrelated process between the exit of a child
and a signal to it; log files.

### TutorialRun

`pc` is the stage of `runTutorial`; every stage may fail, and a process may exit at any
time (`Exits`). A managed process is what `ManagedProcess` shows of it: a stop that
returns leaves it gone. Steps pass, fail or are not run; screenshots, texts and the recording are
written, failed or skipped; the manifest is written with the status known then.

### IndexStaleness

A phase of the lifecycle takes the treatments one after the other (`Turn`), and an
operation on a copy looks at its files one by one (`Look`), so that `Edit`, somebody
else's edit of a copy (`s/mutationExecution.ts:57` names it), falls between any two looks.
The seven comparisons are the guards under which a scenario goes on; one that fails
refuses it. Assumed: the tool indexes what it reads of a file. Edits are free: any file of any
copy, any content, repeatedly, also back to what it was and alike in several copies. Three history
variables are read by the properties only: `unseen`, the edits that came after the last comparison;
`held`, what each file of a copy was given by the scenario or by an edit; `repeated`, the files
that an edit gave a content which that file of this or of another copy had held before. The list of changes of an
assessment is cut at `MaxChanges` (100 in the code), and the assessment of the baselines refuses a
cut list (`Stale`). The version 1 lifecycle has the same comparisons
for three treatments and is not modelled apart.

### AffectedNeighborhood

The tool's findings (`owner`, `name`, `edges`) are the truth; `node`, `record`,
`badEdges`, `unlisted` say how each came out in the index, each change to the worse
counting as a fault, and so do a file that is not hashed or compared and an artifact
that cannot be read. The mapping of changes and of tasks, the traversal and the verdict
are operators. Truth is relative to the snapshot: an edit between indexing and
hashing is seen by nothing. Symbols have the identities of the symbol index's schema 3. Duplicate
entries are among the malformed ones; an index that cannot be read leaves neither snapshot
nor graph, with the same verdict. Counts and the text of warnings are left out: whether a
warning exists decides the status, and is kept.

## 4. Runs

| Run | Bounds | Question |
| --- | --- | --- |
| `checkpoint_store` | 2 processes, 1 identity in both formats, 2 candidates each | `DispatchExclusion` (nobody publishes beside the owner of the dispatch), `ChainIntact`, `OrphanTemporaryUncommitted`, `StaleOwnershipKept`, under crashes and failing operations at every step |
| `campaign_ledger` | 2 cases (4 units), 1 epoch id, 3 times | `InOrder`, `ContinuationBought`, `SettledKept`, `UpdatedAtForward`, `HistoryAccepted` |
| `resumable_campaign` | 1 case, 3 commands by 2 processes, 1 repair, every fault | `InvocationClaimed`, `SingleInvoker`, `ContinuesObserved`, `StaysStopped` (past a unit that ended for good or was abandoned nothing is committed), `FamilySound` (a family that may be read is whole, and one that is not is completed), `ImplementsLedger` |
| `resumable_live` | 2 cases, 2 commands by 2 processes, no fault | `OneCaseKept`, `CommandsEnd` (every command ends and every dispatch is released) |
| `treatment` | every mode and context, 0 to 2 repairs, every failure | `NothingReused`, `CallRecorded`, `EvaluatedAccepted`, `ImplementsAttempts` |
| `measured_command` | all options, 3 chunks, limit 1 | `ResultTruthful` (ok is complete, clean-up visible, telemetry agrees), `BoundedCommandEnds` |
| `tutorial` | 2 processes, 2 steps, every failure; beside it, alone, one handle with 2 callers | `StatusTruthful`, `DependentsFirst`; of the handle `StopIsComplete`, `OneRequest`, `CallsEnd` (stops and the readiness polling end) |
| `index_staleness` | 2 benchmark files and one that may be added; a mutation of one file, or of two; lists of 1 change; 2 edits | `EvidenceMatched` (ready scenarios compare like with like), `NoFalseAlarm` |
| `affected_neighborhood` | 2 files, 1 unindexed, 2 symbols, graphs of 2 edges, 2 faults, lists of 1 change | `RelationshipTruthful` (not wrong about files and certain symbols, and exact when nothing is amiss) |

*Why the bounds are enough.* Every race of the store is between two processes; a
third, and campaigns of other identities on the same root, are covered by the
theorems, which hold for any number. Two candidates let a chain grow on a chain, and
a failed publication be followed by a good one. In the ledger, the rules of a unit
look at units before, beside and after it in its own case and at another case: four
units have all of these. Three times order a step before, with or after the last.
In the executor, one case has two units; two commands are the least that show a
crash and its successor, three show a command acting on what two others
committed; one repair distinguishes a repeated attempt from a repeated epoch. A treatment has
no other bound than the three attempts the code allows. A
limit of one chunk is met, exceeded and exceeded again by three. Two processes have a
dependent and what it depends on. A tutorial run and a handle share no state, so that one run has
either: whichever moves first goes on alone. Two edits can hide one behind another, in one copy or in two,
or take one back; a mutation of two files is more than a list of one change has room for, as one of
more than 100 is in the code. Two files and two symbols
give siblings, namesakes and neighbors; the list of one change is cut when both files
change. The theorems of section 5 lift all of these bounds from every safety property.

`CHECK_DEADLOCK FALSE` is in every configuration: a campaign that is finalized, a
root whose commands are used up, a command that was answered, a treatment, tutorial or scenario
that is over and a task that was compared for the last time are where these systems
rightly stop. The liveness properties say that commands, measured commands and stops stop nowhere else;
the other models are sequential, with an action enabled at every stage but the last.

*Fairness.* `ResumableCampaign!FairSpec` has weak fairness of each process's steps:
every await returns. It has none for issuing commands, crashes or clean-up; with
crashes, a command does not end and a marker stays, by design. `MeasuredCommand`
and `ManagedProcess` have weak fairness of timers and of the delivery of events,
which the event loop gives, and of `taskkill`, which is bounded by five seconds in
one and is not awaited in the other. Nothing is assumed of the processes, but that
one which got SIGKILL ends. That a stop ends (part of `CallsEnd`) therefore has a proviso:
unless a descendant goes on holding the pipes. The other specifications state no
fairness and are checked for safety only: their operations wait for nobody but the
processes above, and a tutorial inherits the proviso.

*Violations.* Three runs check what a comment says and the code does not do;
each stops at a counterexample, and `findings` quotes the line.

| Run | The statement | What happens |
| --- | --- | --- |
| `final_family_recoverable` | a partially *written* final family is recovered | only a family of which whole files are missing is; a torn file fails every later resume |
| `invocation_reported` | provider evidence establishes that work was done | the evidence read is the last attempt's; a repair that cannot start hides the call of the attempt before, and "none" is printed |
| `neighborhood_meant` | of several identities of a name none is taken, and the task's relation is unknown | an identity whose node has another kind or file is no candidate, the other one is taken, and a task is called unrelated though the first is affected |

### Observations in no run

Met while modelling; the model has the code's behaviour where it has the code.

- *Campaign store.* A crash between the creation of a store directory and its `owner.json`
  leaves a store that nobody can read (`dir = "unowned"`); failures after an epoch's
  directory is allocated leave it as an orphan. A first publication that fails cleanly
  leaves a root that is not empty and has no checkpoint, which neither `new` nor `resume`
  accepts (`commands/runExperimentRunCommand.ts:376`; `used` in `Offered`). A plain resume,
  unlike a continuation, carries no revision and acts on whatever is newest.
- *Treatments.* `docs/WORKFLOWS.md:604` says that failures of clean-up, integrity or
  infrastructure leave the verdict unavailable; `taskSuccess` does not look at clean-up
  and integrity, and `repairMode.test.ts:397` pins `false`. A git timeout in
  `git apply --check` counts as a failed patch check, which is eligible for repair. When creating the sandbox
  failed before the runtime root was made, removing that root throws
  (`g/campaignResumableExecution.ts:122`) and the unit stays authorized, then uncertain,
  though nobody was called. A provider limit whose clean-up failed is refused as terminal
  evidence; so is an attempt whose working directory could not be made, since its
  duration is measured in one place and null in the other. `providerInvoked` is set before the
  claim is read again (`g/realAgentExecution.ts:278`): what throws in between is evidence
  of a call that was not made.
- *Commands.* `core/runMeasuredCommand.ts:58` says that exceeding a limit terminates the
  process tree; line 192 does so only with `terminateProcessTree`, else one process gets
  SIGTERM on POSIX. A result file that cannot be written makes `settle` reject with nobody to
  handle it (`WriteFails`).
- *Managed processes.* `docs/reports/v0.4.7-browser-process-foundation.md:230` says
  `already-exited` when the child is already gone; while a descendant holds the pipes the
  exit is not yet observed, and `stop` waits without a bound, as a tutorial then does. Readiness may be answered by
  somebody else's server on the port. On Windows the graceful step of `stop` ends the root
  of the tree at once, so that the forced step has no tree to find (`HelperEnds`).
- *Tutorials.* The manifest is written with `passed` before `cleanup-failed` is decided
  (`tutorial/runTutorial.ts:360`-402, against
  `docs/reports/v0.4.7-tutorial-domain-execution.md:294`); log records are marked
  `written` without a look at the file.
- *Staleness.* The last "fresh" compares a copy with a snapshot hashed from that same copy
  after the tool ran: it sees neither what the tool did not refresh nor edits after the last
  comparison, which `EvidenceMatched` excepts as `unseen`. An edit that the tool indexes and that is
  taken back before the files are hashed (`evaluation/indexSnapshot.ts:485`) is in no hash: the scenario is ready
  with an index that differs from its snapshot. Nothing notices that, so `EvidenceMatched` is said
  of the files that are not in `repeated`; TLC shows the case when that exception is dropped. A scenario
  whose mutation changes more than 100 files is refused although nobody touched it,
  because its list of changes is cut (`s/lifecyclePolicy.ts:162`).

## 5. Proofs

Each theorem holds for every value of the constants that their assumptions allow.
An invariant is seldom inductive alone; what follows says what was added.

**CheckpointStoreProofs**: `TypeCorrect`, `DispatchExclusionHolds`,
`ChainIntactHolds`, `OrphanTemporaryUncommittedHolds`, `StaleOwnershipKeptHolds`, for
any processes, identities and number of attempts.
Who holds the dispatch owns the marker (`MarkerInv`); who works
under the lock owns it (`LockInv`); a bare writer past its assertion is seen by
every later acquisition, since the lock is taken before the marker is looked for and
the marker is written before the lock is looked for (`FlagInv`, the argument of
two flags); a validated candidate succeeds something committed (`CandidateInv`); a
candidate is built once (`FreshInv`); and where a committed temporary file can be
(`OrphanInv`).

**CampaignLedgerProofs**: `TypeCorrect`, `InOrderHolds`, `SettledKeptHolds`,
`UpdatedAtForwardHolds`, `ContinuationBoughtHolds`, `HistoryAcceptedHolds`, for any queue, epoch ids and clock.
Lemma `Shape` reduces
the four transitions of a unit to one shape. That `updatedAt` never goes back is not
checked by any transition against its parent; the invariant `Witnessed` says why it
holds all the same: the time is recorded in an epoch (or the chain is new, or ends
here), and recorded times are what the next transition is compared with. `Paced` says that
the generations since a unit's reservation count that unit's transitions and nobody
else's, so that the continuation's revision is the pause itself. The history check infers
each transition from the one unit that changed (`OneChange`) and its last epoch
(`LastInferred`, `ReserveInferred`).

**ResumableCampaignProofs**: `TypeCorrect`, `InvocationClaimedHolds`,
`SingleInvokerHolds`, `ContinuesObservedHolds`, `StaysStoppedHolds`, `FamilySoundHolds`, `OneCaseKeptHolds`,
`ImplementsLedgerHolds`: every safety property of the runs, for any processes, commands,
units, repairs and faults. They assume `ClockUnbounded`, that `Times` has every number: a
generation is its own time here, and only TLC needs the finite clock. The invariant: what a
process knows is well formed, and where it is says what it knows
(`Local`); it is not newer than what is committed, and equal to it at the same generation
(`View`). A publication is linked only when the history check under the lock accepted
it, and that check accepts only the next generation, so what is linked was made of the
newest checkpoint (`LinkMakes`): this is the refinement. Only the command whose id the open
epoch has moves a unit past its reservation (`MadeByOwner`), which keeps a
second command from the provider although its marker was deleted. The same holds a campaign
at the unit it stopped at (`StaysStopped`): whatever a command links is about the first uncompleted unit, which
is that unit (`OpenStops`), and a unit that ended for good or belongs to a command that is gone
has no successor that a command can make (`StoppedLinksNothing`); the numbers of commands are never
used twice (`IdsIssued`). A campaign whose clock was set back after the provider ran stops there too,
and does not go on when the clock is where it was. The family's files are
written for the one completion time that the last settlement determines, and after that only
the finalization is possible (`OnlyFinalized`, `FamilyInv`).

**TreatmentAttemptsProofs**: `TypeCorrect`, `NothingReusedHolds`, `CallRecordedHolds`,
`EvaluatedAcceptedHolds`, `ImplementsAttemptsHolds`, for any set of allowances. `Progress`
says how far the evidence has come at each stage, `Evaluated` what complete evidence proves,
`Files` and `Calls` what an attempt answers for, `Earlier` why it was made at all.

**MeasuredCommandProofs**: `TypeCorrect`, `ResultTruthfulHolds`, for any output and limit. A
command is settled once, and when the termination it awaited is known (`SettledInv`); nothing
that the result is made of changes after that (`AnswerInv`). A code of 0 comes from a
close, after which nothing runs and nothing is in the pipe (`CodeInv`), and until then the
chunks are accounted for (`OutputInv`).

**TutorialRunProofs**: `TypeCorrect`, `StatusTruthfulHolds`, `DependentsFirstHolds`, for any
number of processes and steps. `Handles`, `Closed` and `StepsAgree` say, by stage, what
was started, what is open because it could not be closed, and that a run that has not
failed has passed all its steps. The second part is about one of the processes of a run:
the module extends `ManagedProcess` too, whose definitions are therefore named for the
handle (`HandleInit`, `HandleNext`, `HandleTypeOK`). It proves `HandleTypeCorrect`,
`StopIsCompleteHolds` and `OneRequestHolds`, for any callers; a stop in flight is forgotten only after the exit, and
an exit is final. `HandleAsUsed` is what the first part takes for granted in `Exits` and
`StopReturns`: a process exits once, and who awaits its stop goes on only after that.

**IndexStalenessProofs**: `TypeCorrect`, `EvidenceMatchedHolds`, `NoFalseAlarmHolds`, for
any files, mutations, contents, lengths of lists and number of edits. What is proved of the evidence is
about the files that are not in `repeated`. The invariant follows one
file of one copy: what it holds (`Holds`), and what each operation that looked at it saw, related
to what it holds now and has held (`Pre`, `Baseline`, `Validated`, `Post`, `Assess`, `Refresh`). Who
sees the same at two times in a file that is not in `repeated` knows that it was not edited between them.
What one copy alone cannot exclude - an edit that each later look finds again - the comparisons
exclude (`PostMatched`, `AssessMatched`): no two copies were given the same by edits (`Apart`), so that equal
copies hold none (`BaselinesAgree`, `CopiesAgree`). `NoFalseAlarm` is part of the invariant: with nobody
editing (`Untouched`), each comparison is of what the steps before it made.

**AffectedNeighborhoodProofs**: `TypeCorrect`, `RelationshipTruthfulHolds`, for any files,
symbols, graphs, tasks and faults. A comparison stands until the next edit (`AsCompared`); seeds and
neighborhood are never more than the truth (`SeedsTrue`, `NeighborhoodTrue`), and all
of it when the evidence is complete (`NeighborhoodWhole`). The half about "unrelated" leaves out the symbols
whose node the graph has with another kind or file (`Certain`): for these the code is wrong, as
the run `neighborhood_meant` shows. A symbol whose record or node is missing altogether is not left out.

*Only model-checked:* the liveness properties (`CommandsEnd`, `BoundedCommandEnds`,
`CallsEnd`), which are beyond what the prover does.

## 6. Not modelled

Most of the implementation has no states to explore, and a model of it would repeat it
line by line. The models cover the parts that have states; a large share of the source
stays without a model, and for this reason:

- *validators* of versioned JSON (`evaluation/upstreamArtifacts`, `evaluation/agentSuccess`,
  `experiments/config.ts`, the tutorial's contracts, most of `g/campaignRecovery.ts`'s
  shape checks): field by field, without an order that matters. What a validation
  decides about a sequence of states is in the models;
- *renderers* of reports, plots, prompts and galleries, and pure *metrics* (retrieval
  quality, stage context, scoring);
- *audits and security validation*: static scans and catalogues, run one by one;
- *generators* of benchmark subjects and the benchmarks themselves;
- `scripts/`, which verify a packed package step by step and stop at the first failure;
- *drivers* of external programs (agents, browser, mobile devices): their hard behaviour is
  that of the program they drive, and what this code does when it fails, times out or hangs
  is `MeasuredCommand` and `ManagedProcess`;
- *other experiments*: one measured call after another over validated data.

*Partly modelled* are the checkpoint store (epoch directories and supporting artifacts are
preparations that fail or not), the campaign command (ordinary runs are left out), the
version 1 executor (its chain rules are the store's; two states per unit, no epochs),
managed processes (the bounded tail and logs are left out), the staleness experiment
(not its retrieval and scoring) and the warm index experiment (not its retrieval).
