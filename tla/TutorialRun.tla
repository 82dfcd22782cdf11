------------------------------ MODULE TutorialRun ------------------------------
(***************************************************************************)
(* A tutorial run (runTutorial.ts): a target is prepared, its processes    *)
(* are started one after the other, a browser is launched, the steps of    *)
(* the scenario are executed and recorded, and what was started is         *)
(* released again, on every path, before the status of the run is          *)
(* decided.  Every stage may fail, and a process may exit at any time.     *)
(***************************************************************************)
EXTENDS Naturals, Sequences

CONSTANTS NumProcesses, NumSteps  \* what the target contract and the scenario declare
ASSUME CountsAssumption == NumProcesses \in Nat \ {0} /\ NumSteps \in Nat \ {0}

VARIABLES pc,
          started,   \* handles in started: of the processes 1..started
          alive,     \* processes whose exit was not observed yet
          browser, session, video,  \* the browser, its context and page, the page has a recording
          steps, shots, records,    \* results of the steps, of their screenshots, artifacts
          errors,    \* cleanupErrors, by what could not be closed
          primary,   \* primaryStatus, or the status of a run that failed early
          manifest,  \* the run status it gives, or what became of it
          status     \* of the result

processes == <<started, alive>>
recording == <<browser, session, video, steps, shots, records, errors>>
result == <<manifest, status>>
vars == <<pc, processes, recording, primary, result>>

Processes == 1..NumProcesses
Texts == {"srt", "vtt", "markdown"}
Records == {"written", "failed", "skipped"}
InvalidInputs == {"scenario-invalid", "target-invalid", "target-mismatch", "prepare-failed"}
EarlyFailures == {"prepare-failed", "process-start-failed", "readiness-failed", "browser-unavailable", "browser-failed"}
Statuses == InvalidInputs \cup EarlyFailures \cup
            {"passed", "step-failed", "video-finalization-failed", "artifact-failed", "cleanup-failed"}

TypeOK ==
  /\ pc \in {"load", "prepare", "start", "ready", "launch", "open", "step", "close", "video",
             "quit", "write", "stop", "stopping", "settle", "done"}
  /\ started \in 0..NumProcesses /\ alive \subseteq Processes
  /\ browser \in {"none", "open", "closed"} /\ session \in {"none", "open", "closed"} /\ video \in BOOLEAN
  /\ steps \in Seq({"passed", "failed", "not-run"}) /\ Len(steps) <= NumSteps
  /\ shots \subseteq Records /\ records \in [Texts \cup {"video"} -> Records]
  /\ errors \subseteq {"page", "context", "browser"}
  /\ primary \in Statuses /\ manifest \in Statuses \cup {"none", "unwritten"} /\ status \in Statuses \cup {"none"}

Init ==
  /\ pc = "load" /\ started = 0 /\ alive = {}
  /\ browser = "none" /\ session = "none" /\ video = FALSE
  /\ steps = <<>> /\ shots = {} /\ records = [kind \in Texts \cup {"video"} |-> "skipped"]
  /\ errors = {} /\ primary = "passed" /\ manifest = "none" /\ status = "none"

\* Contracts, identity and run directories: a failure leaves nothing to record.
Load ==
  /\ pc = "load"
  /\ \/ pc' = "prepare" /\ UNCHANGED status
     \/ pc' = "done" /\ status' \in InvalidInputs
  /\ UNCHANGED <<processes, recording, primary, manifest>>

\* An early failure stops what was started, last first, and goes on to the manifest.
FailEarly(failure) == pc' = "stop" /\ primary' = failure
Continue(next) == pc' = next /\ UNCHANGED primary

Prepare ==
  /\ pc = "prepare"
  /\ FailEarly("prepare-failed") \/ Continue("start")
  /\ UNCHANGED <<processes, recording, result>>

\* startManagedProcess throws, or returns a handle that is kept before anything is awaited.
StartProcess ==
  /\ pc = "start"
  /\ \/ FailEarly("process-start-failed") /\ UNCHANGED <<started, alive>>
     \/ /\ Continue("ready")
        /\ started' = started + 1 /\ alive' = alive \cup {started + 1}
  /\ UNCHANGED <<recording, result>>

\* Mutant: a process that does not become ready is abandoned, with those before it.
AwaitReadinessOnly ==
  /\ pc = "ready"
  /\ \/ pc' = "settle" /\ primary' = "readiness-failed"
     \/ Continue(IF started < NumProcesses THEN "start" ELSE "launch")
  /\ UNCHANGED <<processes, recording, result>>

\* Mutant: one process too many.
AwaitReadinessBeyond ==
  /\ pc = "ready"
  /\ \/ FailEarly("readiness-failed")
     \/ Continue(IF started <= NumProcesses THEN "start" ELSE "launch")
  /\ UNCHANGED <<processes, recording, result>>

\* Somebody else's server may answer for a process that has exited.
AwaitReadiness ==
  /\ pc = "ready"
  /\ \/ FailEarly("readiness-failed")
     \/ Continue(IF started < NumProcesses THEN "start" ELSE "launch")
  /\ UNCHANGED <<processes, recording, result>>

LaunchBrowser ==
  /\ pc = "launch"
  /\ \/ \E failure \in {"browser-unavailable", "browser-failed"} : FailEarly(failure) /\ UNCHANGED browser
     \/ Continue("open") /\ browser' = "open"
  /\ UNCHANGED <<processes, session, video, steps, shots, records, errors, result>>

\* openTutorialSession: no context, or none that has a page; an error in closing it is dropped.
OpenSession ==
  /\ pc = "open"
  /\ \/ pc' = "quit" /\ primary' = "browser-failed" /\ session' \in {"none", "open", "closed"} /\ UNCHANGED video
     \/ Continue("step") /\ session' = "open" /\ video' \in BOOLEAN
  /\ UNCHANGED <<processes, browser, steps, shots, records, errors, result>>

\* executeTutorialSteps.  A failed action skips the screenshot, a failed assertion does
\* not; later steps are not run.  A step need not ask for a screenshot.
ExecuteStep ==
  /\ pc = "step" /\ Len(steps) < NumSteps
  /\ \/ /\ primary = "step-failed"
        /\ steps' = Append(steps, "not-run") /\ UNCHANGED <<shots, primary>>
     \/ /\ primary = "passed"
        /\ shots' \in {shots, shots \cup {"skipped"}}
        /\ steps' = Append(steps, "failed") /\ primary' = "step-failed"
     \/ /\ primary = "passed"
        /\ shots' \in {shots, shots \cup {"written"}, shots \cup {"failed"}}
        /\ \/ steps' = Append(steps, "failed") /\ primary' = "step-failed"
           \/ steps' = Append(steps, "passed") /\ UNCHANGED primary
  /\ UNCHANGED <<pc, processes, browser, session, video, records, errors, result>>

EndSteps ==
  /\ pc = "step" /\ Len(steps) = NumSteps
  /\ pc' = "close" /\ UNCHANGED <<processes, recording, primary, result>>

\* The page, then the context, whatever became of the page: closing it ends the recording.
CloseSession ==
  /\ pc = "close" /\ pc' = "video"
  /\ \E failed \in SUBSET {"page", "context"} :
       /\ errors' = errors \cup failed
       /\ session' = IF "context" \in failed THEN "open" ELSE "closed"
  /\ UNCHANGED <<processes, browser, video, steps, shots, records, primary, result>>

FinalizeVideo ==
  /\ pc = "video" /\ pc' = "quit"
  /\ \E record \in IF video THEN {"written", "failed"} ELSE {"skipped"} :
       records' = [records EXCEPT !["video"] = record]
  /\ UNCHANGED <<processes, browser, session, video, steps, shots, errors, primary, result>>

\* A browser that closes closes its contexts.
CloseBrowser ==
  /\ pc = "quit" /\ pc' = "write"
  /\ \/ browser' = "closed" /\ session' = (IF session = "open" THEN "closed" ELSE session) /\ UNCHANGED errors
     \/ errors' = errors \cup {"browser"} /\ UNCHANGED <<browser, session>>
  /\ UNCHANGED <<processes, video, steps, shots, records, primary, result>>

WriteTexts ==
  /\ pc = "write" /\ pc' = "stop"
  /\ \E texts \in [Texts -> {"written", "failed"}] :
       records' = [kind \in DOMAIN records |-> IF kind \in Texts THEN texts[kind] ELSE records[kind]]
  /\ UNCHANGED <<processes, browser, session, video, steps, shots, errors, primary, result>>

\* stopProcessesInReverse: one stop at a time, the last process first.
BeginStop ==
  /\ pc = "stop" /\ started > 0
  /\ pc' = "stopping" /\ UNCHANGED <<processes, recording, primary, result>>

\* Mutant: the stop is not awaited.
StopUnawaited ==
  /\ pc = "stopping"
  /\ pc' = "stop" /\ started' = started - 1
  /\ UNCHANGED <<alive, recording, primary, result>>

\* A stop never fails; it returns when the exit is observed (ManagedProcess).
StopReturns ==
  /\ pc = "stopping" /\ started \notin alive
  /\ pc' = "stop" /\ started' = started - 1
  /\ UNCHANGED <<alive, recording, primary, result>>

AllStopped ==
  /\ pc = "stop" /\ started = 0
  /\ pc' = "settle" /\ UNCHANGED <<processes, recording, primary, result>>

\* An execution failure is never replaced by an artifact that failed.
FinalStatus ==
  IF primary # "passed" THEN primary
  ELSE IF records["video"] # "written" THEN "video-finalization-failed"
  ELSE IF "failed" \in shots \cup {records[kind] : kind \in Texts} THEN "artifact-failed"
  ELSE "passed"

\* The manifest gives the status as it is now; a manifest that cannot be written, or
\* something that could not be closed, may still turn a run that passed.
Settle ==
  /\ pc = "settle" /\ pc' = "done"
  /\ manifest' \in {FinalStatus, "unwritten"}
  /\ status' = IF FinalStatus # "passed" THEN FinalStatus
               ELSE IF manifest' = "unwritten" THEN "artifact-failed"
               ELSE IF errors # {} THEN "cleanup-failed" ELSE "passed"
  /\ UNCHANGED <<processes, recording, primary>>

\* A process exits by itself, or because it is stopped.
Exits ==
  /\ \E p \in alive : alive' = alive \ {p}
  /\ UNCHANGED <<pc, started, recording, primary, result>>

Next ==
  \/ Load \/ Prepare \/ StartProcess \/ AwaitReadiness \/ LaunchBrowser
  \/ OpenSession \/ ExecuteStep \/ EndSteps \/ CloseSession \/ FinalizeVideo
  \/ CloseBrowser \/ WriteTexts \/ BeginStop \/ StopReturns \/ AllStopped \/ Settle
  \/ Exits

Spec == Init /\ [][Next]_vars

(***************************************************************************)
(* Properties                                                              *)
(***************************************************************************)
\* When a run returns, on whichever path, no process of it is left, and a browser or
\* context that is left is reported as a cleanup error.  "passed" is said only of a run
\* whose steps all passed, whose artifacts are all there and which left nothing; a step
\* that failed is what the run reports, whatever failed after it.
StatusTruthful ==
  pc = "done" =>
    /\ alive = {}
    /\ "open" \in {browser, session} => errors # {}
    /\ status = "passed" =>
         /\ errors = {} /\ manifest = "passed"
         /\ Len(steps) = NumSteps /\ \A i \in 1..NumSteps : steps[i] = "passed"
         /\ \A kind \in DOMAIN records : records[kind] = "written"
         /\ shots \subseteq {"written"}
    /\ (\E i \in 1..Len(steps) : steps[i] = "failed") => status = "step-failed"

\* A process is asked to stop only when everything that may depend on it is gone: the
\* processes started after it, and the browser, unless the browser refused to close
\* ("a dependent process is always shut down before whatever it depends on").
DependentsFirst ==
  [][pc = "stop" /\ pc' = "stopping" =>
       /\ \A p \in alive : p <= started
       /\ browser = "open" => "browser" \in errors]_vars
=============================================================================
