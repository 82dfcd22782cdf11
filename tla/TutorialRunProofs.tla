---------------------------- MODULE TutorialRunProofs ----------------------------
(***************************************************************************)
(* A tutorial run keeps its type, says of itself only what is true, and    *)
(* stops what others may depend on last, for every number of processes and *)
(* of steps.  The inductive invariant Inductive says, by the place a run   *)
(* has reached, what it has started, what it has seen fail and what it     *)
(* has recorded.  The processes it stops are those of ManagedProcess,      *)
(* which the second part is about.                                         *)
(***************************************************************************)
EXTENDS TutorialRun, ManagedProcess, TLAPS

BeforeBrowser == {"load", "prepare", "start", "ready", "launch"}
AfterBrowser == {"write", "stop", "stopping", "settle"}

\* The handles: what is alive was started and not stopped.
Handles ==
  /\ \A p \in alive : p <= started
  /\ pc \in {"load", "prepare"} => started = 0
  /\ pc = "start" => started < NumProcesses
  /\ pc \in {"ready", "stopping"} => started > 0
  /\ pc \in {"settle", "done"} => started = 0

\* What is open later than CloseBrowser could not be closed.
Closed ==
  /\ pc \in BeforeBrowser => browser = "none" /\ session = "none"
  /\ pc \in AfterBrowser /\ "open" \in {browser, session} => "browser" \in errors

\* A run that has not failed has passed its steps; a failed step is the failure.
StepsAgree ==
  /\ pc \in BeforeBrowser \cup {"open"} => steps = <<>> /\ primary = "passed"
  /\ pc = "step" => primary \in {"passed", "step-failed"}
  /\ primary = "passed" =>
       /\ \A i \in 1..Len(steps) : steps[i] = "passed"
       /\ "skipped" \notin shots
       /\ pc \in {"close", "video", "quit", "write", "stop", "stopping", "settle"} => Len(steps) = NumSteps
       /\ pc \in {"stop", "stopping", "settle"} => \A kind \in Texts : records[kind] # "skipped"
  /\ (\E i \in 1..Len(steps) : steps[i] = "failed") => primary = "step-failed"

Inductive == TypeOK /\ Handles /\ Closed /\ StepsAgree /\ StatusTruthful

\* A run that has not begun satisfies the inductive invariant.
LEMMA InitInductive == Init => Inductive
<1> SUFFICES ASSUME Init PROVE Inductive
  OBVIOUS
<1>1. steps \in Seq({"passed", "failed", "not-run"}) /\ Len(steps) <= NumSteps
  BY CountsAssumption DEF Init
<1>2. records \in [Texts \cup {"video"} -> Records]
  BY DEF Init, Records
<1>3. TypeOK
  <2>1. video \in BOOLEAN
    BY DEF Init
  <2>2. started \in 0..NumProcesses /\ alive \subseteq Processes /\ shots \subseteq Records
    BY CountsAssumption DEF Init
  <2> QED
    BY <1>1, <1>2, <2>1, <2>2 DEF Init, TypeOK, Statuses
<1>4. Handles /\ Closed /\ StepsAgree /\ StatusTruthful
  BY CountsAssumption DEF Init, Handles, Closed, StepsAgree, StatusTruthful, BeforeBrowser, AfterBrowser
<1> QED
  BY <1>3, <1>4 DEF Inductive

\* Every action keeps the type.
LEMMA NextTypeOK == Inductive /\ [Next]_vars => TypeOK'
<1> SUFFICES ASSUME Inductive, [Next]_vars PROVE TypeOK'
  OBVIOUS
<1> USE CountsAssumption DEF Inductive, TypeOK, Statuses, EarlyFailures, InvalidInputs, processes, recording, result
<1>1. CASE Load
  BY <1>1 DEF Load
<1>2. CASE Prepare
  BY <1>2 DEF Prepare, FailEarly, Continue
<1>3. CASE StartProcess
  <2>1. CASE FailEarly("process-start-failed") /\ UNCHANGED <<started, alive>>
    BY <1>3, <2>1 DEF StartProcess, FailEarly
  <2>2. CASE Continue("ready") /\ started' = started + 1 /\ alive' = alive \cup {started + 1}
    <3>1. started' \in 0..NumProcesses /\ started + 1 \in Processes
      BY <1>3, <2>2 DEF StartProcess, Handles, Processes
    <3> QED
      BY <1>3, <2>2, <3>1 DEF StartProcess, Continue
  <2> QED
    BY <1>3, <2>1, <2>2 DEF StartProcess
<1>4. CASE AwaitReadiness
  BY <1>4 DEF AwaitReadiness, FailEarly, Continue
<1>5. CASE LaunchBrowser
  BY <1>5 DEF LaunchBrowser, FailEarly, Continue
<1>6. CASE OpenSession
  BY <1>6 DEF OpenSession, Continue
<1>7. CASE ExecuteStep
  <2>1. PICK step \in {"passed", "failed", "not-run"} : steps' = Append(steps, step)
    BY <1>7 DEF ExecuteStep
  <2>2. steps' \in Seq({"passed", "failed", "not-run"}) /\ Len(steps') <= NumSteps
    BY <1>7, <2>1 DEF ExecuteStep
  <2>3. shots' \subseteq Records /\ primary' \in Statuses
    BY <1>7 DEF ExecuteStep, Records
  <2> QED
    BY <1>7, <2>2, <2>3 DEF ExecuteStep
<1>8. CASE EndSteps
  BY <1>8 DEF EndSteps
<1>9. CASE CloseSession
  BY <1>9 DEF CloseSession
<1>10. CASE FinalizeVideo
  BY <1>10 DEF FinalizeVideo, Records, Texts
<1>11. CASE CloseBrowser
  <2>1. browser' \in {"open", "closed", browser} /\ session' \in {"closed", session}
    BY <1>11 DEF CloseBrowser
  <2>2. errors' \subseteq {"page", "context", "browser"}
    BY <1>11 DEF CloseBrowser
  <2> QED
    BY <1>11, <2>1, <2>2 DEF CloseBrowser
<1>12. CASE WriteTexts
  BY <1>12 DEF WriteTexts, Records, Texts
<1>13. CASE BeginStop
  BY <1>13 DEF BeginStop
<1>14. CASE StopReturns
  BY <1>14 DEF StopReturns, Handles
<1>15. CASE AllStopped
  BY <1>15 DEF AllStopped
<1>16. CASE Settle
  BY <1>16 DEF Settle, FinalStatus
<1>17. CASE Exits
  BY <1>17 DEF Exits
<1>18. CASE UNCHANGED vars
  BY <1>18 DEF vars
<1> QED
  BY <1>1, <1>2, <1>3, <1>4, <1>5, <1>6, <1>7, <1>8, <1>9, <1>10, <1>11, <1>12, <1>13,
     <1>14, <1>15, <1>16, <1>17, <1>18 DEF Next

\* Every action keeps the account of the handles and of what is open.
LEMMA NextReleases == Inductive /\ [Next]_vars => Handles' /\ Closed'
<1> SUFFICES ASSUME Inductive, [Next]_vars PROVE Handles' /\ Closed'
  OBVIOUS
<1> USE CountsAssumption DEF Inductive, TypeOK, Handles, Closed, BeforeBrowser, AfterBrowser, Processes,
                             processes, recording, result
<1>1. CASE Load
  BY <1>1 DEF Load
<1>2. CASE Prepare
  BY <1>2 DEF Prepare, FailEarly, Continue
<1>3. CASE StartProcess
  <2>1. CASE FailEarly("process-start-failed") /\ UNCHANGED <<started, alive>>
    BY <1>3, <2>1 DEF StartProcess, FailEarly
  <2>2. CASE Continue("ready") /\ started' = started + 1 /\ alive' = alive \cup {started + 1}
    <3>1. \A p \in alive' : p <= started'
      BY <1>3, <2>2 DEF StartProcess
    <3> QED
      BY <1>3, <2>2, <3>1 DEF StartProcess, Continue
  <2> QED
    BY <1>3, <2>1, <2>2 DEF StartProcess
<1>4. CASE AwaitReadiness
  BY <1>4 DEF AwaitReadiness, FailEarly, Continue
<1>5. CASE LaunchBrowser
  BY <1>5 DEF LaunchBrowser, FailEarly, Continue
<1>6. CASE OpenSession
  BY <1>6 DEF OpenSession, Continue
<1>7. CASE ExecuteStep
  BY <1>7 DEF ExecuteStep
<1>8. CASE EndSteps \/ CloseSession \/ FinalizeVideo
  <2>1. CASE EndSteps
    BY <2>1 DEF EndSteps
  <2>2. CASE CloseSession
    BY <2>2 DEF CloseSession
  <2>3. CASE FinalizeVideo
    BY <2>3 DEF FinalizeVideo
  <2> QED
    BY <1>8, <2>1, <2>2, <2>3
<1>9. CASE CloseBrowser
  BY <1>9 DEF CloseBrowser
<1>10. CASE WriteTexts
  BY <1>10 DEF WriteTexts
<1>11. CASE BeginStop
  BY <1>11 DEF BeginStop
<1>12. CASE StopReturns
  BY <1>12 DEF StopReturns
<1>13. CASE AllStopped \/ Settle
  BY <1>13 DEF AllStopped, Settle
<1>14. CASE Exits
  BY <1>14 DEF Exits
<1>15. CASE UNCHANGED vars
  BY <1>15 DEF vars
<1> QED
  BY <1>1, <1>2, <1>3, <1>4, <1>5, <1>6, <1>7, <1>8, <1>9, <1>10, <1>11, <1>12, <1>13,
     <1>14, <1>15 DEF Next

\* Every action keeps the agreement of the steps with the failure of the run.
LEMMA NextStepsAgree == Inductive /\ [Next]_vars => StepsAgree'
<1> SUFFICES ASSUME Inductive, [Next]_vars PROVE StepsAgree'
  OBVIOUS
<1> USE CountsAssumption DEF Inductive, TypeOK, StepsAgree, BeforeBrowser, processes, recording, result
<1>1. CASE Load
  BY <1>1 DEF Load
<1>2. CASE Prepare
  BY <1>2 DEF Prepare, FailEarly, Continue
<1>3. CASE StartProcess
  BY <1>3 DEF StartProcess, FailEarly, Continue
<1>4. CASE AwaitReadiness
  BY <1>4 DEF AwaitReadiness, FailEarly, Continue
<1>5. CASE LaunchBrowser
  BY <1>5 DEF LaunchBrowser, FailEarly, Continue
<1>6. CASE OpenSession
  BY <1>6 DEF OpenSession, Continue
<1>7. CASE ExecuteStep
  BY <1>7 DEF ExecuteStep
<1>8. CASE EndSteps \/ CloseSession
  BY <1>8 DEF EndSteps, CloseSession
<1>9. CASE FinalizeVideo
  BY <1>9 DEF FinalizeVideo, Texts
<1>10. CASE CloseBrowser
  BY <1>10 DEF CloseBrowser
<1>11. CASE WriteTexts
  BY <1>11 DEF WriteTexts, Texts
<1>12. CASE BeginStop \/ StopReturns \/ AllStopped
  BY <1>12 DEF BeginStop, StopReturns, AllStopped, Handles
<1>13. CASE Settle
  BY <1>13 DEF Settle
<1>14. CASE Exits
  BY <1>14 DEF Exits
<1>15. CASE UNCHANGED vars
  BY <1>15 DEF vars
<1> QED
  BY <1>1, <1>2, <1>3, <1>4, <1>5, <1>6, <1>7, <1>8, <1>9, <1>10, <1>11, <1>12, <1>13,
     <1>14, <1>15 DEF Next

\* A run that returns says what is true of it.
LEMMA NextTruthful == Inductive /\ [Next]_vars => StatusTruthful'
<1> SUFFICES ASSUME Inductive, [Next]_vars, pc' = "done" PROVE StatusTruthful'
  BY DEF StatusTruthful
<1> USE CountsAssumption DEF Inductive, TypeOK, processes, recording, result
<1>1. CASE Load
  <2>1. pc = "load" /\ status' \in InvalidInputs /\ UNCHANGED <<processes, recording>>
    BY <1>1 DEF Load
  <2>2. alive = {} /\ browser = "none" /\ session = "none" /\ steps = <<>>
    BY <2>1 DEF Handles, Closed, StepsAgree, BeforeBrowser, Processes
  <2>3. ~\E i \in 1..Len(steps) : steps[i] = "failed"
    BY <2>2
  <2>4. status' # "passed"
    BY <2>1 DEF InvalidInputs
  <2> QED
    BY <2>1, <2>2, <2>3, <2>4 DEF StatusTruthful
<1>2. CASE Settle
  <2>1. alive = {}
    BY <1>2 DEF Settle, Handles, Processes
  <2>2. "open" \in {browser, session} => errors # {}
    BY <1>2 DEF Settle, Closed, AfterBrowser
  <2>3. ASSUME status' = "passed"
        PROVE  /\ errors = {} /\ manifest' = "passed"
               /\ Len(steps) = NumSteps /\ \A i \in 1..NumSteps : steps[i] = "passed"
               /\ \A kind \in DOMAIN records : records[kind] = "written"
               /\ shots \subseteq {"written"}
    <3>1. FinalStatus = "passed" /\ manifest' = "passed" /\ errors = {}
      BY <1>2, <2>3 DEF Settle
    <3>2. primary = "passed"
      BY <3>1 DEF FinalStatus
    <3>3. records["video"] = "written" /\ "failed" \notin shots \cup {records[kind] : kind \in Texts}
      BY <3>1, <3>2 DEF FinalStatus
    <3>4. \A kind \in Texts : records[kind] = "written"
      BY <1>2, <3>2, <3>3 DEF Settle, StepsAgree, Records, Texts
    <3>5. shots \subseteq {"written"}
      BY <3>2, <3>3 DEF StepsAgree, Records
    <3> QED
      BY <1>2, <3>1, <3>2, <3>3, <3>4, <3>5 DEF Settle, StepsAgree
  <2>4. (\E i \in 1..Len(steps) : steps[i] = "failed") => status' = "step-failed"
    BY <1>2 DEF Settle, FinalStatus, StepsAgree
  <2> QED
    BY <1>2, <2>1, <2>2, <2>3, <2>4 DEF Settle, StatusTruthful
<1>3. CASE Exits
  BY <1>3 DEF Exits, StatusTruthful
<1>4. CASE StopReturns
  BY <1>4 DEF StopReturns, Handles
<1>5. CASE UNCHANGED vars
  BY <1>5 DEF vars, StatusTruthful
<1> QED
  BY <1>1, <1>2, <1>3, <1>4, <1>5 DEF Next, Prepare, StartProcess, AwaitReadiness, LaunchBrowser,
     OpenSession, ExecuteStep, EndSteps, CloseSession, FinalizeVideo, CloseBrowser, WriteTexts,
     BeginStop, AllStopped, FailEarly, Continue

\* The inductive invariant holds of every run.
LEMMA AlwaysInductive == Spec => []Inductive
<1>1. Inductive /\ [Next]_vars => Inductive'
  BY NextTypeOK, NextReleases, NextStepsAgree, NextTruthful DEF Inductive
<1> QED
  BY InitInductive, <1>1, PTL DEF Spec

\* The state of a tutorial run keeps its type, for every number of processes and steps.
THEOREM TypeCorrect == Spec => []TypeOK
<1>1. Inductive => TypeOK
  BY DEF Inductive
<1> QED
  BY AlwaysInductive, <1>1, PTL

\* A run that returned has left no process, reports what it could not close, passed
\* only if everything did, and reports the step that failed.
THEOREM StatusTruthfulHolds == Spec => []StatusTruthful
<1>1. Inductive => StatusTruthful
  BY DEF Inductive
<1> QED
  BY AlwaysInductive, <1>1, PTL

\* No process is asked to stop while one that was started after it, or a browser that
\* did not refuse to close, is still there.
THEOREM DependentsFirstHolds == Spec => DependentsFirst
<1>1. Inductive /\ [Next]_vars =>
        [pc = "stop" /\ pc' = "stopping" =>
           /\ \A p \in alive : p <= started
           /\ browser = "open" => "browser" \in errors]_vars
  <2> SUFFICES ASSUME Inductive, [Next]_vars, pc = "stop", pc' = "stopping"
               PROVE  (\A p \in alive : p <= started) /\ (browser = "open" => "browser" \in errors)
    OBVIOUS
  <2>1. BeginStop
    BY DEF Next, vars, processes, Load, Prepare, StartProcess, AwaitReadiness, LaunchBrowser,
       OpenSession, ExecuteStep, EndSteps, CloseSession, FinalizeVideo, CloseBrowser, WriteTexts,
       StopReturns, AllStopped, Settle, Exits
  <2> QED
    BY <2>1 DEF BeginStop, Inductive, Handles, Closed, AfterBrowser
<1> QED
  BY AlwaysInductive, <1>1, PTL DEF Spec, DependentsFirst

-----------------------------------------------------------------------------
(***************************************************************************)
(* One of the run's processes, as ManagedProcess has it: for any set of    *)
(* callers of its handle, what the run above takes for granted of stop and *)
(* of the exit.  A stop that returned found the exit (StopWaited), the     *)
(* exit is of a process that is gone and whose pipes nobody holds          *)
(* (ExitIsLast), and it is only after the exit that a stop in flight is    *)
(* forgotten (RequestedOnce).                                              *)
(***************************************************************************)
ExitIsLast == exited => child = "gone" /\ kin # "running"
StopWaited == \A c \in Callers : stop[c] = "returned" => exited
RequestedOnce == requests = 0 \/ (requests = 1 /\ (phase # "off" \/ exited))

ManagedInv == HandleTypeOK /\ ExitIsLast /\ StopWaited /\ RequestedOnce

\* A process that was just started satisfies the invariant.
LEMMA InitManagedInv == HandleInit => ManagedInv
<1> SUFFICES ASSUME HandleInit PROVE ManagedInv
  OBVIOUS
<1>1. HandleTypeOK
  <2>1. /\ windows \in BOOLEAN /\ exited \in BOOLEAN /\ helper \in BOOLEAN
        /\ late \in BOOLEAN
    BY Zenon DEF HandleInit
  <2>2. /\ signal \in [{"child", "kin"} -> {"none", "term", "kill"}]
        /\ stop \in [Callers -> {"idle", "pending", "returned"}]
        /\ stopStatus \in [Callers -> StopStatuses \cup {"none"}]
    BY DEF HandleInit
  <2> QED BY <2>1, <2>2 DEF HandleInit, HandleTypeOK, Replies
<1>2. ExitIsLast /\ StopWaited /\ RequestedOnce
  BY DEF HandleInit, ExitIsLast, StopWaited, RequestedOnce
<1> QED BY <1>1, <1>2 DEF ManagedInv

\* Every action keeps the invariant.
LEMMA NextManagedInv == ManagedInv /\ [HandleNext]_handleVars => ManagedInv'
<1> SUFFICES ASSUME ManagedInv, [HandleNext]_handleVars PROVE ManagedInv'
  OBVIOUS
<1> USE DEF ManagedInv, HandleTypeOK, ExitIsLast, StopWaited, RequestedOnce, StopStatuses, Replies
<1>1. CASE Fork
  BY <1>1 DEF Fork, stops, readiness
<1>2. CASE ChildEnds
  BY <1>2 DEF ChildEnds, Leaves, stops
<1>3. CASE KinEnds
  BY <1>3 DEF KinEnds, Leaves, stops
<1>4. CASE Listen
  BY <1>4 DEF Listen, platform, stops
<1>5. CASE Answer
  BY <1>5 DEF Answer, platform, stops
<1>6. CASE Exit
  BY <1>6 DEF Exit, stops, readiness
<1>7. CASE Close
  BY <1>7 DEF Close, stops, readiness
<1>8. ASSUME NEW c \in Callers, Stop(c) PROVE ManagedInv'
  <2> USE <1>8 DEF Stop, readiness
  <2>1. CASE exited
    BY <2>1
  <2>2. CASE ~exited /\ phase # "off"
    BY <2>2
  <2>3. CASE ~exited /\ phase = "off"
    BY <2>3 DEF RequestTermination
  <2> QED BY <2>1, <2>2, <2>3
<1>9. CASE GraceExpires
  <2> USE <1>9 DEF GraceExpires, ForceTermination, readiness
  <2>1. CASE windows
    <3>1. helper' \in BOOLEAN
      BY <2>1, Zenon
    <3> QED BY <2>1, <3>1
  <2>2. CASE ~windows
    <3>1. helper' \in BOOLEAN
      BY <2>2, Zenon
    <3> QED BY <2>2, <3>1
  <2> QED BY <2>1, <2>2
<1>10. CASE StopResolves
  <2> USE <1>10 DEF StopResolves, platform, readiness
  <2>1. stop' \in [Callers -> {"idle", "pending", "returned"}]
    OBVIOUS
  <2>2. stopStatus' \in [Callers -> StopStatuses \cup {"none"}]
    OBVIOUS
  <2>3. UNCHANGED <<platform, requests, readiness>> /\ exited /\ phase' = "off"
    OBVIOUS
  <2> QED BY <2>1, <2>2, <2>3
<1>11. CASE HelperEnds
  <2> USE <1>11 DEF HelperEnds, stops, readiness
  <2>1. signal' \in [{"child", "kin"} -> {"none", "term", "kill"}]
    OBVIOUS
  <2>2. helper' \in BOOLEAN
    BY Zenon
  <2> QED BY <2>1, <2>2
<1>12. CASE Probing
  <2>1. CASE Begin
    BY <2>1 DEF Begin, platform, stops
  <2>2. CASE TimePasses
    <3> USE <2>2 DEF TimePasses, platform, stops
    <3>1. late' \in BOOLEAN
      BY Zenon
    <3> QED BY <3>1
  <2>3. CASE Check
    BY <2>3 DEF Check, platform, stops
  <2>4. CASE Fetched
    BY <2>4 DEF Fetched, platform, stops
  <2>5. CASE Delayed
    BY <2>5 DEF Delayed, platform, stops
  <2> QED BY <1>12, <2>1, <2>2, <2>3, <2>4, <2>5 DEF Probing
<1>13. CASE UNCHANGED handleVars
  BY <1>13 DEF handleVars, platform, stops, readiness
<1> QED
  BY <1>1, <1>2, <1>3, <1>4, <1>5, <1>6, <1>7, <1>8, <1>9, <1>10, <1>11, <1>12, <1>13
     DEF HandleNext, Stopping

\* The inductive invariant of a managed process holds in every state.
THEOREM ManagedInvariance == HandleSpec => []ManagedInv
<1> QED BY InitManagedInv, NextManagedInv, PTL DEF HandleSpec

\* The state keeps its type, for any set of callers.
THEOREM HandleTypeCorrect == HandleSpec => []HandleTypeOK
<1>1. ManagedInv => HandleTypeOK
  BY DEF ManagedInv
<1> QED BY <1>1, ManagedInvariance, PTL

\* A stop that returned left no process that runs or holds the pipes.
THEOREM StopIsCompleteHolds == HandleSpec => []StopIsComplete
<1>1. ManagedInv => StopIsComplete
  BY DEF ManagedInv, ExitIsLast, StopWaited, StopIsComplete
<1> QED BY <1>1, ManagedInvariance, PTL

\* Termination is requested at most once, however many callers there are.
THEOREM OneRequestHolds == HandleSpec => []OneRequest
<1>1. ManagedInv => OneRequest
  BY DEF ManagedInv, RequestedOnce, OneRequest
<1> QED BY <1>1, ManagedInvariance, PTL

\* What TutorialRun's Exits and StopReturns say of a process: it exits once, and who waits
\* for its stop goes on only after it has.
THEOREM HandleAsUsed ==
  HandleSpec => [][/\ exited => exited'
                     /\ \A c \in Callers : stop[c] # "returned" /\ stop'[c] = "returned" => exited]_handleVars
<1>1. HandleTypeOK /\ [HandleNext]_handleVars =>
        [/\ exited => exited'
         /\ \A c \in Callers : stop[c] # "returned" /\ stop'[c] = "returned" => exited]_handleVars
  <2> SUFFICES ASSUME HandleTypeOK, HandleNext
               PROVE  /\ exited => exited'
                      /\ \A c \in Callers : stop[c] # "returned" /\ stop'[c] = "returned" => exited
    OBVIOUS
  <2> USE DEF HandleTypeOK
  <2>1. CASE Close
    BY <2>1 DEF Close, stops
  <2>2. ASSUME NEW c \in Callers, Stop(c)
        PROVE  UNCHANGED exited /\ \A d \in Callers : stop[d] # "returned" /\ stop'[d] = "returned" => exited
    BY <2>2 DEF Stop
  <2>3. CASE StopResolves
    BY <2>3 DEF StopResolves, platform
  <2>4. CASE UNCHANGED <<exited, stop>>
    BY <2>4
  <2> QED
    BY <2>1, <2>2, <2>3, <2>4
       DEF HandleNext, Stopping, Probing, Fork, ChildEnds, KinEnds,
           Listen, Answer, Exit, GraceExpires, HelperEnds, Begin,
           TimePasses, Check, Fetched, Delayed, platform, stops,
           readiness
<1> QED BY <1>1, HandleTypeCorrect, PTL DEF HandleSpec
=============================================================================
