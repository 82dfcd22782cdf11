--------------------------- MODULE ManagedProcess ---------------------------
(***************************************************************************)
(* A handle that startManagedProcess returned (runtime/managedProcess.ts): *)
(* several callers stop the process while another polls its readiness.     *)
(*                                                                         *)
(* Handlers and continuations of the host are the actions; the process,    *)
(* one descendant that shares its pipes, and a server of somebody else on  *)
(* the probed port run beside them. What the code calls exited is the      *)
(* close event: the process ended and nobody holds its pipes any more.     *)
(***************************************************************************)
EXTENDS Naturals

CONSTANT Callers  \* who may call stop

VARIABLES windows,      \* the platform
          child, kin,   \* the process and its descendant
          signal,       \* the last signal that reached each of them
          exited,       \* the close event was handled
          helper,       \* taskkill is running
          stop, stopStatus,  \* each caller's call of stop, and what it returned
          phase,        \* stopInFlight
          requests,     \* how often termination was requested
          server,       \* who listens on the probed port
          probe, late,  \* waitForReadiness, and its timeout has passed
          reply,        \* the answer to the request in flight
          outcome       \* what waitForReadiness returned

platform == <<windows, child, kin, signal, exited, helper>>
stops     == <<stop, stopStatus, phase, requests>>
readiness == <<server, probe, late, reply, outcome>>
handleVars == <<platform, stops, readiness>>

Replies  == {"none", "accepted", "rejected"}
StopStatuses == {"already-exited", "stopped", "forced"}

HandleTypeOK ==
  /\ windows \in BOOLEAN /\ exited \in BOOLEAN /\ helper \in BOOLEAN
  /\ child \in {"running", "ended", "gone"} /\ kin \in {"none", "running", "ended"}
  /\ signal \in [{"child", "kin"} -> {"none", "term", "kill"}]
  /\ stop \in [Callers -> {"idle", "pending", "returned"}]
  /\ stopStatus \in [Callers -> StopStatuses \cup {"none"}]
  /\ phase \in {"off", "grace", "forced"} /\ requests \in Nat
  /\ server \in {"nobody", "child", "kin", "other"}
  /\ probe \in {"idle", "check", "fetch", "delay", "done"} /\ late \in BOOLEAN
  /\ reply \in Replies
  /\ outcome \in {"none", "ready", "timeout", "process-exited", "probe-failed"}

HandleInit ==
  /\ windows \in BOOLEAN
  /\ child = "running" /\ kin = "none"
  /\ signal = [p \in {"child", "kin"} |-> "none"]
  /\ exited = FALSE /\ helper = FALSE
  /\ stop = [c \in Callers |-> "idle"] /\ stopStatus = [c \in Callers |-> "none"]
  /\ phase = "off" /\ requests = 0
  /\ server \in {"nobody", "other"}
  /\ probe = "idle" /\ late = FALSE /\ reply = "none"
  /\ outcome = "none"

----------------------------------------------------------------------------
\* The processes.

Fork ==
  /\ child = "running" /\ kin = "none"
  /\ kin' = "running"
  /\ UNCHANGED <<windows, child, signal, exited, helper, stops, readiness>>

\* A port has one listener: who ends no longer listens.
Leaves(p) == server' = IF server = p THEN "nobody" ELSE server

ChildEnds ==
  /\ child = "running"
  /\ child' = "ended" /\ Leaves("child")
  /\ UNCHANGED <<windows, kin, signal, exited, helper, stops,
                 probe, late, reply, outcome>>

KinEnds ==
  /\ kin = "running"
  /\ kin' = "ended" /\ Leaves("kin")
  /\ UNCHANGED <<windows, child, signal, exited, helper, stops,
                 probe, late, reply, outcome>>

Listen ==
  /\ server = "nobody"
  /\ \/ child = "running" /\ server' = "child"
     \/ kin = "running" /\ server' = "kin"
  /\ UNCHANGED <<platform, stops, probe, late, reply, outcome>>

\* A server that is asked may answer, in time or not at all.
Answer ==
  /\ probe = "fetch" /\ reply = "none" /\ server # "nobody"
  /\ reply' \in {"accepted", "rejected"}
  /\ UNCHANGED <<platform, stops, server, probe, late, outcome>>

----------------------------------------------------------------------------
\* The host.

\* The host reaps the process; this code has no handler for its exit.
Exit ==
  /\ child = "ended"
  /\ child' = "gone"
  /\ UNCHANGED <<windows, kin, signal, exited, helper, stops, readiness>>

Close ==
  /\ child = "gone" /\ kin # "running" /\ ~exited
  /\ exited' = TRUE
  /\ UNCHANGED <<windows, child, kin, signal, helper, stops, readiness>>

\* SIGTERM: on Windows, TerminateProcess, which cannot be refused.
RequestTermination ==
  signal' = IF child = "running" /\ signal["child"] = "none"
            THEN [signal EXCEPT !["child"] = IF windows THEN "kill" ELSE "term"]
            ELSE signal

\* Mutant: every stop begins a termination of its own.
StopUnshared(c) ==
  /\ stop[c] = "idle"
  /\ \/ /\ exited
        /\ stop' = [stop EXCEPT ![c] = "returned"]
        /\ stopStatus' = [stopStatus EXCEPT ![c] = "already-exited"]
        /\ UNCHANGED <<phase, requests, signal>>
     \/ /\ ~exited
        /\ stop' = [stop EXCEPT ![c] = "pending"]
        /\ phase' = "grace" /\ requests' = requests + 1
        /\ RequestTermination
        /\ UNCHANGED stopStatus
  /\ UNCHANGED <<windows, child, kin, exited, helper, readiness>>

\* stop: returned at once, joined to the stop in flight, or begun.
Stop(c) ==
  /\ stop[c] = "idle"
  /\ \/ /\ exited
        /\ stop' = [stop EXCEPT ![c] = "returned"]
        /\ stopStatus' = [stopStatus EXCEPT ![c] = "already-exited"]
        /\ UNCHANGED <<phase, requests, signal>>
     \/ /\ ~exited /\ phase # "off"
        /\ stop' = [stop EXCEPT ![c] = "pending"]
        /\ UNCHANGED <<stopStatus, phase, requests, signal>>
     \/ /\ ~exited /\ phase = "off"
        /\ stop' = [stop EXCEPT ![c] = "pending"]
        /\ phase' = "grace" /\ requests' = requests + 1
        /\ RequestTermination
        /\ UNCHANGED stopStatus
  /\ UNCHANGED <<windows, child, kin, exited, helper, readiness>>

\* Mutant: the escalation sends SIGTERM again (forceTerminateProcess's default).
ForceAgain == UNCHANGED <<signal, helper>>

\* SIGKILL to the one process on POSIX; taskkill /T /F on Windows.
ForceTermination ==
  IF windows THEN helper' = TRUE /\ UNCHANGED signal
  ELSE /\ signal' = IF child = "running" THEN [signal EXCEPT !["child"] = "kill"] ELSE signal
       /\ UNCHANGED helper

\* The grace period is over before the exit: forced termination.
GraceExpires ==
  /\ phase = "grace" /\ ~exited
  /\ phase' = "forced"
  /\ ForceTermination
  /\ UNCHANGED <<windows, child, kin, exited, stop, stopStatus, requests, readiness>>

\* Mutant: a forced stop does not wait for the exit.
StopResolvesForced ==
  /\ phase = "forced" \/ (phase = "grace" /\ exited)
  /\ stop' = [c \in Callers |-> IF stop[c] = "pending" THEN "returned" ELSE stop[c]]
  /\ stopStatus' = [c \in Callers |->
       IF stop[c] # "pending" THEN stopStatus[c]
       ELSE IF phase = "grace" THEN "stopped" ELSE "forced"]
  /\ phase' = "off"
  /\ UNCHANGED <<platform, requests, readiness>>

\* The exit resolves the stop in flight, for everyone who awaits it.
StopResolves ==
  /\ phase # "off" /\ exited
  /\ stop' = [c \in Callers |-> IF stop[c] = "pending" THEN "returned" ELSE stop[c]]
  /\ stopStatus' = [c \in Callers |->
       IF stop[c] # "pending" THEN stopStatus[c]
       ELSE IF phase = "grace" THEN "stopped" ELSE "forced"]
  /\ phase' = "off"
  /\ UNCHANGED <<platform, requests, readiness>>

\* taskkill /T finds the tree from its root: there is none once the process
\* itself has ended. It is not awaited, and it may fail.
HelperEnds ==
  /\ helper
  /\ helper' = FALSE
  /\ \/ /\ child = "running"
        /\ signal' = [p \in DOMAIN signal |->
             IF p = "child" \/ kin = "running" THEN "kill" ELSE signal[p]]
     \/ UNCHANGED signal
  /\ UNCHANGED <<windows, child, kin, exited, stops, readiness>>

----------------------------------------------------------------------------
\* waitForReadiness.

Begin ==
  /\ probe = "idle"
  /\ \/ probe' = "check" /\ UNCHANGED outcome
     \/ probe' = "done" /\ outcome' = "probe-failed"
  /\ UNCHANGED <<platform, stops, server, late, reply>>

TimePasses ==
  /\ probe \in {"check", "fetch", "delay"} /\ ~late
  /\ late' = TRUE
  /\ UNCHANGED <<platform, stops, server, probe, reply, outcome>>

\* Mutant: only an exit or an answer ends the loop.
CheckExit ==
  /\ probe = "check"
  /\ IF exited
     THEN /\ probe' = "done" /\ outcome' = "process-exited"
     ELSE /\ probe' = "fetch" /\ UNCHANGED outcome
  /\ UNCHANGED <<platform, stops, server, late, reply>>

\* The head of the loop: exit, then timeout, then one more attempt.
Check ==
  /\ probe = "check"
  /\ IF exited \/ late
     THEN /\ probe' = "done" /\ outcome' = (IF exited THEN "process-exited" ELSE "timeout")
     ELSE /\ probe' = "fetch" /\ UNCHANGED outcome
  /\ UNCHANGED <<platform, stops, server, late, reply>>

\* Mutant: the last reply is returned as the outcome.
FetchedStatus ==
  /\ probe = "fetch"
  /\ reply' = "none"
  /\ IF reply # "none" THEN probe' = "done" /\ outcome' = reply
     ELSE probe' = (IF late THEN "check" ELSE "delay") /\ UNCHANGED outcome
  /\ UNCHANGED <<platform, stops, server, late>>

\* The request is answered, refused, or cut off by its own timeout.
Fetched ==
  /\ probe = "fetch"
  /\ reply' = "none"
  /\ IF reply = "accepted" THEN probe' = "done" /\ outcome' = "ready"
     ELSE probe' = (IF late THEN "check" ELSE "delay") /\ UNCHANGED outcome
  /\ UNCHANGED <<platform, stops, server, late>>

Delayed ==
  /\ probe = "delay"
  /\ probe' = "check"
  /\ UNCHANGED <<platform, stops, server, late, reply, outcome>>

Stopping == (\E c \in Callers : Stop(c)) \/ GraceExpires \/ StopResolves \/ HelperEnds
Probing  == Begin \/ TimePasses \/ Check \/ Fetched \/ Delayed
HandleNext ==
  \/ Fork \/ ChildEnds \/ KinEnds \/ Listen \/ Answer
  \/ Exit \/ Close \/ Stopping \/ Probing

HandleSpec == HandleInit /\ [][HandleNext]_handleVars

\* Timers fire, events are delivered, a request ends by its own timeout, and
\* a process that was killed ends. A SIGTERM may be ignored; nobody need call.
HandleFairness ==
  /\ WF_handleVars(Exit) /\ WF_handleVars(Close) /\ WF_handleVars(GraceExpires) /\ WF_handleVars(StopResolves)
  /\ WF_handleVars(HelperEnds) /\ WF_handleVars(TimePasses) /\ WF_handleVars(Check) /\ WF_handleVars(Fetched)
  /\ WF_handleVars(Delayed)
  /\ WF_handleVars(signal["child"] = "kill" /\ ChildEnds)
  /\ WF_handleVars(signal["kin"] = "kill" /\ KinEnds)

----------------------------------------------------------------------------
\* What the callers rely on.

\* A stop that returned, by whichever path, left nothing that runs in the
\* process or holds its pipes: the logs are complete.
StopIsComplete ==
  \A c \in Callers : stop[c] = "returned" => child = "gone" /\ kin # "running"

\* However many callers stop the process, in whatever order, its termination
\* is requested once: stopInFlight is only cleared after the exit.
OneRequest == requests <= 1

\* Nobody waits for ever: a stop returns, unless a descendant goes on holding the
\* pipes, and a readiness wait ends, whatever the server and the process do.
StopEnds == \A c \in Callers : stop[c] = "pending" ~> stop[c] = "returned" \/ kin = "running"
ReadinessEnds == probe = "check" ~> probe = "done"
CallsEnd == StopEnds /\ ReadinessEnds
=============================================================================
