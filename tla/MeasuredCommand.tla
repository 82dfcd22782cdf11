-------------------------- MODULE MeasuredCommand --------------------------
(***************************************************************************)
(* One call of runMeasuredCommand (core/runMeasuredCommand.ts): a command  *)
(* is spawned, its output collected, and a result settled by the first of  *)
(* its close and the kill grace that follows a timeout or an output limit. *)
(*                                                                         *)
(* The host runs one handler at a time, each to its end, and the           *)
(* continuations of a resolved promise before the next handler (Quiet).    *)
(* The processes of the command run beside it: the child, and one          *)
(* descendant (kin) that shares the child's process group and its pipes.   *)
(* Output is counted in chunks, of one stream: both have the same handler. *)
(***************************************************************************)
EXTENDS Naturals, Sequences

CONSTANTS MaxOutput,  \* chunks that the processes write, at most
          Limit       \* chunks that are kept under an output limit

ASSUME BoundsAssumption == MaxOutput \in Nat /\ Limit \in Nat

VARIABLES opts,         \* the caller's options, and the platform
          child, code,  \* the spawned process, and how it ended
          closed,       \* its close event has been handled
          kin,          \* its descendant
          signal,       \* the signal that was sent to each of them
          wrote, pipe,  \* chunks written, and of these not yet received
          kept,         \* chunks in the collector
          timer, grace, \* the timeout and the kill grace, cleared once settled
          timedOut, outputLimit, error,
          termination,  \* terminationPromise
          helper,       \* taskkill, on Windows
          waiting,      \* calls of settle that await terminationPromise
          settled,
          flows,        \* calls of settle that write the artifacts
          telemetry,    \* the telemetry file
          answer        \* what the promise of the call resolved to

processes == <<child, code, kin, closed>>
output    == <<wrote, pipe, kept>>
verdict   == <<timedOut, outputLimit, error>>
timers    == <<timer, grace>>
killing   == <<signal, termination, helper>>
settling  == <<waiting, settled, flows>>
answers   == <<telemetry, answer>>
vars == <<opts, processes, output, verdict, timers, killing, settling, answers>>

None    == [none |-> TRUE]
Failure == [unhandled |-> TRUE]   \* a rejection nobody handles
Codes   == {"ok", "failed", "null"}
Reasons == {"spawn", "timeout", "limit", "cleanup"}
Results == [code : Codes, ok : BOOLEAN, timedOut : BOOLEAN,
            outputLimit : BOOLEAN, error : SUBSET Reasons, kept : Nat]

TypeOK ==
  /\ opts \in [timeout : BOOLEAN, limit : BOOLEAN, tree : BOOLEAN, windows : BOOLEAN]
  /\ child \in {"unspawned", "unborn", "running", "dead", "gone"}
  /\ code \in Codes /\ closed \in BOOLEAN
  /\ kin \in {"none", "running", "gone"}
  /\ signal \in [{"child", "kin"} -> {"none", "term", "kill"}]
  /\ wrote \in 0..MaxOutput /\ pipe \in 0..wrote
  /\ kept \in 0..(IF opts.limit THEN Limit ELSE wrote)
  /\ timer \in {"off", "armed", "fired"} /\ grace \in {"off", "armed", "fired"}
  /\ timedOut \in BOOLEAN /\ outputLimit \in BOOLEAN /\ error \subseteq Reasons
  /\ termination \in {"none", "pending", "confirmed", "unconfirmed"}
  /\ helper \in {"off", "running"}
  /\ waiting \in Seq(Codes) /\ settled \in BOOLEAN
  /\ flows \in Seq([code : Codes, done : 0..3])
  /\ telemetry \in Results \cup {None}
  /\ answer \in Results \cup {None, Failure}

Init ==
  /\ opts \in [timeout : BOOLEAN, limit : BOOLEAN, tree : BOOLEAN, windows : BOOLEAN]
  /\ child = "unspawned" /\ code = "null" /\ kin = "none" /\ closed = FALSE
  /\ signal = [p \in {"child", "kin"} |-> "none"]
  /\ wrote = 0 /\ pipe = 0 /\ kept = 0
  /\ timer = "off" /\ grace = "off"
  /\ timedOut = FALSE /\ outputLimit = FALSE /\ error = {}
  /\ termination = "none" /\ helper = "off"
  /\ waiting = <<>> /\ settled = FALSE /\ flows = <<>>
  /\ telemetry = None /\ answer = None

----------------------------------------------------------------------------
\* The processes of the command.

Running == {p \in {"child", "kin"} : (IF p = "child" THEN child ELSE kin) = "running"}

Fork ==
  /\ child = "running" /\ kin = "none" /\ signal["child"] # "kill"
  /\ kin' = "running"
  /\ UNCHANGED <<opts, child, code, closed, output, verdict, timers, killing, settling, answers>>

\* What is written after the host destroyed its ends of the pipes is lost.
Output ==
  /\ Running # {} /\ wrote < MaxOutput
  /\ wrote' = wrote + 1
  /\ pipe' = IF settled THEN pipe ELSE pipe + 1
  /\ UNCHANGED <<opts, processes, kept, verdict, timers, killing, settling, answers>>

ChildEnds ==
  /\ child = "running"
  /\ child' = "dead"
  /\ code' \in IF signal["child"] = "none" THEN {"ok", "failed"} ELSE Codes
  /\ UNCHANGED <<opts, kin, closed, output, verdict, timers, killing, settling, answers>>

KinEnds ==
  /\ kin = "running"
  /\ kin' = "gone"
  /\ UNCHANGED <<opts, child, code, closed, output, verdict, timers, killing, settling, answers>>

----------------------------------------------------------------------------
\* The host. A handler runs when no continuation is ready.

Quiet == waiting = <<>> \/ termination = "pending"

\* settle past its awaits: it detaches everything, and goes on to write.
Finish(exit) ==
  /\ settled' = TRUE
  /\ flows' = Append(flows, [code |-> exit, done |-> 0])

\* Mutant: settle does not wait for the termination it started.
SettleUnawaited(exit) == Finish(exit) /\ UNCHANGED waiting

\* settle: a termination under way is awaited first.
Settle(exit) ==
  IF termination = "none"
  THEN Finish(exit) /\ UNCHANGED waiting
  ELSE waiting' = Append(waiting, exit) /\ UNCHANGED <<settled, flows>>

\* process.kill(-pid, SIGKILL) on POSIX reaches the group while it has a
\* member, be it one that died and was not yet reaped.
TerminateTree ==
  \/ /\ child = "unborn"
     /\ termination' = "confirmed" /\ UNCHANGED <<signal, helper>>
  \/ /\ child # "unborn" /\ opts.windows
     /\ termination' = "pending" /\ helper' = "running" /\ UNCHANGED signal
  \/ /\ child # "unborn" /\ ~opts.windows
     /\ termination' = IF child = "dead" \/ Running # {} THEN "confirmed" ELSE "unconfirmed"
     /\ signal' = [p \in DOMAIN signal |-> IF p \in Running THEN "kill" ELSE signal[p]]
     /\ UNCHANGED helper

ForceTerminate ==
  /\ helper' = IF opts.windows /\ child # "unborn" THEN "running" ELSE helper
  /\ signal' = IF ~opts.windows /\ child = "running" /\ signal["child"] = "none"
               THEN [signal EXCEPT !["child"] = "term"] ELSE signal
  /\ UNCHANGED termination

\* Mutant: no kill grace: only close settles.
TerminateWithoutGrace ==
  /\ IF ~opts.tree THEN ForceTerminate
     ELSE IF termination = "none" THEN TerminateTree ELSE UNCHANGED killing
  /\ UNCHANGED grace

Terminate ==
  /\ grace' = IF grace = "off" THEN "armed" ELSE grace
  /\ IF ~opts.tree THEN ForceTerminate
     ELSE IF termination = "none" THEN TerminateTree ELSE UNCHANGED killing

\* A spawn that throws, one whose error is an event, and one that starts.
Spawn ==
  /\ child = "unspawned"
  /\ \/ /\ child' = "unborn" /\ error' = {"spawn"}
        /\ settled' = TRUE /\ flows' = <<[code |-> "null", done |-> 0]>>
        /\ UNCHANGED <<code, timer>>
     \/ /\ child' = "unborn" /\ code' = "failed" /\ error' = {"spawn"}
        /\ timer' = (IF opts.timeout THEN "armed" ELSE "off")
        /\ UNCHANGED <<settled, flows>>
     \/ /\ child' = "running"
        /\ timer' = (IF opts.timeout THEN "armed" ELSE "off")
        /\ UNCHANGED <<code, error, settled, flows>>
  /\ UNCHANGED <<opts, kin, closed, output, timedOut, outputLimit, grace, killing, waiting, answers>>

\* The exit of the child reaches the host; this code has no handler for it.
Exit ==
  /\ child = "dead" /\ Quiet
  /\ child' = "gone"
  /\ UNCHANGED <<opts, code, kin, closed, output, verdict, timers, killing, settling, answers>>

\* Mutant: the collector goes on keeping after it said that the limit is exceeded.
CollectBeyond ==
  /\ pipe > 0 /\ ~settled /\ Quiet
  /\ pipe' = pipe - 1 /\ kept' = kept + 1
  /\ IF opts.limit /\ kept = Limit /\ ~outputLimit
     THEN outputLimit' = TRUE /\ error' = {"limit"} /\ Terminate
     ELSE UNCHANGED <<outputLimit, error, grace, killing>>
  /\ UNCHANGED <<opts, processes, wrote, timedOut, timer, settling, answers>>

\* A chunk arrives: the collector keeps it, or says once that the limit is
\* exceeded.
Collect ==
  /\ pipe > 0 /\ ~settled /\ Quiet
  /\ pipe' = pipe - 1
  /\ IF opts.limit /\ kept = Limit
     THEN /\ UNCHANGED kept
          /\ IF outputLimit THEN UNCHANGED <<outputLimit, error, grace, killing>>
             ELSE /\ outputLimit' = TRUE /\ error' = {"limit"}
                  /\ Terminate
     ELSE /\ kept' = kept + 1
          /\ UNCHANGED <<outputLimit, error, grace, killing>>
  /\ UNCHANGED <<opts, processes, wrote, timedOut, timer, settling, answers>>

\* Mutant: the result is settled on exit, when the pipes may not be drained.
CloseOnExit ==
  /\ child \in {"gone", "unborn"} /\ ~closed /\ ~settled /\ Quiet
  /\ closed' = TRUE
  /\ Settle(code)
  /\ UNCHANGED <<opts, child, code, kin, output, verdict, timers, killing, answers>>

\* The close event: the child is gone and everybody has closed the pipes.
Close ==
  /\ child \in {"gone", "unborn"} /\ kin # "running" /\ pipe = 0
  /\ ~closed /\ ~settled /\ Quiet
  /\ closed' = TRUE
  /\ Settle(code)
  /\ UNCHANGED <<opts, child, code, kin, output, verdict, timers, killing, answers>>

TimeoutFires ==
  /\ timer = "armed" /\ ~settled /\ Quiet
  /\ timer' = "fired" /\ timedOut' = TRUE /\ error' = {"timeout"}
  /\ Terminate
  /\ UNCHANGED <<opts, processes, output, outputLimit, settling, answers>>

GraceFires ==
  /\ grace = "armed" /\ ~settled /\ Quiet
  /\ grace' = "fired"
  /\ Settle("null")
  /\ UNCHANGED <<opts, processes, output, verdict, timer, killing, answers>>

\* taskkill ends, or is given up after five seconds: it may have ended some
\* processes although it failed, and it fails when the child is gone.
HelperEnds ==
  /\ helper = "running" /\ Quiet
  /\ helper' = "off"
  /\ \E K \in SUBSET Running : \E succeeds \in BOOLEAN :
       /\ succeeds => child = "running" /\ K = Running
       /\ signal' = [p \in DOMAIN signal |-> IF p \in K THEN "kill" ELSE signal[p]]
       /\ termination' = IF ~opts.tree THEN termination
                         ELSE IF succeeds THEN "confirmed" ELSE "unconfirmed"
  /\ UNCHANGED <<opts, processes, output, verdict, timers, settling, answers>>

\* Mutant: settled is not read again after the await.
ResumeUnchecked ==
  /\ waiting # <<>> /\ termination # "pending"
  /\ waiting' = Tail(waiting)
  /\ error' = IF termination = "unconfirmed" THEN error \cup {"cleanup"} ELSE error
  /\ Finish(Head(waiting))
  /\ UNCHANGED <<opts, processes, output, timedOut, outputLimit, timers, killing, answers>>

\* A call of settle goes on when the termination it awaited is known.
Resume ==
  /\ waiting # <<>> /\ termination # "pending"
  /\ waiting' = Tail(waiting)
  /\ error' = IF termination = "unconfirmed" THEN error \cup {"cleanup"} ELSE error
  /\ IF settled THEN UNCHANGED <<settled, flows>> ELSE Finish(Head(waiting))
  /\ UNCHANGED <<opts, processes, output, timedOut, outputLimit, timers, killing, answers>>

Measured(exit) ==
  [code |-> exit, ok |-> exit = "ok" /\ error = {} /\ ~timedOut,
   timedOut |-> timedOut, outputLimit |-> outputLimit, error |-> error, kept |-> kept]

\* One of the three files is written: stdout, stderr and the telemetry, with
\* which the call resolves. No rejection of these writes is handled.
Write ==
  /\ Quiet /\ answer # Failure
  /\ \E i \in DOMAIN flows :
       /\ flows[i].done < 3
       /\ flows' = [flows EXCEPT ![i].done = @ + 1]
       /\ IF flows[i].done < 2 THEN UNCHANGED answers
          ELSE LET measured == Measured(flows[i].code) IN
               /\ telemetry' = measured
               /\ answer' = IF answer = None THEN measured ELSE answer
  /\ UNCHANGED <<opts, processes, output, verdict, timers, killing, waiting, settled>>

WriteFails ==
  /\ Quiet /\ answer = None
  /\ \E i \in DOMAIN flows : flows[i].done < 3
  /\ answer' = Failure
  /\ UNCHANGED <<opts, processes, output, verdict, timers, killing, settling, telemetry>>

HostStep == \/ Exit \/ Collect \/ Close \/ TimeoutFires \/ GraceFires
            \/ HelperEnds \/ Resume \/ Write
Next == Spawn \/ Fork \/ Output \/ ChildEnds \/ KinEnds \/ HostStep \/ WriteFails

Spec == Init /\ [][Next]_vars

\* Events are delivered, timers fire, taskkill is waited for five seconds at
\* most. Nothing is assumed of the processes: they may ignore SIGTERM.
FairSpec ==
  /\ Spec
  /\ WF_vars(Exit) /\ WF_vars(Collect) /\ WF_vars(Close) /\ WF_vars(TimeoutFires)
  /\ WF_vars(GraceFires) /\ WF_vars(HelperEnds) /\ WF_vars(Resume) /\ WF_vars(Write)

----------------------------------------------------------------------------
\* What the callers rely on.

\* A result that is ok is that of the whole command: its child exited with 0,
\* no process that could still write is left, and all that was written was
\* collected (settle waits for close, not for exit).
OkIsComplete ==
  answer \in Results /\ answer.ok =>
    child = "gone" /\ code = "ok" /\ kin # "running" /\ answer.kept = wrote

\* Tree termination is awaited: when the result of a terminated tree says
\* nothing of its cleanup, no process of the tree was left without a kill.
CleanupIsVisible ==
  answer \in Results /\ opts.tree /\ termination # "none" /\ "cleanup" \notin answer.error
    => \A p \in Running : signal[p] = "kill"

\* The telemetry file stays what the caller was told, although the grace and
\* the close may both be waiting for the same termination.
TelemetryAgrees == answer \in Results => telemetry = answer

\* What the caller is told is so, and is what stays on disk.
ResultTruthful == OkIsComplete /\ CleanupIsVisible /\ TelemetryAgrees

\* A command with a timeout is answered, whatever its processes do.
BoundedCommandEnds == opts.timeout /\ child # "unspawned" ~> answer # None
============================================================================
