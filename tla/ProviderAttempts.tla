---------------------------- MODULE ProviderAttempts ----------------------------
(***************************************************************************)
(* What a treatment of a campaign case promises of its provider: at most   *)
(* one call in an attempt, another attempt only after a call, no more of   *)
(* them than the repairs allowed, and a conclusion that says "evaluated"   *)
(* or "provider-limit" only of an attempt in which the provider was        *)
(* called.  ResumableCampaign!Attempt and Invoke are these steps; the      *)
(* treatment that is executed, TreatmentAttempts, implements them.         *)
(***************************************************************************)
EXTENDS Naturals

VARIABLES scripted,   \* the proposal is the task's fixture, no provider is asked
          allowed,    \* repairs allowed
          stage,      \* where the current attempt is
          attempt,    \* its number
          calls,      \* the attempts in which the provider was called
          conclusion  \* the terminal reason, and whether the evidence says providerInvoked

vars == <<scripted, allowed, stage, attempt, calls, conclusion>>

Reasons == {"evaluated", "provider-limit", "incomplete"}
NoConclusion == [reason |-> "none", invoked |-> FALSE]

Init ==
  /\ scripted \in BOOLEAN /\ allowed \in 0..2
  /\ stage = "attempting" /\ attempt = 1 /\ calls = {}
  /\ conclusion = NoConclusion

Call ==
  /\ ~scripted /\ stage = "attempting"
  /\ stage' = "called" /\ calls' = calls \cup {attempt}
  /\ UNCHANGED <<scripted, allowed, attempt, conclusion>>

Repair ==
  /\ stage = "called" /\ attempt <= allowed
  /\ stage' = "attempting" /\ attempt' = attempt + 1
  /\ UNCHANGED <<scripted, allowed, calls, conclusion>>

\* An attempt that never reached the provider is incomplete, whatever its
\* evidence says of the invocation; a fixture may end in any way but that.
Conclude ==
  /\ stage # "concluded" /\ stage' = "concluded"
  /\ \E reason \in Reasons, invoked \in BOOLEAN :
       /\ conclusion' = [reason |-> reason, invoked |-> invoked]
       /\ stage = "called" => invoked
       /\ stage = "attempting" => reason = "incomplete" \/ scripted
       /\ scripted => ~invoked /\ reason # "provider-limit"
  /\ UNCHANGED <<scripted, allowed, attempt, calls>>

Next == Call \/ Repair \/ Conclude

Spec == Init /\ [][Next]_vars
=============================================================================
