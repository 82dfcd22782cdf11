--------------------------- MODULE CampaignRecovery ---------------------------
(***************************************************************************)
(* Version 2 campaign checkpoints and their permitted transitions:         *)
(* src/src/experiments/plugins/agentSuccessRate/campaignRecovery.ts.       *)
(*                                                                         *)
(* A checkpoint lists the campaign's units in queue order.  A unit is one  *)
(* treatment of one case; each time it is worked on, an invocation epoch   *)
(* is appended to it.  The integrity digest of a committed checkpoint is   *)
(* represented by its generation (module CheckpointStore shows that a      *)
(* store commits one checkpoint per generation), and the evidence of a     *)
(* terminal epoch by its reason.                                           *)
(***************************************************************************)
EXTENDS Integers, Sequences

CONSTANTS N,         \* number of units: two treatments of each case
          EpochIds,  \* epoch identifiers; an epoch is known by its place and its id
          Times      \* what the wall clock may show: it may be set back

ASSUME NAssumption == N \in Nat
ASSUME TimesAssumption == Times \subseteq Nat

UnitIndex == 1..N
NoTime == -1
\* A limit authorization names the exact revision and the exact unit.
Authorizations == [generation : Nat, unit : Nat]
NoAuthorization == [generation |-> 0, unit |-> 0]

Phases == {"reserved", "invocation-authorized", "terminal", "uncertain"}
Reasons == {"evaluated", "provider-limit", "incomplete"}
States == {"pending", "in-progress", "completed", "paused-limit", "incomplete", "uncertain"}

Epochs == [id : EpochIds, phase : Phases, parent : Nat, authorization : Authorizations,
           reservedAt : Times, authorizedAt : Times \cup {NoTime}, terminalAt : Times \cup {NoTime},
           reason : Reasons \cup {"none"}]
Units == [state : States, epochs : Seq(Epochs)]
PendingUnit == [state |-> "pending", epochs |-> <<>>]
Checkpoints == [generation : Nat, createdAt : Times \cup {NoTime}, updatedAt : Times \cup {NoTime},
                units : [UnitIndex -> Units], finalization : Times \cup {NoTime}]

LastEpoch(u) == u.epochs[Len(u.epochs)]
WithLast(u, state, e) == [state |-> state, epochs |-> [u.epochs EXCEPT ![Len(u.epochs)] = e]]
AllCompleted(cp) == \A i \in UnitIndex : cp.units[i].state = "completed"

(***************************************************************************)
(* validateCampaignCheckpointV2                                            *)
(***************************************************************************)
\* Mutant: a terminal time is not compared with the checkpoint's.
TimesOrderedButTerminal(e, cp) ==
  /\ cp.createdAt <= e.reservedAt /\ e.reservedAt <= cp.updatedAt
  /\ e.phase # "reserved" => e.reservedAt <= e.authorizedAt /\ e.authorizedAt <= cp.updatedAt
  /\ e.phase = "terminal" => e.authorizedAt <= e.terminalAt

TimesOrdered(e, cp) ==
  /\ cp.createdAt <= e.reservedAt /\ e.reservedAt <= cp.updatedAt
  /\ e.phase # "reserved" => e.reservedAt <= e.authorizedAt /\ e.authorizedAt <= cp.updatedAt
  /\ e.phase = "terminal" => e.authorizedAt <= e.terminalAt /\ e.terminalAt <= cp.updatedAt

ValidPhase(e) ==
  /\ (e.phase = "reserved") = (e.authorizedAt = NoTime)
  /\ (e.phase # "terminal") = (e.terminalAt = NoTime)
  /\ (e.phase # "terminal") = (e.reason = "none")

\* The second epoch continues the first after a provider limit, under the
\* authorization it records.
ValidContinuation(cp, i, prior, e) ==
  /\ prior.phase = "terminal" /\ prior.reason = "provider-limit"
  /\ e.authorization.unit = i
  /\ e.authorization.generation >= 1 /\ e.authorization.generation = e.parent
  /\ e.authorization.generation < cp.generation

ValidUnit(cp, i) ==
  LET u == cp.units[i] IN
  /\ Len(u.epochs) <= 2
  /\ \A k \in 1..Len(u.epochs) : TimesOrdered(u.epochs[k], cp) /\ ValidPhase(u.epochs[k])
  /\ Len(u.epochs) >= 1 => u.epochs[1].authorization = NoAuthorization
  /\ Len(u.epochs) = 2 => ValidContinuation(cp, i, u.epochs[1], u.epochs[2])
  /\ (u.state = "pending") = (u.epochs = <<>>)
  /\ u.epochs # <<>> =>
       LET e == LastEpoch(u) IN
       \/ u.state = "in-progress" /\ e.phase \in {"reserved", "invocation-authorized"}
       \/ u.state = "uncertain" /\ e.phase = "uncertain"
       \/ u.state = "completed" /\ e.phase = "terminal" /\ e.reason = "evaluated"
       \/ u.state = "paused-limit" /\ e.phase = "terminal" /\ e.reason = "provider-limit"
       \/ u.state = "incomplete" /\ e.phase = "terminal" /\ e.reason = "incomplete"

ValidCheckpoint(cp) ==
  /\ cp.generation >= 1
  /\ cp.createdAt # NoTime /\ cp.createdAt <= cp.updatedAt
  /\ \A i \in UnitIndex : ValidUnit(cp, i)
  /\ cp.finalization # NoTime => AllCompleted(cp) /\ cp.finalization <= cp.updatedAt

\* validateCampaignLimitAuthorization; that the unit's last epoch is terminal
\* for the limit is the valid checkpoint's doing.
ValidLimitAuthorization(a, cp, i) ==
  /\ a.generation = cp.generation /\ a.unit = i
  /\ cp.units[i].state = "paused-limit" /\ Len(cp.units[i].epochs) = 1

(***************************************************************************)
(* createCampaignCheckpointV2, transitionCampaignCheckpointV2: for each    *)
(* kind of action, when it is permitted and the checkpoint it makes.       *)
(***************************************************************************)
Created(at) == [generation |-> 1, createdAt |-> at, updatedAt |-> at,
                units |-> [i \in UnitIndex |-> PendingUnit], finalization |-> NoTime]

\* Mutant: only the unit just before must be settled.
InQueueOrderOfNeighbour(cp, i) == i > 1 => cp.units[i - 1].state \in {"completed", "incomplete"}

InQueueOrder(cp, i) == \A j \in 1..(i - 1) : cp.units[j].state = "completed"

Open(cp, i) == cp.finalization = NoTime /\ InQueueOrder(cp, i) /\ cp.units[i].state # "completed"

\* Mutant: a time that is not later is pushed past the parent's.
AdvancedPastParent(cp, i, unit, at) ==
  [cp EXCEPT !.generation = @ + 1, !.updatedAt = IF at > @ THEN at ELSE @ + 1, !.units = [@ EXCEPT ![i] = unit]]

Advanced(cp, i, unit, at) ==
  [cp EXCEPT !.generation = @ + 1, !.updatedAt = at, !.units = [@ EXCEPT ![i] = unit]]

MayReserve(cp, i, a) ==
  /\ Open(cp, i)
  /\ IF a = NoAuthorization THEN cp.units[i] = PendingUnit ELSE ValidLimitAuthorization(a, cp, i)
Reserved(cp, i, id, a, at) ==
  Advanced(cp, i,
           [state |-> "in-progress",
            epochs |-> Append(cp.units[i].epochs,
                              [id |-> id, phase |-> "reserved", parent |-> cp.generation, authorization |-> a,
                               reservedAt |-> at, authorizedAt |-> NoTime, terminalAt |-> NoTime,
                               reason |-> "none"])],
           at)

InProgress(cp, i, phase) ==
  Open(cp, i) /\ cp.units[i].state = "in-progress" /\ LastEpoch(cp.units[i]).phase = phase

\* Mutant: an authorization may be repeated.
MayAuthorizeAgain(cp, i) == InProgress(cp, i, "reserved") \/ InProgress(cp, i, "invocation-authorized")

MayAuthorize(cp, i) == InProgress(cp, i, "reserved")
Authorized(cp, i, at) ==
  LET u == cp.units[i] IN
  Advanced(cp, i, WithLast(u, "in-progress", [LastEpoch(u) EXCEPT !.phase = "invocation-authorized", !.authorizedAt = at]), at)

MaySettle(cp, i) == InProgress(cp, i, "invocation-authorized")
Uncertain(cp, i, at) ==
  LET u == cp.units[i] IN Advanced(cp, i, WithLast(u, "uncertain", [LastEpoch(u) EXCEPT !.phase = "uncertain"]), at)

StateAfter(reason) ==
  CASE reason = "evaluated" -> "completed" [] reason = "provider-limit" -> "paused-limit" [] OTHER -> "incomplete"
Terminal(cp, i, reason, at) ==
  LET u == cp.units[i] IN
  Advanced(cp, i,
           WithLast(u, StateAfter(reason), [LastEpoch(u) EXCEPT !.phase = "terminal", !.terminalAt = at, !.reason = reason]),
           at)

\* Mutant: a finalized campaign may be finalized again.
MayFinalizeAgain(cp) == AllCompleted(cp)

MayFinalize(cp) == cp.finalization = NoTime /\ AllCompleted(cp)
Finalized(cp, completedAt, at) ==
  [cp EXCEPT !.generation = @ + 1, !.updatedAt = at, !.finalization = completedAt]

(***************************************************************************)
(* validateCampaignHistoryV2 infers the action from what changed and makes *)
(* the transition again.                                                   *)
(***************************************************************************)
\* Mutant: a continuation is inferred as an initial reservation.
ChangeAcceptedUnscoped(previous, next, i) ==
  LET a == previous.units[i]
      b == next.units[i]
      e == LastEpoch(b)
      at == next.updatedAt
  IN /\ b.epochs # <<>>
     /\ IF Len(b.epochs) = Len(a.epochs) + 1
        THEN MayReserve(previous, i, NoAuthorization) /\ next = Reserved(previous, i, e.id, NoAuthorization, at)
        ELSE CASE e.phase = "invocation-authorized" -> MayAuthorize(previous, i) /\ next = Authorized(previous, i, at)
               [] e.phase = "uncertain" -> MaySettle(previous, i) /\ next = Uncertain(previous, i, at)
               [] OTHER -> e.phase = "terminal" /\ MaySettle(previous, i) /\ next = Terminal(previous, i, e.reason, at)

ChangeAccepted(previous, next, i) ==
  LET a == previous.units[i]
      b == next.units[i]
      e == LastEpoch(b)
      at == next.updatedAt
  IN /\ b.epochs # <<>>
     /\ IF Len(b.epochs) = Len(a.epochs) + 1
        THEN MayReserve(previous, i, e.authorization) /\ next = Reserved(previous, i, e.id, e.authorization, at)
        ELSE CASE e.phase = "invocation-authorized" -> MayAuthorize(previous, i) /\ next = Authorized(previous, i, at)
               [] e.phase = "uncertain" -> MaySettle(previous, i) /\ next = Uncertain(previous, i, at)
               [] OTHER -> e.phase = "terminal" /\ MaySettle(previous, i) /\ next = Terminal(previous, i, e.reason, at)

ValidHistory(previous, next) ==
  IF previous.finalization = NoTime /\ next.finalization # NoTime
  THEN MayFinalize(previous) /\ next = Finalized(previous, next.finalization, next.updatedAt)
  ELSE \E i \in UnitIndex :
         /\ {j \in UnitIndex : next.units[j] # previous.units[j]} = {i}
         /\ ChangeAccepted(previous, next, i)
=============================================================================
