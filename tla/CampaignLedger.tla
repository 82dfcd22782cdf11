---------------------------- MODULE CampaignLedger ----------------------------
(***************************************************************************)
(* What the chain of version 2 checkpoints of one campaign promises: its   *)
(* newest checkpoint changes only by permitted transitions, each made at   *)
(* whatever time the wall clock shows.  This is the abstract specification *)
(* the executor of module ResumableCampaign implements.                    *)
(***************************************************************************)
EXTENDS CampaignRecovery

VARIABLE checkpoint   \* the newest committed checkpoint

\* The chain is empty.
NoCheckpoint == [generation |-> 0, createdAt |-> NoTime, updatedAt |-> NoTime,
                 units |-> [i \in UnitIndex |-> PendingUnit], finalization |-> NoTime]

TypeOK == checkpoint \in Checkpoints

Init == checkpoint = NoCheckpoint

Create ==
  /\ checkpoint = NoCheckpoint
  /\ \E at \in Times : checkpoint' = Created(at)

\* transitionCampaignCheckpointV2 validates what it read and what it made.
Permitted(next) == ValidCheckpoint(checkpoint) /\ ValidCheckpoint(next)
Transition(next) == checkpoint' = next /\ Permitted(next)

\* The authorizations a user may come with: any revision so far, or none.
Requests == {NoAuthorization} \cup [generation : 1..checkpoint.generation, unit : UnitIndex]

Reserve(i, a) ==
  MayReserve(checkpoint, i, a) /\ \E id \in EpochIds, at \in Times : Transition(Reserved(checkpoint, i, id, a, at))
Authorize(i) == MayAuthorize(checkpoint, i) /\ \E at \in Times : Transition(Authorized(checkpoint, i, at))
GiveUp(i) == MaySettle(checkpoint, i) /\ \E at \in Times : Transition(Uncertain(checkpoint, i, at))
Settle(i) ==
  MaySettle(checkpoint, i) /\ \E reason \in Reasons, at \in Times : Transition(Terminal(checkpoint, i, reason, at))
Finalize ==
  MayFinalize(checkpoint) /\ \E completedAt, at \in Times : Transition(Finalized(checkpoint, completedAt, at))

Next ==
  \/ Create
  \/ \E i \in UnitIndex, a \in Requests : Reserve(i, a)
  \/ \E i \in UnitIndex : Authorize(i)
  \/ \E i \in UnitIndex : GiveUp(i)
  \/ \E i \in UnitIndex : Settle(i)
  \/ Finalize

vars == checkpoint

Spec == Init /\ [][Next]_vars

(***************************************************************************)
(* Properties.                                                             *)
(***************************************************************************)
\* Work goes through the queue in order: a unit has an epoch only when every
\* unit before it is completed, so at most one unit is ever unsettled.
InOrder ==
  \A i, j \in UnitIndex :
    i < j /\ checkpoint.units[j].epochs # <<>> => checkpoint.units[i].state = "completed"

\* A second invocation of a unit is bought by one authorization: it names the
\* revision the unit was paused at, which is the parent of the reservation.
ContinuationBought ==
  \A i \in UnitIndex :
    LET u == checkpoint.units[i] IN
    Len(u.epochs) = 2 =>
      /\ u.epochs[1].reason = "provider-limit"
      /\ u.epochs[2].authorization = [generation |-> u.epochs[2].parent, unit |-> i]
      /\ u.epochs[2].parent = u.epochs[1].parent + 3

\* A settled epoch never changes, a completed unit never changes, and nothing
\* changes after the finalization.
SettledKept ==
  [][/\ checkpoint.finalization = NoTime
     /\ \A i \in UnitIndex :
          LET u == checkpoint.units[i] IN
          /\ u.state = "completed" => checkpoint'.units[i] = u
          /\ \A k \in DOMAIN u.epochs :
               u.epochs[k].phase \in {"terminal", "uncertain"} =>
                 k \in DOMAIN checkpoint'.units[i].epochs /\ checkpoint'.units[i].epochs[k] = u.epochs[k]]_vars

\* updatedAt never goes back along a chain, though no transition compares it
\* with its parent's: the times recorded in the epochs stand in the way.
UpdatedAtForward == [][checkpoint.updatedAt <= checkpoint'.updatedAt]_vars

\* What one process commits every other process accepts: the history check
\* infers the very transition that was made.
HistoryAccepted == [][checkpoint # NoCheckpoint => ValidHistory(checkpoint, checkpoint')]_vars
=============================================================================
