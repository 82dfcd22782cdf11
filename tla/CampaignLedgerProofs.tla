------------------------- MODULE CampaignLedgerProofs -------------------------
(***************************************************************************)
(* Proofs about CampaignLedger for every queue length, every set of epoch  *)
(* ids and every clock: type correctness, the order of the queue, that     *)
(* settled work is kept, that updatedAt never goes back, that a second     *)
(* invocation is bought at the revision it names, and that the history     *)
(* check accepts every transition.                                         *)
(*                                                                         *)
(* All transitions of a unit have one shape (lemma Shape): an open unit is *)
(* replaced by one that keeps its settled epochs and its recorded times,   *)
(* and records the time of the transition unless it gives up.  What        *)
(* updatedAt is compared with, though no transition compares it with its   *)
(* parent, is stated by Witnessed: some epoch records it.                  *)
(***************************************************************************)
EXTENDS CampaignLedger, TLAPS

\* The times an epoch records.
Recorded(e) ==
  {e.reservedAt} \cup (IF e.phase = "reserved" THEN {} ELSE {e.authorizedAt})
                 \cup (IF e.phase = "terminal" THEN {e.terminalAt} ELSE {})

\* What a transition does to the unit it replaces.
UnitStep(a, b, at) ==
  /\ a.state # "uncertain"
  /\ \A k \in DOMAIN a.epochs :
       /\ k \in DOMAIN b.epochs
       /\ a.epochs[k].phase \in {"terminal", "uncertain"} => b.epochs[k] = a.epochs[k]
       /\ Recorded(a.epochs[k]) \subseteq Recorded(b.epochs[k])
  /\ b.state = "uncertain" \/ \E k \in DOMAIN b.epochs : at \in Recorded(b.epochs[k])

\* Some transition of unit i.
UnitTransition(i) ==
  \E unit \in Units, at \in Times :
    /\ Open(checkpoint, i)
    /\ ValidCheckpoint(checkpoint) /\ ValidCheckpoint(checkpoint')
    /\ checkpoint' = Advanced(checkpoint, i, unit, at)
    /\ UnitStep(checkpoint.units[i], unit, at)

\* updatedAt is recorded where the next transition has to respect it.
Witnessed ==
  \/ checkpoint = NoCheckpoint
  \/ checkpoint.finalization # NoTime
  \/ checkpoint.updatedAt = checkpoint.createdAt
  \/ \E i \in UnitIndex : checkpoint.units[i].state = "uncertain"
  \/ \E i \in UnitIndex : \E k \in DOMAIN checkpoint.units[i].epochs :
       checkpoint.updatedAt \in Recorded(checkpoint.units[i].epochs[k])

\* The inductive invariant.
IInv == TypeOK /\ InOrder /\ Witnessed

\* What Advanced changes and what it keeps.
LEMMA AdvancedFields ==
  ASSUME NEW cp \in Checkpoints, NEW i \in UnitIndex, NEW unit \in Units, NEW at \in Times
  PROVE  /\ Advanced(cp, i, unit, at) \in Checkpoints
         /\ Advanced(cp, i, unit, at).updatedAt = at
         /\ Advanced(cp, i, unit, at).createdAt = cp.createdAt
         /\ Advanced(cp, i, unit, at).finalization = cp.finalization
         /\ Advanced(cp, i, unit, at).units[i] = unit
         /\ \A j \in UnitIndex \ {i} : Advanced(cp, i, unit, at).units[j] = cp.units[j]
<1> DEFINE units == [cp.units EXCEPT ![i] = unit]
<1>1. cp.generation + 1 \in Nat /\ cp.units \in [UnitIndex -> Units]
  BY DEF Checkpoints
<1>2. units \in [UnitIndex -> Units] /\ units[i] = unit /\ \A j \in UnitIndex \ {i} : units[j] = cp.units[j]
  BY <1>1
<1>3. Advanced(cp, i, unit, at) = [cp EXCEPT !.generation = cp.generation + 1, !.updatedAt = at, !.units = units]
  BY DEF Advanced
<1> HIDE DEF units
<1> QED
  BY <1>1, <1>2, <1>3 DEF Checkpoints

\* Replacing the last epoch of a unit.
LEMMA WithLastFields ==
  ASSUME NEW u \in Units, u.epochs # <<>>, NEW state \in States, NEW e \in Epochs
  PROVE  /\ WithLast(u, state, e) \in Units
         /\ WithLast(u, state, e).state = state
         /\ DOMAIN WithLast(u, state, e).epochs = DOMAIN u.epochs
         /\ Len(u.epochs) \in DOMAIN u.epochs
         /\ WithLast(u, state, e).epochs[Len(u.epochs)] = e
         /\ \A k \in DOMAIN u.epochs \ {Len(u.epochs)} : WithLast(u, state, e).epochs[k] = u.epochs[k]
         /\ LastEpoch(u) \in Epochs
BY DEF WithLast, Units, LastEpoch

\* A unit in progress has an epoch, which is not settled.
LEMMA InProgressUnit ==
  ASSUME TypeOK, NEW i \in UnitIndex, NEW phase \in {"reserved", "invocation-authorized"},
         InProgress(checkpoint, i, phase), ValidCheckpoint(checkpoint)
  PROVE  /\ checkpoint.units[i] \in Units
         /\ checkpoint.units[i].epochs # <<>>
         /\ checkpoint.units[i].state = "in-progress"
         /\ LastEpoch(checkpoint.units[i]).phase = phase
         /\ Open(checkpoint, i)
BY DEF TypeOK, Checkpoints, InProgress, ValidCheckpoint, ValidUnit

\* Reserving a unit appends an epoch to it.
LEMMA ReserveShape ==
  ASSUME TypeOK, NEW i \in UnitIndex, NEW a \in Requests, Reserve(i, a)
  PROVE  UnitTransition(i)
<1> DEFINE u == checkpoint.units[i]
<1>1. PICK id \in EpochIds, at \in Times : Transition(Reserved(checkpoint, i, id, a, at))
  BY DEF Reserve
<1> DEFINE e == [id |-> id, phase |-> "reserved", parent |-> checkpoint.generation, authorization |-> a,
                 reservedAt |-> at, authorizedAt |-> NoTime, terminalAt |-> NoTime, reason |-> "none"]
           unit == [state |-> "in-progress", epochs |-> Append(u.epochs, e)]
<1>2. u \in Units
  BY DEF TypeOK, Checkpoints
<1>3. a \in Authorizations
  BY DEF Requests, NoAuthorization, Authorizations, TypeOK, Checkpoints, UnitIndex
<1>4. e \in Epochs
  BY <1>3 DEF Epochs, Phases, Reasons, TypeOK, Checkpoints
<1>5. unit \in Units
  BY <1>2, <1>4 DEF Units, States
<1>6. /\ DOMAIN u.epochs = 1..Len(u.epochs)
      /\ DOMAIN unit.epochs = 1..(Len(u.epochs) + 1)
      /\ Len(u.epochs) \in Nat
      /\ \A k \in DOMAIN u.epochs : unit.epochs[k] = u.epochs[k]
      /\ unit.epochs[Len(u.epochs) + 1] = e
  BY <1>2, <1>4 DEF Units
<1>7. at \in Recorded(e)
  BY DEF Recorded
<1>8. u.state # "uncertain"
  BY DEF Reserve, MayReserve, ValidLimitAuthorization, PendingUnit
<1> HIDE DEF unit, e
<1>9. UnitStep(u, unit, at)
  BY <1>6, <1>7, <1>8 DEF UnitStep
<1>10. checkpoint' = Advanced(checkpoint, i, unit, at) /\ ValidCheckpoint(checkpoint) /\ ValidCheckpoint(checkpoint')
  BY <1>1 DEF Transition, Permitted, Reserved, unit, e
<1>11. Open(checkpoint, i)
  BY DEF Reserve, MayReserve
<1> QED
  BY <1>5, <1>9, <1>10, <1>11 DEF UnitTransition

\* The other transitions replace the last epoch of a unit in progress by one
\* that records what it recorded.
LEMMA LastShape ==
  ASSUME TypeOK, NEW i \in UnitIndex, NEW phase \in {"reserved", "invocation-authorized"},
         InProgress(checkpoint, i, phase), NEW state \in States, NEW e \in Epochs, NEW at \in Times,
         Recorded(LastEpoch(checkpoint.units[i])) \subseteq Recorded(e),
         state = "uncertain" \/ at \in Recorded(e),
         Transition(Advanced(checkpoint, i, WithLast(checkpoint.units[i], state, e), at))
  PROVE  UnitTransition(i)
<1> DEFINE u == checkpoint.units[i]
           unit == WithLast(u, state, e)
<1>1. ValidCheckpoint(checkpoint) /\ ValidCheckpoint(checkpoint') /\ checkpoint' = Advanced(checkpoint, i, unit, at)
  BY DEF Transition, Permitted
<1>2. u \in Units /\ u.epochs # <<>> /\ u.state = "in-progress" /\ LastEpoch(u).phase = phase /\ Open(checkpoint, i)
  BY <1>1, InProgressUnit
<1>3. /\ unit \in Units /\ unit.state = state
      /\ DOMAIN unit.epochs = DOMAIN u.epochs
      /\ Len(u.epochs) \in DOMAIN u.epochs
      /\ unit.epochs[Len(u.epochs)] = e
      /\ \A k \in DOMAIN u.epochs \ {Len(u.epochs)} : unit.epochs[k] = u.epochs[k]
  BY <1>2, WithLastFields
<1> HIDE DEF unit
<1>4. UnitStep(u, unit, at)
  BY <1>2, <1>3 DEF UnitStep, LastEpoch
<1> QED
  BY <1>1, <1>2, <1>3, <1>4 DEF UnitTransition

\* Authorizing records a time the epoch did not have.
LEMMA AuthorizeShape ==
  ASSUME TypeOK, NEW i \in UnitIndex, Authorize(i)
  PROVE  UnitTransition(i)
<1> DEFINE u == checkpoint.units[i]
<1>1. PICK at \in Times : Transition(Authorized(checkpoint, i, at))
  BY DEF Authorize
<1> DEFINE e == [LastEpoch(u) EXCEPT !.phase = "invocation-authorized", !.authorizedAt = at]
<1>2. InProgress(checkpoint, i, "reserved") /\ ValidCheckpoint(checkpoint)
  BY <1>1 DEF Authorize, MayAuthorize, Transition, Permitted
<1>3. u \in Units /\ u.epochs # <<>> /\ LastEpoch(u).phase = "reserved"
  BY <1>2, InProgressUnit
<1>4. LastEpoch(u) \in Epochs
  BY <1>3, WithLastFields DEF Units, States
<1>5. e \in Epochs /\ Recorded(LastEpoch(u)) \subseteq Recorded(e) /\ at \in Recorded(e)
  BY <1>3, <1>4 DEF Epochs, Phases, Recorded
<1>6. Transition(Advanced(checkpoint, i, WithLast(u, "in-progress", e), at))
  BY <1>1 DEF Authorized
<1> HIDE DEF e
<1> QED
  BY <1>2, <1>5, <1>6, LastShape DEF States

\* Giving up records no time, and leaves the unit uncertain.
LEMMA GiveUpShape ==
  ASSUME TypeOK, NEW i \in UnitIndex, GiveUp(i)
  PROVE  UnitTransition(i)
<1> DEFINE u == checkpoint.units[i]
           e == [LastEpoch(u) EXCEPT !.phase = "uncertain"]
<1>1. PICK at \in Times : Transition(Uncertain(checkpoint, i, at))
  BY DEF GiveUp
<1>2. InProgress(checkpoint, i, "invocation-authorized") /\ ValidCheckpoint(checkpoint)
  BY <1>1 DEF GiveUp, MaySettle, Transition, Permitted
<1>3. u \in Units /\ u.epochs # <<>> /\ LastEpoch(u).phase = "invocation-authorized"
  BY <1>2, InProgressUnit
<1>4. LastEpoch(u) \in Epochs
  BY <1>3, WithLastFields DEF Units, States
<1>5. e \in Epochs /\ Recorded(LastEpoch(u)) \subseteq Recorded(e)
  BY <1>3, <1>4 DEF Epochs, Phases, Recorded
<1>6. Transition(Advanced(checkpoint, i, WithLast(u, "uncertain", e), at))
  BY <1>1 DEF Uncertain
<1> HIDE DEF e
<1> QED
  BY <1>2, <1>5, <1>6, LastShape DEF States

\* Settling records the time of the terminal evidence.
LEMMA SettleShape ==
  ASSUME TypeOK, NEW i \in UnitIndex, Settle(i)
  PROVE  UnitTransition(i)
<1> DEFINE u == checkpoint.units[i]
<1>1. PICK reason \in Reasons, at \in Times : Transition(Terminal(checkpoint, i, reason, at))
  BY DEF Settle
<1> DEFINE e == [LastEpoch(u) EXCEPT !.phase = "terminal", !.terminalAt = at, !.reason = reason]
<1>2. InProgress(checkpoint, i, "invocation-authorized") /\ ValidCheckpoint(checkpoint)
  BY <1>1 DEF Settle, MaySettle, Transition, Permitted
<1>3. u \in Units /\ u.epochs # <<>> /\ LastEpoch(u).phase = "invocation-authorized"
  BY <1>2, InProgressUnit
<1>4. LastEpoch(u) \in Epochs
  BY <1>3, WithLastFields DEF Units, States
<1>5. e \in Epochs /\ Recorded(LastEpoch(u)) \subseteq Recorded(e) /\ at \in Recorded(e)
  BY <1>3, <1>4 DEF Epochs, Phases, Recorded
<1>6. Transition(Advanced(checkpoint, i, WithLast(u, StateAfter(reason), e), at))
  BY <1>1 DEF Terminal
<1>7. StateAfter(reason) \in States
  BY DEF StateAfter, States
<1> HIDE DEF e
<1> QED
  BY <1>2, <1>5, <1>6, <1>7, LastShape

\* Every step creates the campaign, is a transition of one unit, or finalizes.
LEMMA Shape ==
  ASSUME TypeOK, Next
  PROVE  Create \/ Finalize \/ \E i \in UnitIndex : UnitTransition(i)
BY ReserveShape, AuthorizeShape, GiveUpShape, SettleShape DEF Next

\* The fields of what a transition of a unit makes.
LEMMA TransitionFields ==
  ASSUME TypeOK, NEW i \in UnitIndex, NEW unit \in Units, NEW at \in Times,
         checkpoint' = Advanced(checkpoint, i, unit, at)
  PROVE  /\ TypeOK'
         /\ checkpoint'.updatedAt = at
         /\ checkpoint'.createdAt = checkpoint.createdAt
         /\ checkpoint'.finalization = checkpoint.finalization
         /\ checkpoint'.units[i] = unit
         /\ \A j \in UnitIndex \ {i} : checkpoint'.units[j] = checkpoint.units[j]
BY AdvancedFields DEF TypeOK

\* Finalizing changes no unit.
LEMMA FinalizeFields ==
  ASSUME TypeOK, Finalize
  PROVE  /\ TypeOK'
         /\ checkpoint'.units = checkpoint.units
         /\ checkpoint'.createdAt = checkpoint.createdAt
         /\ checkpoint.finalization = NoTime /\ AllCompleted(checkpoint)
         /\ checkpoint'.finalization # NoTime
         /\ ValidCheckpoint(checkpoint) /\ ValidCheckpoint(checkpoint')
<1>1. PICK completedAt \in Times, at \in Times : Transition(Finalized(checkpoint, completedAt, at))
  BY DEF Finalize
<1>2. /\ checkpoint' = Finalized(checkpoint, completedAt, at)
      /\ ValidCheckpoint(checkpoint) /\ ValidCheckpoint(checkpoint')
      /\ checkpoint.finalization = NoTime /\ AllCompleted(checkpoint)
  BY <1>1 DEF Transition, Permitted, Finalize, MayFinalize
<1>3. checkpoint \in Checkpoints /\ checkpoint.generation + 1 \in Nat
  BY DEF TypeOK, Checkpoints
<1>4. completedAt # NoTime
  BY TimesAssumption DEF NoTime
<1>5. /\ checkpoint' \in Checkpoints
      /\ checkpoint'.units = checkpoint.units
      /\ checkpoint'.createdAt = checkpoint.createdAt
      /\ checkpoint'.finalization = completedAt
  BY <1>2, <1>3 DEF Finalized, Checkpoints
<1> QED
  BY <1>2, <1>4, <1>5 DEF TypeOK

\* Creating makes a queue of pending units.
LEMMA CreateFields ==
  ASSUME Create
  PROVE  /\ TypeOK' /\ checkpoint = NoCheckpoint
         /\ checkpoint'.units = checkpoint.units
         /\ checkpoint'.updatedAt = checkpoint'.createdAt /\ checkpoint'.createdAt \in Times
<1>1. PICK at \in Times : checkpoint' = Created(at)
  BY DEF Create
<1>2. PendingUnit \in Units
  BY DEF PendingUnit, Units, States
<1> QED
  BY <1>1, <1>2 DEF Create, Created, NoCheckpoint, TypeOK, Checkpoints

\* The initial state.
LEMMA InitInv == Init => IInv
<1> SUFFICES ASSUME Init PROVE IInv
  OBVIOUS
<1>1. PendingUnit \in Units /\ PendingUnit.epochs = <<>>
  BY DEF PendingUnit, Units, States
<1> QED
  BY <1>1 DEF Init, IInv, TypeOK, InOrder, Witnessed, NoCheckpoint, Checkpoints

\* The order of the queue is kept: the units behind an open one have no epoch.
LEMMA InOrderStep ==
  ASSUME TypeOK, InOrder, NEW i \in UnitIndex, UnitTransition(i)
  PROVE  TypeOK' /\ InOrder'
<1>1. PICK unit \in Units, at \in Times : Open(checkpoint, i) /\ checkpoint' = Advanced(checkpoint, i, unit, at)
  BY DEF UnitTransition
<1>2. /\ TypeOK'
      /\ checkpoint'.units[i] = unit
      /\ \A j \in UnitIndex \ {i} : checkpoint'.units[j] = checkpoint.units[j]
  BY <1>1, TransitionFields
<1>3. /\ \A j \in UnitIndex : j < i => checkpoint.units[j].state = "completed"
      /\ checkpoint.units[i].state # "completed"
  BY <1>1 DEF Open, InQueueOrder, UnitIndex
<1>4. SUFFICES ASSUME NEW j \in UnitIndex, NEW k \in UnitIndex, j < k, checkpoint'.units[k].epochs # <<>>
               PROVE  checkpoint'.units[j].state = "completed"
  BY <1>2 DEF InOrder
<1>5. CASE k = i
  BY <1>2, <1>3, <1>4, <1>5 DEF UnitIndex
<1>6. CASE k # i
  <2>1. checkpoint.units[k].epochs # <<>>
    BY <1>2, <1>4, <1>6
  <2>2. checkpoint.units[j].state = "completed"
    BY <1>4, <2>1 DEF InOrder
  <2>3. j # i
    BY <1>3, <2>2
  <2> QED
    BY <1>2, <2>2, <2>3
<1> QED
  BY <1>5, <1>6

\* What updatedAt is recorded by is still there, or replaced.
LEMMA WitnessedStep ==
  ASSUME TypeOK, NEW i \in UnitIndex, UnitTransition(i)
  PROVE  Witnessed'
<1>1. PICK unit \in Units, at \in Times :
        checkpoint' = Advanced(checkpoint, i, unit, at) /\ UnitStep(checkpoint.units[i], unit, at)
  BY DEF UnitTransition
<1>2. checkpoint'.updatedAt = at /\ checkpoint'.units[i] = unit
  BY <1>1, TransitionFields
<1> QED
  BY <1>1, <1>2 DEF Witnessed, UnitStep

\* A valid checkpoint's updatedAt is not before any time it records.
LEMMA RecordedBound ==
  ASSUME NEW cp \in Checkpoints, ValidCheckpoint(cp), NEW i \in UnitIndex, NEW k \in DOMAIN cp.units[i].epochs,
         NEW t \in Recorded(cp.units[i].epochs[k])
  PROVE  t <= cp.updatedAt
<1> DEFINE e == cp.units[i].epochs[k]
<1>1. cp.units[i] \in Units
  BY DEF Checkpoints
<1>2. e \in Epochs /\ k \in 1..Len(cp.units[i].epochs)
  BY <1>1 DEF Units
<1>3. TimesOrdered(e, cp)
  BY <1>2 DEF ValidCheckpoint, ValidUnit
<1>4. t \in Recorded(e)
  OBVIOUS
<1> HIDE DEF e
<1>5. CASE t = e.reservedAt
  BY <1>3, <1>5 DEF TimesOrdered
<1>6. CASE e.phase # "reserved" /\ t = e.authorizedAt
  BY <1>3, <1>6 DEF TimesOrdered
<1>7. CASE e.phase = "terminal" /\ t = e.terminalAt
  BY <1>3, <1>7 DEF TimesOrdered
<1> QED
  BY <1>4, <1>5, <1>6, <1>7 DEF Recorded

\* A transition of a unit does not take updatedAt back.
LEMMA ForwardStep ==
  ASSUME IInv, NEW i \in UnitIndex, UnitTransition(i)
  PROVE  checkpoint.updatedAt <= checkpoint'.updatedAt
<1>1. PICK unit \in Units, at \in Times :
        /\ Open(checkpoint, i) /\ ValidCheckpoint(checkpoint) /\ ValidCheckpoint(checkpoint')
        /\ checkpoint' = Advanced(checkpoint, i, unit, at)
        /\ UnitStep(checkpoint.units[i], unit, at)
  BY DEF UnitTransition
<1>2. /\ checkpoint' \in Checkpoints /\ checkpoint \in Checkpoints
      /\ checkpoint'.createdAt = checkpoint.createdAt
      /\ checkpoint'.units[i] = unit
      /\ \A j \in UnitIndex \ {i} : checkpoint'.units[j] = checkpoint.units[j]
  BY <1>1, TransitionFields DEF IInv, TypeOK
<1>3. checkpoint # NoCheckpoint
  BY <1>1 DEF ValidCheckpoint, NoCheckpoint
<1>4. checkpoint.finalization = NoTime
  BY <1>1 DEF Open
<1>5. CASE checkpoint.updatedAt = checkpoint.createdAt
  BY <1>1, <1>2, <1>5 DEF ValidCheckpoint
<1>6. ASSUME NEW j \in UnitIndex, checkpoint.units[j].state = "uncertain" PROVE FALSE
  <2>1. j # i
    BY <1>1, <1>6 DEF UnitStep
  <2>2. ~(j < i)
    BY <1>1, <1>6 DEF Open, InQueueOrder, UnitIndex
  <2>3. checkpoint.units[j].epochs # <<>>
    BY <1>1, <1>6 DEF ValidCheckpoint, ValidUnit
  <2>4. checkpoint.units[i].state = "completed"
    BY <2>1, <2>2, <2>3 DEF IInv, InOrder, UnitIndex
  <2> QED
    BY <1>1, <2>4 DEF Open
<1>7. ASSUME NEW j \in UnitIndex, NEW k \in DOMAIN checkpoint.units[j].epochs,
             checkpoint.updatedAt \in Recorded(checkpoint.units[j].epochs[k])
      PROVE  checkpoint.updatedAt <= checkpoint'.updatedAt
  <2>1. /\ k \in DOMAIN checkpoint'.units[j].epochs
        /\ checkpoint.updatedAt \in Recorded(checkpoint'.units[j].epochs[k])
    BY <1>1, <1>2, <1>7 DEF UnitStep
  <2> QED
    BY <1>1, <1>2, <2>1, RecordedBound
<1> QED
  BY <1>3, <1>4, <1>5, <1>6, <1>7 DEF IInv, Witnessed

\* Nor does the finalization.
LEMMA ForwardFinalize ==
  ASSUME IInv, Finalize
  PROVE  checkpoint.updatedAt <= checkpoint'.updatedAt
<1>1. /\ checkpoint' \in Checkpoints /\ checkpoint \in Checkpoints
      /\ checkpoint'.units = checkpoint.units /\ checkpoint'.createdAt = checkpoint.createdAt
      /\ checkpoint.finalization = NoTime /\ AllCompleted(checkpoint)
      /\ ValidCheckpoint(checkpoint) /\ ValidCheckpoint(checkpoint')
  BY FinalizeFields DEF IInv, TypeOK
<1>2. checkpoint # NoCheckpoint
  BY <1>1 DEF ValidCheckpoint, NoCheckpoint
<1>3. CASE checkpoint.updatedAt = checkpoint.createdAt
  BY <1>1, <1>3 DEF ValidCheckpoint
<1>4. \A j \in UnitIndex : checkpoint.units[j].state # "uncertain"
  BY <1>1 DEF AllCompleted
<1>5. ASSUME NEW j \in UnitIndex, NEW k \in DOMAIN checkpoint.units[j].epochs,
             checkpoint.updatedAt \in Recorded(checkpoint.units[j].epochs[k])
      PROVE  checkpoint.updatedAt <= checkpoint'.updatedAt
  BY <1>1, <1>5, RecordedBound
<1> QED
  BY <1>1, <1>2, <1>3, <1>4, <1>5 DEF IInv, Witnessed

\* The invariant is inductive.
LEMMA NextInv == IInv /\ [Next]_vars => IInv'
<1> SUFFICES ASSUME IInv, [Next]_vars PROVE IInv'
  OBVIOUS
<1>1. CASE UNCHANGED vars
  BY <1>1 DEF vars, IInv, TypeOK, InOrder, Witnessed
<1>2. CASE Create
  <2>1. TypeOK' /\ checkpoint'.units = checkpoint.units /\ checkpoint'.updatedAt = checkpoint'.createdAt
    BY <1>2, CreateFields
  <2> QED
    BY <2>1 DEF IInv, InOrder, Witnessed
<1>3. CASE Finalize
  <2>1. TypeOK' /\ checkpoint'.units = checkpoint.units /\ checkpoint'.finalization # NoTime
    BY <1>3, FinalizeFields DEF IInv
  <2> QED
    BY <2>1 DEF IInv, InOrder, Witnessed
<1>4. ASSUME NEW i \in UnitIndex, UnitTransition(i) PROVE IInv'
  BY <1>4, InOrderStep, WitnessedStep DEF IInv
<1> QED
  BY <1>1, <1>2, <1>3, <1>4, Shape DEF IInv

\* Settled epochs, completed units and finalized campaigns are kept by a step.
LEMMA KeptStep ==
  ASSUME IInv, Next
  PROVE  /\ checkpoint.finalization = NoTime
         /\ \A i \in UnitIndex :
              LET u == checkpoint.units[i] IN
              /\ u.state = "completed" => checkpoint'.units[i] = u
              /\ \A k \in DOMAIN u.epochs :
                   u.epochs[k].phase \in {"terminal", "uncertain"} =>
                     k \in DOMAIN checkpoint'.units[i].epochs /\ checkpoint'.units[i].epochs[k] = u.epochs[k]
<1>1. CASE Create
  <2>1. checkpoint'.units = checkpoint.units /\ checkpoint.finalization = NoTime
    BY <1>1, CreateFields DEF NoCheckpoint
  <2> QED
    BY <2>1
<1>2. CASE Finalize
  <2>1. checkpoint'.units = checkpoint.units /\ checkpoint.finalization = NoTime
    BY <1>2, FinalizeFields DEF IInv
  <2> QED
    BY <2>1
<1>3. ASSUME NEW i \in UnitIndex, UnitTransition(i)
      PROVE  /\ checkpoint.finalization = NoTime
             /\ \A j \in UnitIndex :
                  LET u == checkpoint.units[j] IN
                  /\ u.state = "completed" => checkpoint'.units[j] = u
                  /\ \A k \in DOMAIN u.epochs :
                       u.epochs[k].phase \in {"terminal", "uncertain"} =>
                         k \in DOMAIN checkpoint'.units[j].epochs /\ checkpoint'.units[j].epochs[k] = u.epochs[k]
  <2>1. PICK unit \in Units, at \in Times :
          /\ Open(checkpoint, i)
          /\ checkpoint' = Advanced(checkpoint, i, unit, at)
          /\ UnitStep(checkpoint.units[i], unit, at)
    BY <1>3 DEF UnitTransition
  <2>2. checkpoint'.units[i] = unit /\ \A j \in UnitIndex \ {i} : checkpoint'.units[j] = checkpoint.units[j]
    BY <2>1, TransitionFields DEF IInv
  <2>3. checkpoint.finalization = NoTime /\ checkpoint.units[i].state # "completed"
    BY <2>1 DEF Open
  <2> QED
    BY <2>1, <2>2, <2>3 DEF UnitStep
<1> QED
  BY <1>1, <1>2, <1>3, Shape DEF IInv

\* updatedAt does not go back in a step.
LEMMA ForwardNext ==
  ASSUME IInv, Next
  PROVE  checkpoint.updatedAt <= checkpoint'.updatedAt
<1>1. CASE Create
  <2>1. checkpoint.updatedAt = NoTime
    BY <1>1, CreateFields DEF NoCheckpoint
  <2>2. checkpoint'.updatedAt \in Nat
    BY <1>1, CreateFields, TimesAssumption
  <2> QED
    BY <2>1, <2>2 DEF NoTime
<1> QED
  BY <1>1, ForwardStep, ForwardFinalize, Shape DEF IInv

\* The invariant holds in every state of every chain.
THEOREM Invariance == Spec => []IInv
BY InitInv, NextInv, PTL DEF Spec

\* Every checkpoint of the chain has its type, at every length and clock.
THEOREM TypeCorrect == Spec => []TypeOK
<1>1. IInv => TypeOK
  BY DEF IInv
<1> QED
  BY <1>1, Invariance, PTL

\* At most one unit is unsettled, and the units behind it are untouched.
THEOREM InOrderHolds == Spec => []InOrder
<1>1. IInv => InOrder
  BY DEF IInv
<1> QED
  BY <1>1, Invariance, PTL

\* Settled work never changes, whatever the transitions that follow.
THEOREM SettledKeptHolds == Spec => SettledKept
<1>1. IInv /\ [Next]_vars =>
        [/\ checkpoint.finalization = NoTime
         /\ \A i \in UnitIndex :
              LET u == checkpoint.units[i] IN
              /\ u.state = "completed" => checkpoint'.units[i] = u
              /\ \A k \in DOMAIN u.epochs :
                   u.epochs[k].phase \in {"terminal", "uncertain"} =>
                     k \in DOMAIN checkpoint'.units[i].epochs /\ checkpoint'.units[i].epochs[k] = u.epochs[k]]_vars
  BY KeptStep
<1> QED
  BY <1>1, Invariance, PTL DEF Spec, SettledKept

\* updatedAt never goes back, however the wall clock is set.
THEOREM UpdatedAtForwardHolds == Spec => UpdatedAtForward
<1>1. IInv /\ [Next]_vars => [checkpoint.updatedAt <= checkpoint'.updatedAt]_vars
  BY ForwardNext
<1> QED
  BY <1>1, Invariance, PTL DEF Spec, UpdatedAtForward

(***************************************************************************)
(* The revision a continuation names.  While a unit is worked on nothing   *)
(* else is committed, so that the generations since the reservation count  *)
(* the transitions of the unit.                                            *)
(***************************************************************************)
\* How far the chain is from the first reservation of a unit, and what bought a second.
PacedUnit(i, u, g) ==
  /\ Len(u.epochs) = 1 =>
       /\ u.epochs[1].phase = "reserved" => g = u.epochs[1].parent + 1
       /\ u.epochs[1].phase = "invocation-authorized" => g = u.epochs[1].parent + 2
       /\ u.state = "paused-limit" => g = u.epochs[1].parent + 3
  /\ Len(u.epochs) = 2 =>
       /\ u.epochs[1].reason = "provider-limit"
       /\ u.epochs[2].authorization = [generation |-> u.epochs[2].parent, unit |-> i]
       /\ u.epochs[2].parent = u.epochs[1].parent + 3

\* The inductive invariant behind ContinuationBought.
Paced == \A i \in UnitIndex : PacedUnit(i, checkpoint.units[i], checkpoint.generation)

\* The units beside the one a transition replaces are completed or untouched.
LEMMA PacedOthers ==
  ASSUME IInv, Paced, NEW i \in UnitIndex, NEW unit \in Units, NEW at \in Times,
         Open(checkpoint, i), ValidCheckpoint(checkpoint),
         checkpoint' = Advanced(checkpoint, i, unit, at),
         PacedUnit(i, unit, checkpoint.generation + 1)
  PROVE  Paced'
<1>1. /\ checkpoint'.units[i] = unit
      /\ \A j \in UnitIndex \ {i} : checkpoint'.units[j] = checkpoint.units[j]
  BY TransitionFields DEF IInv
<1>2. checkpoint'.generation = checkpoint.generation + 1
  BY DEF Advanced, IInv, TypeOK, Checkpoints
<1>3. ASSUME NEW j \in UnitIndex, j # i
      PROVE  PacedUnit(j, checkpoint.units[j], checkpoint.generation + 1)
  <2> DEFINE u == checkpoint.units[j]
  <2>1. u \in Units
    BY DEF IInv, TypeOK, Checkpoints
  <2>2. CASE u.epochs = <<>>
    BY <2>2 DEF PacedUnit
  <2>3. CASE u.epochs # <<>>
    <3>1. u.state = "completed"
      BY <1>3, <2>3 DEF IInv, InOrder, Open, InQueueOrder, UnitIndex
    <3>2. Len(u.epochs) = 1 => u.epochs[1].phase = "terminal"
      BY <2>3, <3>1 DEF ValidCheckpoint, ValidUnit, LastEpoch
    <3>3. PacedUnit(j, u, checkpoint.generation)
      BY DEF Paced
    <3> QED
      BY <3>1, <3>2, <3>3 DEF PacedUnit
  <2> QED
    BY <2>2, <2>3
<1> QED
  BY <1>1, <1>2, <1>3 DEF Paced

\* Replacing the last epoch keeps what bought it.
LEMMA PacedLast ==
  ASSUME IInv, Paced, NEW i \in UnitIndex, NEW phase \in {"reserved", "invocation-authorized"},
         InProgress(checkpoint, i, phase), NEW state \in States, NEW e \in Epochs, NEW at \in Times,
         e.parent = LastEpoch(checkpoint.units[i]).parent,
         e.authorization = LastEpoch(checkpoint.units[i]).authorization,
         e.phase # "reserved",
         e.phase = "invocation-authorized" => phase = "reserved" /\ state # "paused-limit",
         state = "paused-limit" => phase = "invocation-authorized",
         Transition(Advanced(checkpoint, i, WithLast(checkpoint.units[i], state, e), at))
  PROVE  Paced'
<1> DEFINE u == checkpoint.units[i]
           g == checkpoint.generation
           unit == WithLast(u, state, e)
<1>1. ValidCheckpoint(checkpoint) /\ checkpoint' = Advanced(checkpoint, i, unit, at)
  BY DEF Transition, Permitted
<1>2. u \in Units /\ u.epochs # <<>> /\ LastEpoch(u).phase = phase /\ Open(checkpoint, i)
  BY <1>1, InProgressUnit DEF IInv
<1>3. /\ unit \in Units /\ unit.state = state
      /\ DOMAIN unit.epochs = DOMAIN u.epochs
      /\ unit.epochs[Len(u.epochs)] = e
      /\ \A k \in DOMAIN u.epochs \ {Len(u.epochs)} : unit.epochs[k] = u.epochs[k]
  BY <1>2, WithLastFields
<1>4. Len(unit.epochs) = Len(u.epochs)
  BY <1>2, <1>3 DEF Units
<1>5. PacedUnit(i, u, g) /\ g \in Nat
  BY DEF Paced, IInv, TypeOK, Checkpoints
<1> HIDE DEF unit
<1>6. CASE Len(u.epochs) = 1
  <2>1. unit.epochs[1] = e /\ LastEpoch(u) = u.epochs[1]
    BY <1>3, <1>6 DEF LastEpoch
  <2>2. e.parent \in Nat
    BY DEF Epochs
  <2>3. e.parent = u.epochs[1].parent /\ u.epochs[1].phase = phase
    BY <1>2, <2>1
  <2>4. PacedUnit(i, unit, g + 1)
    BY <1>3, <1>4, <1>5, <1>6, <2>1, <2>2, <2>3 DEF PacedUnit
  <2> QED
    BY <1>1, <1>2, <1>3, <2>4, PacedOthers
<1>7. CASE Len(u.epochs) = 2
  <2>1. /\ unit.epochs[2] = e /\ LastEpoch(u) = u.epochs[2]
        /\ unit.epochs[1] = u.epochs[1]
    BY <1>2, <1>3, <1>7 DEF LastEpoch, Units
  <2>2. PacedUnit(i, unit, g + 1)
    BY <1>4, <1>5, <1>7, <2>1 DEF PacedUnit
  <2> QED
    BY <1>1, <1>2, <1>3, <2>2, PacedOthers
<1>8. Len(u.epochs) \in {1, 2}
  <2>1. Len(u.epochs) <= 2
    BY <1>1 DEF ValidCheckpoint, ValidUnit
  <2>2. Len(u.epochs) \in Nat \ {0}
    BY <1>2 DEF Units
  <2>3. \A n \in Nat \ {0} : n <= 2 => n \in {1, 2}
    OBVIOUS
  <2> QED
    BY <2>1, <2>2, <2>3
<1> QED
  BY <1>6, <1>7, <1>8

\* A reservation is the first of its unit, or bought at the revision it follows.
LEMMA PacedReserve ==
  ASSUME IInv, Paced, NEW i \in UnitIndex, NEW a \in Requests, Reserve(i, a)
  PROVE  Paced'
<1> DEFINE u == checkpoint.units[i]
           g == checkpoint.generation
<1>1. PICK id \in EpochIds, at \in Times : Transition(Reserved(checkpoint, i, id, a, at))
  BY DEF Reserve
<1> DEFINE e == [id |-> id, phase |-> "reserved", parent |-> g, authorization |-> a,
                 reservedAt |-> at, authorizedAt |-> NoTime, terminalAt |-> NoTime, reason |-> "none"]
           unit == [state |-> "in-progress", epochs |-> Append(u.epochs, e)]
<1>2. u \in Units /\ g \in Nat
  BY DEF IInv, TypeOK, Checkpoints
<1>3. a \in Authorizations
  BY DEF Requests, NoAuthorization, Authorizations, IInv, TypeOK, Checkpoints, UnitIndex
<1>4. e \in Epochs
  BY <1>2, <1>3 DEF Epochs, Phases, Reasons
<1>5. unit \in Units
  BY <1>2, <1>4 DEF Units, States
<1>6. /\ Len(unit.epochs) = Len(u.epochs) + 1
      /\ \A k \in 1..Len(u.epochs) : unit.epochs[k] = u.epochs[k]
      /\ unit.epochs[Len(u.epochs) + 1] = e
      /\ Len(u.epochs) \in Nat
  BY <1>2, <1>4 DEF Units
<1>7. ValidCheckpoint(checkpoint) /\ Open(checkpoint, i) /\ checkpoint' = Advanced(checkpoint, i, unit, at)
  BY <1>1 DEF Transition, Permitted, Reserved, Reserve, MayReserve
<1>8. e.phase = "reserved" /\ e.parent = g /\ e.authorization = a
  OBVIOUS
<1>9. unit.state = "in-progress"
  OBVIOUS
<1> HIDE DEF unit, e
<1>10. CASE a = NoAuthorization
  <2>1. Len(u.epochs) = 0
    BY <1>10 DEF Reserve, MayReserve, PendingUnit
  <2>2. PacedUnit(i, unit, g + 1)
    BY <1>2, <1>6, <1>8, <1>9, <2>1 DEF PacedUnit
  <2> QED
    BY <1>5, <1>7, <2>2, PacedOthers
<1>11. CASE a # NoAuthorization
  <2>1. a.generation = g /\ a.unit = i /\ u.state = "paused-limit" /\ Len(u.epochs) = 1
    BY <1>11 DEF Reserve, MayReserve, ValidLimitAuthorization
  <2>2. u.epochs[1].reason = "provider-limit"
    BY <1>2, <1>7, <2>1 DEF ValidCheckpoint, ValidUnit, LastEpoch
  <2>3. g = u.epochs[1].parent + 3
    BY <2>1 DEF Paced, PacedUnit
  <2>4. a = [generation |-> g, unit |-> i]
    BY <1>3, <2>1 DEF Authorizations
  <2>5. PacedUnit(i, unit, g + 1)
    BY <1>6, <1>8, <2>1, <2>2, <2>3, <2>4 DEF PacedUnit
  <2> QED
    BY <1>5, <1>7, <2>5, PacedOthers
<1> QED
  BY <1>10, <1>11

\* The invariant is kept by every step.
LEMMA PacedNext ==
  ASSUME IInv, Paced, [Next]_vars
  PROVE  Paced'
<1>1. CASE UNCHANGED vars
  BY <1>1 DEF vars, Paced
<1>2. CASE Create
  <2>1. \A i \in UnitIndex : checkpoint'.units[i] = PendingUnit
    BY <1>2, CreateFields DEF NoCheckpoint
  <2> QED
    BY <2>1 DEF Paced, PacedUnit, PendingUnit
<1>3. CASE Finalize
  <2>1. /\ checkpoint'.units = checkpoint.units
        /\ AllCompleted(checkpoint) /\ ValidCheckpoint(checkpoint)
    BY <1>3, FinalizeFields DEF IInv
  <2>2. ASSUME NEW i \in UnitIndex
        PROVE  PacedUnit(i, checkpoint.units[i], checkpoint'.generation)
    <3> DEFINE u == checkpoint.units[i]
    <3>1. u \in Units /\ u.state = "completed"
      BY <2>1 DEF IInv, TypeOK, Checkpoints, AllCompleted
    <3>2. Len(u.epochs) = 1 => u.epochs[1].phase = "terminal"
      BY <2>1, <3>1 DEF ValidCheckpoint, ValidUnit, LastEpoch, Units
    <3> QED
      BY <3>1, <3>2 DEF Paced, PacedUnit
  <2> QED
    BY <2>1, <2>2 DEF Paced
<1>4. ASSUME NEW i \in UnitIndex, Authorize(i) PROVE Paced'
  <2> DEFINE u == checkpoint.units[i]
  <2>1. PICK at \in Times : Transition(Authorized(checkpoint, i, at))
    BY <1>4 DEF Authorize
  <2> DEFINE e == [LastEpoch(u) EXCEPT !.phase = "invocation-authorized", !.authorizedAt = at]
  <2>2. InProgress(checkpoint, i, "reserved") /\ ValidCheckpoint(checkpoint)
    BY <1>4, <2>1 DEF Authorize, MayAuthorize, Transition, Permitted
  <2>3. LastEpoch(u) \in Epochs
    BY <2>2, InProgressUnit, WithLastFields DEF Units, States, IInv
  <2>4. /\ e \in Epochs /\ e.phase = "invocation-authorized"
        /\ e.parent = LastEpoch(u).parent /\ e.authorization = LastEpoch(u).authorization
    BY <2>3 DEF Epochs, Phases
  <2>5. Transition(Advanced(checkpoint, i, WithLast(u, "in-progress", e), at))
    BY <2>1 DEF Authorized
  <2> HIDE DEF e
  <2> QED
    BY <2>2, <2>4, <2>5, PacedLast DEF States
<1>5. ASSUME NEW i \in UnitIndex, GiveUp(i) PROVE Paced'
  <2> DEFINE u == checkpoint.units[i]
             e == [LastEpoch(u) EXCEPT !.phase = "uncertain"]
  <2>1. PICK at \in Times : Transition(Uncertain(checkpoint, i, at))
    BY <1>5 DEF GiveUp
  <2>2. InProgress(checkpoint, i, "invocation-authorized") /\ ValidCheckpoint(checkpoint)
    BY <1>5, <2>1 DEF GiveUp, MaySettle, Transition, Permitted
  <2>3. LastEpoch(u) \in Epochs
    BY <2>2, InProgressUnit, WithLastFields DEF Units, States, IInv
  <2>4. /\ e \in Epochs /\ e.phase = "uncertain"
        /\ e.parent = LastEpoch(u).parent /\ e.authorization = LastEpoch(u).authorization
    BY <2>3 DEF Epochs, Phases
  <2>5. Transition(Advanced(checkpoint, i, WithLast(u, "uncertain", e), at))
    BY <2>1 DEF Uncertain
  <2> HIDE DEF e
  <2> QED
    BY <2>2, <2>4, <2>5, PacedLast DEF States
<1>6. ASSUME NEW i \in UnitIndex, Settle(i) PROVE Paced'
  <2> DEFINE u == checkpoint.units[i]
  <2>1. PICK reason \in Reasons, at \in Times : Transition(Terminal(checkpoint, i, reason, at))
    BY <1>6 DEF Settle
  <2> DEFINE e == [LastEpoch(u) EXCEPT !.phase = "terminal", !.terminalAt = at, !.reason = reason]
  <2>2. InProgress(checkpoint, i, "invocation-authorized") /\ ValidCheckpoint(checkpoint)
    BY <1>6, <2>1 DEF Settle, MaySettle, Transition, Permitted
  <2>3. LastEpoch(u) \in Epochs
    BY <2>2, InProgressUnit, WithLastFields DEF Units, States, IInv
  <2>4. /\ e \in Epochs /\ e.phase = "terminal"
        /\ e.parent = LastEpoch(u).parent /\ e.authorization = LastEpoch(u).authorization
    BY <2>3 DEF Epochs, Phases
  <2>5. Transition(Advanced(checkpoint, i, WithLast(u, StateAfter(reason), e), at))
    BY <2>1 DEF Terminal
  <2>6. StateAfter(reason) \in States
    BY DEF StateAfter, States
  <2> HIDE DEF e
  <2> QED
    BY <2>2, <2>4, <2>5, <2>6, PacedLast
<1> QED
  BY <1>1, <1>2, <1>3, <1>4, <1>5, <1>6, PacedReserve DEF Next

\* A second invocation of a unit names the revision the unit was paused at, however long the chain.
THEOREM ContinuationBoughtHolds == Spec => []ContinuationBought
<1>1. Init => Paced
  BY DEF Init, NoCheckpoint, Paced, PacedUnit, PendingUnit
<1>2. IInv /\ Paced /\ [Next]_vars => Paced'
  BY PacedNext
<1>3. Paced => ContinuationBought
  BY DEF Paced, PacedUnit, ContinuationBought
<1> QED
  BY <1>1, <1>2, <1>3, Invariance, PTL DEF Spec

(***************************************************************************)
(* The history check infers the transition that was made.                  *)
(***************************************************************************)
\* A transition of one unit shows in that unit and nowhere else.
LEMMA OneChange ==
  ASSUME TypeOK, NEW i \in UnitIndex, NEW unit \in Units, NEW at \in Times,
         checkpoint' = Advanced(checkpoint, i, unit, at), unit # checkpoint.units[i],
         Open(checkpoint, i), ChangeAccepted(checkpoint, checkpoint', i)
  PROVE  ValidHistory(checkpoint, checkpoint')
<1>1. /\ checkpoint'.units[i] = unit
      /\ \A j \in UnitIndex \ {i} : checkpoint'.units[j] = checkpoint.units[j]
      /\ checkpoint'.finalization = checkpoint.finalization
  BY TransitionFields
<1>2. {j \in UnitIndex : checkpoint'.units[j] # checkpoint.units[j]} = {i}
  BY <1>1
<1>3. checkpoint'.finalization = NoTime
  BY <1>1 DEF Open
<1> QED
  BY <1>2, <1>3 DEF ValidHistory

\* The last epoch that a transition leaves tells which transition it was.
LEMMA LastInferred ==
  ASSUME TypeOK, NEW i \in UnitIndex, NEW phase \in {"reserved", "invocation-authorized"},
         InProgress(checkpoint, i, phase), NEW state \in States, NEW e \in Epochs, NEW at \in Times,
         e.phase # phase,
         Transition(Advanced(checkpoint, i, WithLast(checkpoint.units[i], state, e), at)),
         \/ e.phase = "invocation-authorized" /\ MayAuthorize(checkpoint, i) /\ checkpoint' = Authorized(checkpoint, i, at)
         \/ e.phase = "uncertain" /\ MaySettle(checkpoint, i) /\ checkpoint' = Uncertain(checkpoint, i, at)
         \/ e.phase = "terminal" /\ MaySettle(checkpoint, i) /\ checkpoint' = Terminal(checkpoint, i, e.reason, at)
  PROVE  ValidHistory(checkpoint, checkpoint')
<1> DEFINE u == checkpoint.units[i]
           unit == WithLast(u, state, e)
<1>1. ValidCheckpoint(checkpoint) /\ checkpoint' = Advanced(checkpoint, i, unit, at)
  BY DEF Transition, Permitted
<1>2. u \in Units /\ u.epochs # <<>> /\ LastEpoch(u).phase = phase /\ Open(checkpoint, i)
  BY <1>1, InProgressUnit
<1>3. /\ unit \in Units
      /\ DOMAIN unit.epochs = DOMAIN u.epochs
      /\ unit.epochs[Len(u.epochs)] = e
  BY <1>2, WithLastFields
<1>4. Len(unit.epochs) = Len(u.epochs) /\ Len(u.epochs) \in Nat \ {0}
  BY <1>2, <1>3 DEF Units
<1> HIDE DEF unit
<1>5. unit # u /\ LastEpoch(unit) = e
  BY <1>2, <1>3, <1>4 DEF LastEpoch
<1>6. checkpoint'.units[i] = unit /\ checkpoint'.updatedAt = at
  BY <1>1, <1>3, TransitionFields
<1>7. unit.epochs # <<>> /\ Len(unit.epochs) # Len(u.epochs) + 1
  BY <1>3, <1>4 DEF Units
<1>8. ChangeAccepted(checkpoint, checkpoint', i)
  BY <1>5, <1>6, <1>7 DEF ChangeAccepted
<1> QED
  BY <1>1, <1>2, <1>3, <1>5, <1>8, OneChange

\* A reservation is inferred from the epoch it appends.
LEMMA ReserveInferred ==
  ASSUME TypeOK, NEW i \in UnitIndex, NEW a \in Requests, Reserve(i, a)
  PROVE  ValidHistory(checkpoint, checkpoint')
<1> DEFINE u == checkpoint.units[i]
           g == checkpoint.generation
<1>1. PICK id \in EpochIds, at \in Times : Transition(Reserved(checkpoint, i, id, a, at))
  BY DEF Reserve
<1> DEFINE e == [id |-> id, phase |-> "reserved", parent |-> g, authorization |-> a,
                 reservedAt |-> at, authorizedAt |-> NoTime, terminalAt |-> NoTime, reason |-> "none"]
           unit == [state |-> "in-progress", epochs |-> Append(u.epochs, e)]
<1>2. u \in Units /\ g \in Nat
  BY DEF TypeOK, Checkpoints
<1>3. a \in Authorizations
  BY DEF Requests, NoAuthorization, Authorizations, TypeOK, Checkpoints, UnitIndex
<1>4. e \in Epochs
  BY <1>2, <1>3 DEF Epochs, Phases, Reasons
<1>5. unit \in Units
  BY <1>2, <1>4 DEF Units, States
<1>6. /\ Len(unit.epochs) = Len(u.epochs) + 1
      /\ unit.epochs[Len(u.epochs) + 1] = e
      /\ Len(u.epochs) \in Nat
  BY <1>2, <1>4 DEF Units
<1>7. /\ Open(checkpoint, i) /\ MayReserve(checkpoint, i, a)
      /\ checkpoint' = Reserved(checkpoint, i, id, a, at)
      /\ checkpoint' = Advanced(checkpoint, i, unit, at)
  BY <1>1 DEF Transition, Permitted, Reserved, Reserve, MayReserve
<1>8. e.id = id /\ e.authorization = a
  OBVIOUS
<1> HIDE DEF unit, e
<1>9. LastEpoch(unit) = e /\ unit # u /\ unit.epochs # <<>>
  BY <1>6 DEF LastEpoch
<1>10. checkpoint'.units[i] = unit /\ checkpoint'.updatedAt = at
  BY <1>5, <1>7, TransitionFields
<1>11. ChangeAccepted(checkpoint, checkpoint', i)
  BY <1>6, <1>7, <1>8, <1>9, <1>10 DEF ChangeAccepted
<1> QED
  BY <1>5, <1>7, <1>9, <1>11, OneChange

\* Every step of a chain that exists is accepted.
LEMMA HistoryNext ==
  ASSUME IInv, Next, checkpoint # NoCheckpoint
  PROVE  ValidHistory(checkpoint, checkpoint')
<1>1. CASE Create
  BY <1>1 DEF Create
<1>2. CASE Finalize
  <2>1. PICK completedAt \in Times, at \in Times : Transition(Finalized(checkpoint, completedAt, at))
    BY <1>2 DEF Finalize
  <2>2. checkpoint' = Finalized(checkpoint, completedAt, at) /\ MayFinalize(checkpoint)
    BY <1>2, <2>1 DEF Transition, Permitted, Finalize
  <2>3. checkpoint'.finalization = completedAt /\ checkpoint'.updatedAt = at
    BY <2>2 DEF Finalized, IInv, TypeOK, Checkpoints
  <2>4. completedAt # NoTime
    BY TimesAssumption DEF NoTime
  <2> QED
    BY <2>2, <2>3, <2>4 DEF ValidHistory, MayFinalize
<1>3. ASSUME NEW i \in UnitIndex, Authorize(i) PROVE ValidHistory(checkpoint, checkpoint')
  <2> DEFINE u == checkpoint.units[i]
  <2>1. PICK at \in Times : Transition(Authorized(checkpoint, i, at))
    BY <1>3 DEF Authorize
  <2> DEFINE e == [LastEpoch(u) EXCEPT !.phase = "invocation-authorized", !.authorizedAt = at]
  <2>2. /\ InProgress(checkpoint, i, "reserved") /\ ValidCheckpoint(checkpoint)
        /\ MayAuthorize(checkpoint, i) /\ checkpoint' = Authorized(checkpoint, i, at)
    BY <1>3, <2>1 DEF Authorize, MayAuthorize, Transition, Permitted
  <2>3. LastEpoch(u) \in Epochs
    BY <2>2, InProgressUnit, WithLastFields DEF Units, States, IInv
  <2>4. e \in Epochs /\ e.phase = "invocation-authorized"
    BY <2>3 DEF Epochs, Phases
  <2>5. Transition(Advanced(checkpoint, i, WithLast(u, "in-progress", e), at))
    BY <2>1 DEF Authorized
  <2> HIDE DEF e
  <2> QED
    BY <2>2, <2>4, <2>5, LastInferred DEF States, IInv
<1>4. ASSUME NEW i \in UnitIndex, GiveUp(i) PROVE ValidHistory(checkpoint, checkpoint')
  <2> DEFINE u == checkpoint.units[i]
             e == [LastEpoch(u) EXCEPT !.phase = "uncertain"]
  <2>1. PICK at \in Times : Transition(Uncertain(checkpoint, i, at))
    BY <1>4 DEF GiveUp
  <2>2. /\ InProgress(checkpoint, i, "invocation-authorized") /\ ValidCheckpoint(checkpoint)
        /\ MaySettle(checkpoint, i) /\ checkpoint' = Uncertain(checkpoint, i, at)
    BY <1>4, <2>1 DEF GiveUp, MaySettle, Transition, Permitted
  <2>3. LastEpoch(u) \in Epochs
    BY <2>2, InProgressUnit, WithLastFields DEF Units, States, IInv
  <2>4. e \in Epochs /\ e.phase = "uncertain"
    BY <2>3 DEF Epochs, Phases
  <2>5. Transition(Advanced(checkpoint, i, WithLast(u, "uncertain", e), at))
    BY <2>1 DEF Uncertain
  <2> HIDE DEF e
  <2> QED
    BY <2>2, <2>4, <2>5, LastInferred DEF States, IInv
<1>5. ASSUME NEW i \in UnitIndex, Settle(i) PROVE ValidHistory(checkpoint, checkpoint')
  <2> DEFINE u == checkpoint.units[i]
  <2>1. PICK reason \in Reasons, at \in Times : Transition(Terminal(checkpoint, i, reason, at))
    BY <1>5 DEF Settle
  <2> DEFINE e == [LastEpoch(u) EXCEPT !.phase = "terminal", !.terminalAt = at, !.reason = reason]
  <2>2. /\ InProgress(checkpoint, i, "invocation-authorized") /\ ValidCheckpoint(checkpoint)
        /\ MaySettle(checkpoint, i) /\ checkpoint' = Terminal(checkpoint, i, reason, at)
    BY <1>5, <2>1 DEF Settle, MaySettle, Transition, Permitted
  <2>3. LastEpoch(u) \in Epochs
    BY <2>2, InProgressUnit, WithLastFields DEF Units, States, IInv
  <2>4. e \in Epochs /\ e.phase = "terminal" /\ e.reason = reason
    BY <2>3 DEF Epochs, Phases
  <2>5. Transition(Advanced(checkpoint, i, WithLast(u, StateAfter(reason), e), at))
    BY <2>1 DEF Terminal
  <2>6. StateAfter(reason) \in States
    BY DEF StateAfter, States
  <2> HIDE DEF e
  <2> QED
    BY <2>2, <2>4, <2>5, <2>6, LastInferred DEF IInv
<1> QED
  BY <1>1, <1>2, <1>3, <1>4, <1>5, ReserveInferred DEF Next, IInv

\* What one process commits every other accepts, for any queue and clock.
THEOREM HistoryAcceptedHolds == Spec => HistoryAccepted
<1>1. IInv /\ [Next]_vars => [checkpoint # NoCheckpoint => ValidHistory(checkpoint, checkpoint')]_vars
  BY HistoryNext
<1> QED
  BY <1>1, Invariance, PTL DEF Spec, HistoryAccepted
=============================================================================
