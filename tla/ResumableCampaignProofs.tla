------------------------ MODULE ResumableCampaignProofs ------------------------
(***************************************************************************)
(* ResumableCampaign for any processes, commands, units, repairs and       *)
(* faults, with a clock that no number of generations exhausts.            *)
(*                                                                         *)
(* Each process knows a checkpoint (seen) and acts on it.  Local says what *)
(* holds of that checkpoint where the process is; View how it relates to   *)
(* the newest one, which others may have advanced.  A publication happens  *)
(* only on a checkpoint that is the newest (LinkMakes), so that each is a  *)
(* transition of the ledger, and the epoch under which a provider is       *)
(* called changes only by the hand of the command that reserved it.        *)
(***************************************************************************)
EXTENDS ResumableCampaign, WellFoundedInduction, TLAPS

\* The clock may show any number: the finite clock is TLC's.
ClockUnbounded == Nat \subseteq Times

-----------------------------------------------------------------------------
(* The queue.                                                              *)

Less == {ss \in Nat \X Nat : ss[1] < ss[2]}

LEMMA LessWellFounded == IsWellFoundedOn(Less, Nat)
BY NatLessThanWellFounded DEF OpToRel, Less

\* The first uncompleted unit is one, and none before it is.
LEMMA FirstUnitIsFirst ==
  ASSUME NEW cp, Uncompleted(cp) # {}
  PROVE  FirstUnit(cp) \in Uncompleted(cp) /\ \A j \in Uncompleted(cp) : FirstUnit(cp) <= j
<1>1. Uncompleted(cp) \subseteq Nat
  BY NAssumption DEF Uncompleted, UnitIndex
<1>2. PICK i \in Uncompleted(cp) : \A j \in Uncompleted(cp) : ~ (<<j, i>> \in Less)
  BY <1>1, LessWellFounded, WFMin
<1>3. ASSUME NEW j \in Uncompleted(cp)
      PROVE  i <= j
  <2>1. i \in Nat /\ j \in Nat
    BY <1>1
  <2>2. j < i => <<j, i>> \in Less
    BY <2>1 DEF Less
  <2> QED
    BY <2>1, <2>2, <1>2
<1> QED
  BY <1>3 DEF FirstUnit

LEMMA FirstUnitSame ==
  ASSUME NEW a, NEW b, Uncompleted(a) = Uncompleted(b), Uncompleted(a) # {}
  PROVE  FirstUnit(a) = FirstUnit(b)
<1>1. FirstUnit(a) \in Uncompleted(a) /\ FirstUnit(b) \in Uncompleted(a)
  BY FirstUnitIsFirst
<1>2. FirstUnit(a) <= FirstUnit(b) /\ FirstUnit(b) <= FirstUnit(a)
  BY <1>1, FirstUnitIsFirst
<1> QED
  BY <1>1, <1>2, NAssumption DEF Uncompleted, UnitIndex

-----------------------------------------------------------------------------
(* What the transitions of a checkpoint make.                              *)

\* A sequence that is not empty has a last place.
LEMMA LastIndex ==
  ASSUME NEW S, NEW s \in Seq(S), s # <<>>
  PROVE  Len(s) \in DOMAIN s
OBVIOUS

\* What Advanced changes and what it keeps.
LEMMA AdvancedFields ==
  ASSUME NEW cp \in Checkpoints, NEW i \in UnitIndex, NEW unit \in Units, NEW at \in Times
  PROVE  /\ Advanced(cp, i, unit, at) \in Checkpoints
         /\ Advanced(cp, i, unit, at).generation = cp.generation + 1
         /\ Advanced(cp, i, unit, at).finalization = cp.finalization
         /\ Advanced(cp, i, unit, at).units[i] = unit
         /\ \A j \in UnitIndex \ {i} : Advanced(cp, i, unit, at).units[j] = cp.units[j]
<1> DEFINE units == [cp.units EXCEPT ![i] = unit]
<1>1. cp.generation + 1 \in Nat /\ cp.units \in [UnitIndex -> Units]
  BY DEF Checkpoints
<1>2. units \in [UnitIndex -> Units] /\ units[i] = unit /\ \A j \in UnitIndex \ {i} : units[j] = cp.units[j]
  BY <1>1
<1>3. Advanced(cp, i, unit, at) = [cp EXCEPT !.generation = cp.generation + 1, !.updatedAt = at, !.units = units]
  BY DEF Advanced
<1> HIDE DEF units
<1> QED
  BY <1>1, <1>2, <1>3 DEF Checkpoints

\* Replacing the last epoch of a unit.
LEMMA WithLastFields ==
  ASSUME NEW u \in Units, u.epochs # <<>>, NEW state \in States, NEW e \in Epochs
  PROVE  /\ WithLast(u, state, e) \in Units
         /\ WithLast(u, state, e).state = state
         /\ Len(u.epochs) \in Nat \ {0} /\ DOMAIN u.epochs = 1..Len(u.epochs)
         /\ WithLast(u, state, e).epochs # <<>>
         /\ DOMAIN WithLast(u, state, e).epochs = DOMAIN u.epochs
         /\ Len(WithLast(u, state, e).epochs) = Len(u.epochs)
         /\ LastEpoch(WithLast(u, state, e)) = e
         /\ \A k \in DOMAIN u.epochs \ {Len(u.epochs)} : WithLast(u, state, e).epochs[k] = u.epochs[k]
         /\ LastEpoch(u) \in Epochs
BY DEF WithLast, Units, LastEpoch

\* Each epoch is still there, with its id, and none is reserved again.
Continues(a, b) ==
  \A k \in DOMAIN a.epochs :
    /\ k \in DOMAIN b.epochs /\ b.epochs[k].id = a.epochs[k].id
    /\ a.epochs[k].phase # "reserved" => b.epochs[k].phase # "reserved"

\* A transition of one unit, from an open one.
UnitMoves(a, b, i) ==
  /\ i \in UnitIndex /\ b \in Checkpoints /\ b.generation = a.generation + 1
  /\ b.finalization = a.finalization
  /\ \A j \in UnitIndex \ {i} : b.units[j] = a.units[j]
  /\ Continues(a.units[i], b.units[i])
  /\ b.units[i].epochs # <<>>

LEMMA ReservedMoves ==
  ASSUME NEW cp \in Checkpoints, NEW i \in UnitIndex, NEW id \in EpochIds, NEW a \in Authorizations, NEW at \in Times
  PROVE  LET new == Reserved(cp, i, id, a, at) IN
         /\ UnitMoves(cp, new, i)
         /\ new.units[i].state = "in-progress"
         /\ LastEpoch(new.units[i]).id = id /\ LastEpoch(new.units[i]).phase = "reserved"
<1> DEFINE u == cp.units[i]
           e == [id |-> id, phase |-> "reserved", parent |-> cp.generation, authorization |-> a,
                 reservedAt |-> at, authorizedAt |-> NoTime, terminalAt |-> NoTime, reason |-> "none"]
           unit == [state |-> "in-progress", epochs |-> Append(u.epochs, e)]
<1>1. u \in Units
  BY DEF Checkpoints
<1>2. e \in Epochs
  BY DEF Epochs, Phases, Reasons, Checkpoints
<1>3. /\ unit \in Units /\ unit.state = "in-progress" /\ unit.epochs # <<>>
      /\ LastEpoch(unit) = e
      /\ \A k \in DOMAIN u.epochs : k \in DOMAIN unit.epochs /\ unit.epochs[k] = u.epochs[k]
  <2>1. /\ unit.epochs \in Seq(Epochs) /\ Len(unit.epochs) = Len(u.epochs) + 1 /\ Len(u.epochs) \in Nat
        /\ unit.epochs[Len(u.epochs) + 1] = e
        /\ \A k \in 1..Len(u.epochs) : unit.epochs[k] = u.epochs[k]
        /\ DOMAIN u.epochs = 1..Len(u.epochs) /\ DOMAIN unit.epochs = 1..(Len(u.epochs) + 1)
    BY <1>1, <1>2 DEF Units
  <2> HIDE DEF e
  <2> QED
    BY <2>1 DEF Units, States, LastEpoch
<1>4. Reserved(cp, i, id, a, at) = Advanced(cp, i, unit, at)
  BY DEF Reserved
<1>5. e.id = id /\ e.phase = "reserved"
  OBVIOUS
<1> HIDE DEF unit, e
<1>6. Continues(u, unit)
  BY <1>3 DEF Continues
<1> QED
  BY <1>3, <1>4, <1>5, <1>6, AdvancedFields DEF UnitMoves

\* The transitions that replace the last epoch.
LEMMA LastMoves ==
  ASSUME NEW cp \in Checkpoints, NEW i \in UnitIndex, NEW state \in States, NEW e \in Epochs, NEW at \in Times,
         cp.units[i].epochs # <<>>, e.id = LastEpoch(cp.units[i]).id, e.phase # "reserved"
  PROVE  LET new == Advanced(cp, i, WithLast(cp.units[i], state, e), at) IN
         /\ UnitMoves(cp, new, i)
         /\ new.units[i].state = state
         /\ LastEpoch(new.units[i]) = e
<1> DEFINE u == cp.units[i]
           unit == WithLast(u, state, e)
<1>1. u \in Units
  BY DEF Checkpoints
<1>2. /\ unit \in Units /\ unit.state = state /\ unit.epochs # <<>>
      /\ DOMAIN unit.epochs = DOMAIN u.epochs /\ Len(unit.epochs) = Len(u.epochs)
      /\ LastEpoch(unit) = e
      /\ \A k \in DOMAIN u.epochs \ {Len(u.epochs)} : unit.epochs[k] = u.epochs[k]
  BY <1>1, WithLastFields
<1> HIDE DEF unit
<1>3. Continues(u, unit)
  BY <1>2 DEF Continues, LastEpoch
<1> QED
  BY <1>2, <1>3, AdvancedFields DEF UnitMoves, unit

LEMMA AuthorizedMoves ==
  ASSUME NEW cp \in Checkpoints, NEW i \in UnitIndex, NEW at \in Times, cp.units[i].epochs # <<>>
  PROVE  LET new == Authorized(cp, i, at) IN
         /\ UnitMoves(cp, new, i)
         /\ new.units[i].state = "in-progress"
         /\ LastEpoch(new.units[i]).id = LastEpoch(cp.units[i]).id
         /\ LastEpoch(new.units[i]).phase = "invocation-authorized"
<1> DEFINE u == cp.units[i]
           e == [LastEpoch(u) EXCEPT !.phase = "invocation-authorized", !.authorizedAt = at]
<1>1. u \in Units /\ LastEpoch(u) \in Epochs
  BY DEF Checkpoints, Units, LastEpoch
<1>2. e \in Epochs /\ e.id = LastEpoch(u).id /\ e.phase = "invocation-authorized"
  BY <1>1 DEF Epochs, Phases
<1>3. Authorized(cp, i, at) = Advanced(cp, i, WithLast(u, "in-progress", e), at)
  BY DEF Authorized
<1> HIDE DEF e
<1> QED
  BY <1>2, <1>3, LastMoves DEF States

LEMMA TerminalMoves ==
  ASSUME NEW cp \in Checkpoints, NEW i \in UnitIndex, NEW reason \in Reasons, NEW at \in Times, cp.units[i].epochs # <<>>
  PROVE  UnitMoves(cp, Terminal(cp, i, reason, at), i)
<1> DEFINE u == cp.units[i]
           e == [LastEpoch(u) EXCEPT !.phase = "terminal", !.terminalAt = at, !.reason = reason]
<1>1. u \in Units /\ LastEpoch(u) \in Epochs
  BY DEF Checkpoints, Units, LastEpoch
<1>2. e \in Epochs /\ e.id = LastEpoch(u).id /\ e.phase = "terminal"
  BY <1>1 DEF Epochs, Phases
<1>3. Terminal(cp, i, reason, at) = Advanced(cp, i, WithLast(u, StateAfter(reason), e), at)
  BY DEF Terminal
<1>4. StateAfter(reason) \in States
  BY DEF StateAfter, States
<1> HIDE DEF e
<1> QED
  BY <1>2, <1>3, <1>4, LastMoves

LEMMA FinalizedMoves ==
  ASSUME NEW cp \in Checkpoints, NEW completedAt \in Times, NEW at \in Times
  PROVE  LET new == Finalized(cp, completedAt, at) IN
         new \in Checkpoints /\ new.generation = cp.generation + 1 /\ new.units = cp.units /\ new.finalization = completedAt
<1>1. cp.generation + 1 \in Nat
  BY DEF Checkpoints
<1> QED
  BY <1>1 DEF Finalized, Checkpoints

LEMMA CreatedTyped ==
  ASSUME 1 \in Times
  PROVE  /\ Created(1) \in Checkpoints /\ Created(1).generation = 1 /\ Created(1).units = NoCheckpoint.units
         /\ Created(1).finalization = NoTime
         /\ NoCheckpoint \in Checkpoints /\ NoCheckpoint.generation = 0 /\ NoCheckpoint.finalization = NoTime
         /\ \A i \in UnitIndex : NoCheckpoint.units[i].epochs = <<>>
<1>1. PendingUnit \in Units /\ PendingUnit.epochs = <<>>
  BY DEF PendingUnit, Units, States
<1> QED
  BY <1>1 DEF Created, NoCheckpoint, Checkpoints

\* The history check accepts only the next generation.
LEMMA SuccessiveGeneration ==
  ASSUME NEW a \in Checkpoints, NEW b, Successive(a, b)
  PROVE  b.generation = a.generation + 1
<1>1. CASE a = NoCheckpoint
  BY <1>1 DEF Successive, Created, NoCheckpoint
<1>2. CASE a # NoCheckpoint
  <2>1. \A i, unit, at : Advanced(a, i, unit, at).generation = a.generation + 1
    BY DEF Advanced, Checkpoints
  <2>2. \A i : ChangeAccepted(a, b, i) => b.generation = a.generation + 1
    BY <2>1 DEF ChangeAccepted, Reserved, Authorized, Uncertain, Terminal
  <2>3. \A completedAt, at : Finalized(a, completedAt, at).generation = a.generation + 1
    BY DEF Finalized, Checkpoints
  <2> QED
    BY <1>2, <2>2, <2>3 DEF Successive, ValidHistory
<1> QED
  BY <1>1, <1>2

-----------------------------------------------------------------------------
(* What a process holds, and what it publishes.                            *)

\* The first uncompleted unit is i, and its last epoch, in the phase, is id's.
Held(cp, i, id, phase) ==
  /\ i = FirstUnit(cp) /\ i \in UnitIndex
  /\ InProgress(cp, i, phase)
  /\ cp.units[i].epochs # <<>> /\ LastEpoch(cp.units[i]).id = id

\* What the command id makes of the checkpoint it knows, by where it goes on.
Made(cp, new, continuation, id, a, reason) ==
  LET i == FirstUnit(cp)
      at == cp.generation + 1
  IN
  \/ continuation = "queue" /\ cp = NoCheckpoint /\ new = Created(1)
  \/ /\ cp.generation >= 1
     /\ \/ continuation = "contexts" /\ i \in UnitIndex /\ MayReserve(cp, i, a) /\ new = Reserved(cp, i, id, a, at)
        \/ continuation = "claim" /\ Held(cp, i, id, "reserved") /\ new = Authorized(cp, i, at)
        \/ continuation = "settled" /\ Held(cp, i, id, "invocation-authorized") /\ new = Terminal(cp, i, reason, at)
        \/ continuation = "done" /\ cp.finalization = NoTime /\ new = Finalized(cp, CompletedAt(cp), at)

\* A move that leaves the unit uncompleted leaves it the first one.
LEMMA MovesHeld ==
  ASSUME NEW cp \in Checkpoints, NEW new, NEW i, NEW id, NEW phase,
         i = FirstUnit(cp), UnitMoves(cp, new, i), Open(cp, i),
         new.units[i].state = "in-progress",
         LastEpoch(new.units[i]).id = id, LastEpoch(new.units[i]).phase = phase
  PROVE  Held(new, FirstUnit(new), id, phase) /\ FirstUnit(new) = FirstUnit(cp)
<1>1. i \in UnitIndex /\ new.finalization = cp.finalization /\ new.units[i].epochs # <<>>
      /\ \A j \in UnitIndex \ {i} : new.units[j] = cp.units[j]
  BY DEF UnitMoves
<1>2. Uncompleted(new) = Uncompleted(cp) /\ Uncompleted(cp) # {}
  BY <1>1 DEF Uncompleted, Open
<1>3. FirstUnit(new) = i
  BY <1>2, FirstUnitSame
<1>4. InQueueOrder(new, i)
  BY <1>1, NAssumption DEF Open, InQueueOrder, UnitIndex
<1> QED
  BY <1>1, <1>3, <1>4 DEF Held, InProgress, Open

LEMMA CompletedAtTyped ==
  ASSUME NEW cp \in Checkpoints, ValidCheckpoint(cp)
  PROVE  CompletedAt(cp) \in Times
<1>1. cp.createdAt \in Times \cup {NoTime} /\ cp.updatedAt \in Times \cup {NoTime} /\ cp.finalization \in Times \cup {NoTime}
  BY DEF Checkpoints
<1>2. cp.createdAt # NoTime /\ cp.createdAt <= cp.updatedAt
  BY DEF ValidCheckpoint
<1>3. cp.createdAt \in Nat
  BY <1>1, <1>2, TimesAssumption
<1>4. \A n \in Nat : ~ (n <= NoTime)
  BY DEF NoTime
<1>5. cp.updatedAt \in Times
  BY <1>1, <1>2, <1>3, <1>4
<1> QED
  BY <1>1, <1>5 DEF CompletedAt

\* A publication is a transition of one unit that is open, or changes none.
LEMMA MadeMoves ==
  ASSUME ClockUnbounded,
         NEW cp \in Checkpoints, NEW new, NEW continuation, NEW id \in EpochIds, NEW a \in Authorizations,
         NEW reason \in Reasons, Made(cp, new, continuation, id, a, reason),
         cp = NoCheckpoint \/ ValidCheckpoint(cp)
  PROVE  /\ new \in Checkpoints /\ new.generation = cp.generation + 1
         /\ \/ new.units = cp.units /\ (cp = NoCheckpoint \/ cp.finalization = NoTime)
            \/ UnitMoves(cp, new, FirstUnit(cp)) /\ Open(cp, FirstUnit(cp))
         /\ continuation = "queue" => new.generation = 1
         /\ continuation \in {"contexts", "claim"} => FirstUnit(new) = FirstUnit(cp)
         /\ continuation = "contexts" => Held(new, FirstUnit(new), id, "reserved")
         /\ continuation = "claim" => Held(new, FirstUnit(new), id, "invocation-authorized")
         /\ continuation \in {"queue", "contexts", "claim", "settled", "done"}
<1> DEFINE i == FirstUnit(cp)
           at == cp.generation + 1
<1>1. cp.generation \in Nat /\ at \in Times /\ 1 \in Times
  BY DEF Checkpoints, ClockUnbounded
<1>2. CASE continuation = "queue" /\ cp = NoCheckpoint /\ new = Created(1)
  BY <1>1, <1>2, CreatedTyped
<1>3. CASE continuation = "contexts" /\ i \in UnitIndex /\ MayReserve(cp, i, a) /\ new = Reserved(cp, i, id, a, at)
  <2>1. /\ UnitMoves(cp, new, i) /\ new.units[i].state = "in-progress"
        /\ LastEpoch(new.units[i]).id = id /\ LastEpoch(new.units[i]).phase = "reserved"
    BY <1>1, <1>3, ReservedMoves
  <2>2. Open(cp, i)
    BY <1>3 DEF MayReserve
  <2> QED
    BY <1>3, <2>1, <2>2, MovesHeld DEF UnitMoves
<1>4. CASE continuation = "claim" /\ Held(cp, i, id, "reserved") /\ new = Authorized(cp, i, at)
  <2>1. i \in UnitIndex /\ Open(cp, i) /\ cp.units[i].epochs # <<>> /\ LastEpoch(cp.units[i]).id = id
    BY <1>4 DEF Held, InProgress
  <2>2. /\ UnitMoves(cp, new, i) /\ new.units[i].state = "in-progress"
        /\ LastEpoch(new.units[i]).id = id /\ LastEpoch(new.units[i]).phase = "invocation-authorized"
    BY <1>1, <1>4, <2>1, AuthorizedMoves
  <2> QED
    BY <1>4, <2>1, <2>2, MovesHeld DEF UnitMoves
<1>5. CASE continuation = "settled" /\ Held(cp, i, id, "invocation-authorized") /\ new = Terminal(cp, i, reason, at)
  <2>1. i \in UnitIndex /\ Open(cp, i) /\ cp.units[i].epochs # <<>>
    BY <1>5 DEF Held, InProgress
  <2>2. UnitMoves(cp, new, i)
    BY <1>1, <1>5, <2>1, TerminalMoves
  <2> QED
    BY <1>5, <2>1, <2>2 DEF UnitMoves
<1>6. CASE continuation = "done" /\ cp.generation >= 1 /\ cp.finalization = NoTime
           /\ new = Finalized(cp, CompletedAt(cp), at)
  <2>1. CompletedAt(cp) \in Times
    BY <1>1, <1>6, CreatedTyped, CompletedAtTyped
  <2> QED
    BY <1>1, <1>6, <2>1, FinalizedMoves
<1> QED
  BY <1>2, <1>3, <1>4, <1>5, <1>6 DEF Made

\* Only the command whose id it has moves a unit whose invocation is authorized.
LEMMA MadeByOwner ==
  ASSUME ClockUnbounded,
         NEW cp \in Checkpoints, NEW new, NEW continuation, NEW id \in EpochIds, NEW a \in Authorizations,
         NEW reason \in Reasons, Made(cp, new, continuation, id, a, reason),
         cp = NoCheckpoint \/ ValidCheckpoint(cp),
         NEW i \in UnitIndex, cp.units[i].state = "in-progress", cp.units[i].epochs # <<>>,
         LastEpoch(cp.units[i]).phase = "invocation-authorized", LastEpoch(cp.units[i]).id # id
  PROVE  new.units[i] = cp.units[i]
<1>1. CASE new.units = cp.units
  BY <1>1
<1>2. CASE UnitMoves(cp, new, FirstUnit(cp)) /\ FirstUnit(cp) # i
  BY <1>2 DEF UnitMoves
<1>3. CASE i = FirstUnit(cp) /\ new.units # cp.units
  <2>1. ~MayReserve(cp, i, a)
    BY DEF MayReserve, ValidLimitAuthorization, PendingUnit
  <2>2. ~Held(cp, i, id, "reserved") /\ ~Held(cp, i, id, "invocation-authorized")
    BY DEF Held, InProgress
  <2>3. Finalized(cp, CompletedAt(cp), cp.generation + 1).units = cp.units
    BY DEF Finalized, Checkpoints
  <2>4. cp # NoCheckpoint
    BY DEF NoCheckpoint, PendingUnit
  <2> QED
    BY <1>3, <2>1, <2>2, <2>3, <2>4 DEF Made
<1> QED
  BY <1>1, <1>2, <1>3, MadeMoves

-----------------------------------------------------------------------------
(* The invariant.                                                          *)

Starting == {"idle", "acquire", "checkWriter", "firstRead"}
Locked == {"assert", "assertPublication", "link", "unlink"}
Calling == {"attempt", "invoke"}

\* What holds of a process and of the checkpoint it knows, whatever the others do.
Local(p) ==
  LET i == FirstUnit(seen[p]) IN
  /\ pc[p] \in Starting => seen[p] = NoCheckpoint
  /\ pc[p] \in Working \ (Publishing \cup {"firstRead", "done"}) => seen[p].generation >= 1
  /\ pc[p] = "reserve" => i \in UnitIndex
  /\ pc[p] = "contexts" => Held(seen[p], i, run[p], "reserved")
  /\ pc[p] \in Calling \cup {"claim", "settle"} => Held(seen[p], i, run[p], "invocation-authorized")
  /\ pc[p] \in Calling => attempt[p] \in 1..(1 + RepairAttempts)
  /\ pc[p] \in Starting /\ intent[p].mode = "continue" => intent[p].authorization.generation = observed[p]
  /\ pc[p] \in Publishing => Made(seen[p], next[p], then[p], run[p], intent[p].authorization, evidence[p])
  /\ pc[p] \in Publishing \ {"lock"} => ValidCheckpoint(next[p])

\* How what a process knows relates to the newest checkpoint.
View(p) ==
  LET i == FirstUnit(seen[p]) IN
  /\ seen[p] = NoCheckpoint \/ ValidCheckpoint(seen[p])
  /\ seen[p].generation <= committed.generation
  /\ seen[p].generation = committed.generation => seen[p] = committed
  /\ pc[p] \in {"assertPublication", "link"} => Successive(committed, next[p])
  /\ pc[p] \in Calling => committed.units[i] = seen[p].units[i]

\* The commands under way are different ones.
RunInv ==
  \A p \in Procs :
    /\ pc[p] # "idle" => run[p] \in 1..runs
    /\ \A q \in Procs \ {p} : pc[p] # "idle" /\ pc[q] # "idle" => run[p] # run[q]

\* A publication is exclusive.
WriterInv == \A p \in Procs : pc[p] \in Locked => writer = p

\* The newest checkpoint is valid, and its units were worked on in order.
Grounded == committed = NoCheckpoint \/ ValidCheckpoint(committed)
Ordered ==
  \A i, j \in UnitIndex : i < j /\ committed.units[j].epochs # <<>> => committed.units[i].state = "completed"

IInv ==
  /\ TypeOK /\ RunInv /\ WriterInv /\ Grounded /\ Ordered /\ InvocationClaimed
  /\ \A p \in Procs : Local(p) /\ View(p)

\* Functions on the processes, which is all that most steps need of TypeOK.
Shaped ==
  /\ DOMAIN pc = Procs /\ DOMAIN run = Procs /\ DOMAIN intent = Procs /\ DOMAIN observed = Procs
  /\ DOMAIN seen = Procs /\ DOMAIN next = Procs /\ DOMAIN then = Procs /\ DOMAIN case = Procs
  /\ DOMAIN attempt = Procs /\ DOMAIN evidence = Procs /\ DOMAIN outcome = Procs

LEMMA TypeOKShaped == TypeOK => Shaped
BY DEF TypeOK, Shaped

\* A step of a process leaves what the others know alone.
Alone(p) ==
  \A q \in Procs \ {p} :
    /\ pc'[q] = pc[q] /\ run'[q] = run[q] /\ intent'[q] = intent[q] /\ observed'[q] = observed[q]
    /\ seen'[q] = seen[q] /\ next'[q] = next[q] /\ then'[q] = then[q]
    /\ attempt'[q] = attempt[q] /\ evidence'[q] = evidence[q]

\* The actions of a process, in the groups the proofs go by: those that only
\* move it on, those that publish, and the rest.
LEMMA ActsAlone ==
  ASSUME Shaped, NEW p \in Procs, Command(p) \/ Step(p) \/ Crash(p)
  PROVE  Alone(p)
<1> USE DEF Alone, Shaped, Goto, Ends, Fails, Return, Publish, Concludes, root, locals
<1>1. CASE Command(p)
  BY <1>1 DEF Command
<1>2. CASE Acquire(p)
  BY <1>2 DEF Acquire
<1>3. CASE CheckWriter(p)
  BY <1>3 DEF CheckWriter
<1>4. CASE Release(p)
  BY <1>4 DEF Release
<1>5. CASE FirstRead(p)
  BY <1>5 DEF FirstRead
<1>6. CASE Queue(p)
  BY <1>6 DEF Queue
<1>7. CASE ReserveUnit(p)
  BY <1>7 DEF ReserveUnit
<1>8. CASE Contexts(p)
  BY <1>8 DEF Contexts
<1>9. CASE Claim(p)
  BY <1>9 DEF Claim
<1>10. CASE Attempt(p)
  BY <1>10 DEF Attempt
<1>11. CASE Invoke(p)
  BY <1>11 DEF Invoke
<1>12. CASE Settle(p)
  BY <1>12 DEF Settle
<1>13. CASE Settled(p)
  BY <1>13 DEF Settled
<1>14. CASE Lock(p)
  BY <1>14 DEF Lock
<1>15. CASE AssertHistory(p)
  BY <1>15 DEF AssertHistory
<1>16. CASE AssertPublication(p)
  BY <1>16 DEF AssertPublication
<1>17. CASE Link(p)
  BY <1>17 DEF Link
<1>18. CASE Unlink(p)
  BY <1>18 DEF Unlink
<1>19. CASE Readback(p)
  BY <1>19 DEF Readback
<1>20. CASE PublicationFails(p)
  BY <1>20 DEF PublicationFails
<1>21. CASE FinalRead(p)
  BY <1>21 DEF FinalRead
<1>22. CASE Intent(p)
  BY <1>22 DEF Intent
<1>23. CASE Persist(p, "execution", "analysis") \/ Persist(p, "analysis", "finalize")
  BY <1>23 DEF Persist
<1>24. CASE WriteTorn(p)
  BY <1>24 DEF WriteTorn
<1>25. CASE Finalize(p)
  BY <1>25 DEF Finalize
<1>26. CASE Done(p)
  BY <1>26 DEF Done
<1>27. CASE PreparationFails(p)
  BY <1>27 DEF PreparationFails
<1>28. CASE Crash(p)
  BY <1>28 DEF Crash
<1> QED
  BY <1>1, <1>2, <1>3, <1>4, <1>5, <1>6, <1>7, <1>8, <1>9, <1>10, <1>11, <1>12, <1>13, <1>14, <1>15, <1>16,
     <1>17, <1>18, <1>19, <1>20, <1>21, <1>22, <1>23, <1>24, <1>25, <1>26, <1>27, <1>28
  DEF Step, Publication, Finalization

-----------------------------------------------------------------------------
(* The types.                                                              *)

LEMMA InitInv == ClockUnbounded /\ Init => IInv
<1> SUFFICES ASSUME ClockUnbounded, Init PROVE IInv
  OBVIOUS
<1>1. /\ NoCheckpoint \in Checkpoints /\ NoCheckpoint.generation = 0
      /\ \A i \in UnitIndex : NoCheckpoint.units[i].epochs = <<>>
  BY CreatedTyped DEF ClockUnbounded
<1>2. /\ NoIntent \in Intents /\ NoIntent.mode = "resume" /\ 0 \in 0..CaseOf(N)
  BY NAssumption DEF NoIntent, Intents, Modes, NoAuthorization, Authorizations, CaseOf
<1>3. TypeOK
  <2>1. /\ committed \in Checkpoints /\ used \in BOOLEAN /\ marker \in Procs \cup {NoProc}
        /\ writer \in Procs \cup {NoProc} /\ temps \subseteq Procs /\ invoked \subseteq Invocations
        /\ family \in [Files -> Nat \cup {Absent, Torn}]
    BY <1>1 DEF Init
  <2>2. pc \in [Procs -> {"idle", "acquire", "checkWriter", "release"} \cup Working]
    BY DEF Init
  <2>3. intent \in [Procs -> Intents] /\ observed \in [Procs -> Nat]
    BY <1>2 DEF Init
  <2>4. seen \in [Procs -> Checkpoints] /\ next \in [Procs -> Checkpoints]
    BY <1>1 DEF Init
  <2>5. then \in [Procs -> Working] /\ case \in [Procs -> 0..CaseOf(N)] /\ attempt \in [Procs -> 0..3]
    BY <1>2 DEF Init, Working
  <2>6. evidence \in [Procs -> Reasons] /\ outcome \in [Procs -> Outcomes]
    BY DEF Init, Reasons, Outcomes
  <2>7. runs \in 0..MaxRuns /\ run \in [Procs -> 0..MaxRuns]
    BY RunsAssumption DEF Init
  <2> QED
    BY <2>1, <2>2, <2>3, <2>4, <2>5, <2>6, <2>7 DEF TypeOK
<1>4. \A p \in Procs : Local(p)
  BY <1>2 DEF Init, Local, Starting, Working, Publishing, Calling
<1>5. \A p \in Procs : View(p)
  BY <1>1 DEF Init, View, Calling
<1> QED
  BY <1>1, <1>3, <1>4, <1>5 DEF Init, IInv, RunInv, WriterInv, Grounded, Ordered, InvocationClaimed, Locked

\* The first unit of a checkpoint that is not all completed.
LEMMA FirstUnitTyped ==
  ASSUME NEW cp, Uncompleted(cp) # {}
  PROVE  FirstUnit(cp) \in UnitIndex /\ CaseOf(FirstUnit(cp)) \in 0..CaseOf(N)
<1>1. FirstUnit(cp) \in UnitIndex
  BY FirstUnitIsFirst DEF Uncompleted
<1> QED
  BY <1>1, NAssumption DEF UnitIndex, CaseOf

\* What each process has keeps its type when one process changes its own.
LEMMA Typed ==
  ASSUME TypeOK, NEW p \in Procs
  PROVE  /\ seen[p] \in Checkpoints /\ next[p] \in Checkpoints /\ intent[p] \in Intents
         /\ intent[p].authorization \in Authorizations /\ intent[p].mode \in Modes
         /\ evidence[p] \in Reasons /\ committed \in Checkpoints /\ run[p] \in 0..MaxRuns
         /\ committed.generation \in Nat /\ seen[p].generation \in Nat /\ next[p].generation \in Nat
         /\ attempt[p] \in 0..3 /\ observed[p] \in Nat
BY DEF TypeOK, Intents, Checkpoints

LEMMA OfferedTyped ==
  ASSUME TypeOK, NEW offer \in Offered
  PROVE  /\ offer \in Intents
         /\ offer.mode = "continue" => offer.authorization.generation = committed.generation
<1>1. committed.generation \in Nat /\ UnitIndex \subseteq Nat
  BY NAssumption DEF TypeOK, Checkpoints, UnitIndex
<1>2. \A mode \in Modes, a \in Authorizations : \A x \in With(mode, a) : x \in Intents /\ x.mode = mode /\ x.authorization = a
  BY DEF With, Intents
<1>3. NoAuthorization \in Authorizations
  BY DEF NoAuthorization, Authorizations
<1>4. [generation : {committed.generation}, unit : UnitIndex] \subseteq Authorizations
  BY <1>1 DEF Authorizations
<1>5. CASE offer \in With("new", NoAuthorization) \cup With("resume", NoAuthorization)
  BY <1>2, <1>3, <1>5 DEF Modes
<1>6. CASE \E a \in [generation : {committed.generation}, unit : UnitIndex] : offer \in With("continue", a)
  BY <1>2, <1>4, <1>6 DEF Modes
<1>7. offer \in With("new", NoAuthorization) \cup With("resume", NoAuthorization)
      \/ \E a \in [generation : {committed.generation}, unit : UnitIndex] : offer \in With("continue", a)
  BY DEF Offered
<1> QED
  BY <1>5, <1>6, <1>7

\* A process publishes what the command under way in it makes of what it knows.
Publishes(p) ==
  \E new, continuation :
    Publish(p, new, continuation) /\ Made(seen[p], new, continuation, run[p], intent[p].authorization, evidence[p])

LEMMA FirstReadCases ==
  ASSUME IInv, NEW p \in Procs, FirstRead(p)
  PROVE  \/ Publishes(p) /\ UNCHANGED seen
         \/ Fails(p) /\ UNCHANGED <<next, then>> /\ seen' \in {seen, [seen EXCEPT ![p] = committed]}
         \/ /\ seen' = [seen EXCEPT ![p] = committed] /\ Goto(p, "queue") /\ UNCHANGED <<next, then, outcome>>
            /\ committed # NoCheckpoint
            /\ intent[p].mode = "continue" => intent[p].authorization.generation = committed.generation
<1>1. seen[p] = NoCheckpoint
  BY DEF IInv, Local, Starting, FirstRead
<1>2. ASSUME Publish(p, Created(1), "queue") PROVE Publishes(p)
  BY <1>1, <1>2 DEF Publishes, Made
<1>3. ASSUME ValidLimitAuthorization(intent[p].authorization, committed, FirstUnit(committed))
      PROVE  intent[p].authorization.generation = committed.generation
  BY <1>3 DEF ValidLimitAuthorization
<1>4. CASE ~Reads(p)
  BY <1>4 DEF FirstRead
<1>5. CASE Reads(p) /\ intent[p].mode = "new"
  BY <1>2, <1>5 DEF FirstRead
<1>6. CASE Reads(p) /\ intent[p].mode # "new"
  BY <1>3, <1>6 DEF FirstRead
<1> QED
  BY <1>4, <1>5, <1>6

LEMMA PublishingSteps ==
  ASSUME IInv, NEW p \in Procs, ReserveUnit(p) \/ Contexts(p) \/ Settle(p) \/ Finalize(p)
  PROVE  \/ Publishes(p)
         \/ Fails(p) /\ UNCHANGED <<next, then>>
         \/ Goto(p, "done") /\ UNCHANGED <<next, then, outcome>>
<1> DEFINE i == FirstUnit(seen[p])
<1>1. Local(p)
  BY DEF IInv
<1>2. CASE ReserveUnit(p)
  <2> SUFFICES ASSUME committed = seen[p], MayReserve(committed, i, intent[p].authorization),
                      Publish(p, Reserved(committed, i, run[p], intent[p].authorization, committed.generation + 1), "contexts")
               PROVE  Publishes(p)
    BY <1>2 DEF ReserveUnit
  <2>1. i \in UnitIndex /\ seen[p].generation >= 1
    BY <1>1, <1>2 DEF Local, ReserveUnit, Working, Publishing
  <2> QED
    BY <2>1 DEF Publishes, Made
<1>3. CASE Contexts(p)
  <2>1. Held(seen[p], i, run[p], "reserved") /\ seen[p].generation >= 1
    BY <1>1, <1>3 DEF Local, Contexts, Working, Publishing
  <2> QED
    BY <1>3, <2>1 DEF Contexts, Publishes, Made
<1>4. CASE Settle(p)
  <2>1. Held(seen[p], i, run[p], "invocation-authorized") /\ seen[p].generation >= 1
    BY <1>1, <1>4 DEF Local, Settle, Working, Publishing, Calling
  <2> QED
    BY <1>4, <2>1 DEF Settle, Publishes, Made
<1>5. CASE Finalize(p)
  <2>1. seen[p].generation >= 1
    BY <1>1, <1>5 DEF Local, Finalize, Working, Publishing
  <2> QED
    BY <1>5, <2>1 DEF Finalize, Publishes, Made
<1> QED
  BY <1>2, <1>3, <1>4, <1>5

\* What is published has the type of a checkpoint, and follows what it is made of.
LEMMA MadeTyped ==
  ASSUME ClockUnbounded, IInv, NEW p \in Procs, pc[p] # "idle",
         NEW new, NEW continuation, Made(seen[p], new, continuation, run[p], intent[p].authorization, evidence[p])
  PROVE  /\ run[p] \in EpochIds
         /\ new \in Checkpoints /\ new.generation = seen[p].generation + 1
         /\ \/ new.units = seen[p].units /\ (seen[p] = NoCheckpoint \/ seen[p].finalization = NoTime)
            \/ UnitMoves(seen[p], new, FirstUnit(seen[p])) /\ Open(seen[p], FirstUnit(seen[p]))
         /\ continuation = "queue" => new.generation = 1
         /\ continuation \in {"contexts", "claim"} => FirstUnit(new) = FirstUnit(seen[p])
         /\ continuation = "contexts" => Held(new, FirstUnit(new), run[p], "reserved")
         /\ continuation = "claim" => Held(new, FirstUnit(new), run[p], "invocation-authorized")
         /\ continuation \in {"queue", "contexts", "claim", "settled", "done"}
<1>1. /\ seen[p] \in Checkpoints /\ intent[p].authorization \in Authorizations /\ evidence[p] \in Reasons
      /\ run[p] \in 0..MaxRuns /\ runs \in 0..MaxRuns
  BY Typed DEF IInv, TypeOK
<1>2. run[p] \in EpochIds
  BY <1>1, RunsAssumption DEF IInv, RunInv
<1>3. seen[p] = NoCheckpoint \/ ValidCheckpoint(seen[p])
  BY DEF IInv, View
<1> QED
  BY <1>1, <1>2, <1>3, MadeMoves

\* A step changes at most what its own process has.
LEMMA TypeStep ==
  ASSUME ClockUnbounded, IInv, [Next]_vars
  PROVE  TypeOK'
<1>0. TypeOK /\ Shaped
  BY TypeOKShaped DEF IInv
<1> DEFINE Steps == {"idle", "acquire", "checkWriter", "release"} \cup Working
           RootTyped == /\ committed \in Checkpoints /\ used \in BOOLEAN
                        /\ marker \in Procs \cup {NoProc} /\ writer \in Procs \cup {NoProc} /\ temps \subseteq Procs
                        /\ family \in [Files -> Nat \cup {Absent, Torn}]
                        /\ invoked \subseteq Invocations
           CommandTyped == /\ intent \in [Procs -> Intents] /\ observed \in [Procs -> Nat]
                           /\ runs \in 0..MaxRuns /\ run \in [Procs -> 0..MaxRuns]
           PlaceTyped == pc \in [Procs -> Steps] /\ outcome \in [Procs -> Outcomes]
           WorkTyped == /\ seen \in [Procs -> Checkpoints] /\ next \in [Procs -> Checkpoints]
                        /\ then \in [Procs -> Working] /\ case \in [Procs -> 0..CaseOf(N)]
                        /\ attempt \in [Procs -> 0..3] /\ evidence \in [Procs -> Reasons]
<1>1. RootTyped /\ CommandTyped /\ PlaceTyped /\ WorkTyped
  BY <1>0 DEF TypeOK
<1>2. SUFFICES RootTyped' /\ CommandTyped' /\ PlaceTyped' /\ WorkTyped'
  BY DEF TypeOK
<1>3. /\ NoCheckpoint \in Checkpoints /\ NoIntent \in Intents /\ 0 \in 0..CaseOf(N)
  BY CreatedTyped, NAssumption
  DEF ClockUnbounded, NoIntent, Intents, Modes, NoAuthorization, Authorizations, CaseOf
<1>4. ASSUME NEW p \in Procs, Return(p), outcome' \in [Procs -> Outcomes]
      PROVE  CommandTyped' /\ PlaceTyped' /\ WorkTyped'
  BY <1>1, <1>3, <1>4, RunsAssumption DEF Return, Goto, Reasons, Working
<1>5. ASSUME NEW p \in Procs, NEW how \in Outcomes, Ends(p, how)
      PROVE  PlaceTyped'
  BY <1>1, <1>5 DEF Ends, Goto
<1>6. ASSUME NEW p \in Procs, NEW step \in Steps, Goto(p, step), UNCHANGED outcome
      PROVE  PlaceTyped'
  BY <1>1, <1>6 DEF Goto
<1>7. ASSUME NEW p \in Procs, pc[p] # "idle", Publishes(p)
      PROVE  PlaceTyped' /\ next' \in [Procs -> Checkpoints] /\ then' \in [Procs -> Working]
  <2>1. PICK new, continuation :
          Publish(p, new, continuation) /\ Made(seen[p], new, continuation, run[p], intent[p].authorization, evidence[p])
    BY <1>7 DEF Publishes
  <2>2. new \in Checkpoints /\ continuation \in Working
    BY <1>7, <2>1, MadeTyped DEF Working
  <2> QED
    BY <1>1, <2>1, <2>2 DEF Publish, Goto, Working, Publishing
<1>8. "failed" \in Outcomes /\ "blocked" \in Outcomes
  BY DEF Outcomes
<1> USE DEF Fails, root, locals
<1> HIDE DEF PlaceTyped, RootTyped
<1>10. CASE UNCHANGED vars
  BY <1>1, <1>10 DEF vars, PlaceTyped, RootTyped
<1>11. CASE RemoveMarker \/ ClearPublication
  BY <1>1, <1>11 DEF RemoveMarker, ClearPublication, PlaceTyped, RootTyped
<1>12. ASSUME NEW p \in Procs, Command(p) \/ Acquire(p) \/ CheckWriter(p) \/ Release(p) \/ Crash(p)
       PROVE  RootTyped' /\ CommandTyped' /\ PlaceTyped' /\ WorkTyped'
  <2>1. CASE Command(p)
    <3>1. RootTyped' /\ WorkTyped'
      BY <1>1, <2>1 DEF Command, RootTyped
    <3>2. CommandTyped'
      <4>1. PICK offer \in Offered : intent' = [intent EXCEPT ![p] = offer]
        BY <2>1 DEF Command
      <4>2. offer \in Intents
        BY <1>0, OfferedTyped
      <4>3. runs + 1 \in 0..MaxRuns
        BY <1>1, <2>1, RunsAssumption DEF Command
      <4>4. committed.generation \in Nat
        BY <1>1 DEF RootTyped, Checkpoints
      <4> QED
        BY <1>1, <2>1, <4>1, <4>2, <4>3, <4>4 DEF Command
    <3>3. PlaceTyped'
      BY <1>1, <2>1 DEF Command, PlaceTyped, Goto, Outcomes
    <3> QED
      BY <3>1, <3>2, <3>3
  <2>2. CASE Acquire(p)
    <3>1. RootTyped'
      BY <1>1, <2>2 DEF Acquire, RootTyped
    <3>2. CASE Goto(p, "checkWriter") /\ UNCHANGED <<locals, outcome>>
      BY <1>1, <1>6, <3>1, <3>2
    <3>3. CASE Return(p) /\ outcome' = [outcome EXCEPT ![p] = "failed"]
      BY <1>1, <1>4, <1>8, <3>1, <3>3 DEF PlaceTyped
    <3> QED
      BY <2>2, <3>2, <3>3 DEF Acquire
  <2>3. CASE CheckWriter(p)
    <3>1. RootTyped'
      BY <1>1, <2>3 DEF CheckWriter, RootTyped
    <3>2. CASE Goto(p, "firstRead") /\ UNCHANGED <<locals, outcome>>
      BY <1>1, <1>6, <3>1, <3>2 DEF Working
    <3>3. CASE Return(p) /\ outcome' = [outcome EXCEPT ![p] = "failed"]
      BY <1>1, <1>4, <1>8, <3>1, <3>3 DEF PlaceTyped
    <3> QED
      BY <2>3, <3>2, <3>3 DEF CheckWriter
  <2>4. CASE Release(p)
    <3>1. RootTyped' /\ outcome' \in [Procs -> Outcomes] /\ Return(p)
      BY <1>1, <2>4 DEF Release, RootTyped, PlaceTyped
    <3> QED
      BY <1>4, <3>1
  <2>5. CASE Crash(p)
    <3>1. RootTyped' /\ outcome' \in [Procs -> Outcomes] /\ Return(p)
      BY <1>1, <2>5 DEF Crash, RootTyped, PlaceTyped
    <3> QED
      BY <1>4, <3>1
  <2> QED
    BY <1>12, <2>1, <2>2, <2>3, <2>4, <2>5
<1>13. ASSUME NEW p \in Procs, FirstRead(p) \/ ReserveUnit(p) \/ Contexts(p) \/ Settle(p) \/ Finalize(p)
       PROVE  RootTyped' /\ CommandTyped' /\ PlaceTyped' /\ WorkTyped'
  <2>1. pc[p] # "idle"
    BY <1>13 DEF FirstRead, ReserveUnit, Contexts, Settle, Finalize
  <2>2. UNCHANGED <<root, intent, observed, case, attempt, evidence, run, runs, invoked>>
    BY <1>13 DEF FirstRead, ReserveUnit, Contexts, Settle, Finalize
  <2>3. RootTyped' /\ CommandTyped'
    BY <1>1, <2>2 DEF RootTyped
  <2>4. seen' \in [Procs -> Checkpoints]
    <3>1. seen' \in {seen, [seen EXCEPT ![p] = committed]}
      BY <1>13, FirstReadCases DEF ReserveUnit, Contexts, Settle, Finalize
    <3> QED
      BY <1>1, <3>1 DEF RootTyped
  <2>5. PlaceTyped' /\ next' \in [Procs -> Checkpoints] /\ then' \in [Procs -> Working]
    <3>1. CASE Publishes(p)
      BY <1>7, <2>1, <3>1
    <3>2. CASE Fails(p) /\ UNCHANGED <<next, then>>
      BY <1>1, <1>5, <1>8, <3>2
    <3>3. CASE (Goto(p, "done") \/ Goto(p, "queue")) /\ UNCHANGED <<next, then, outcome>>
      BY <1>1, <1>6, <3>3 DEF Working
    <3> QED
      BY <1>13, <3>1, <3>2, <3>3, FirstReadCases, PublishingSteps
  <2> QED
    BY <1>1, <2>2, <2>3, <2>4, <2>5
<1>14. ASSUME NEW p \in Procs, Queue(p) \/ Claim(p) \/ Attempt(p) \/ Invoke(p) \/ Settled(p)
       PROVE  RootTyped' /\ CommandTyped' /\ PlaceTyped' /\ WorkTyped'
  <2> DEFINE i == FirstUnit(seen[p])
  <2>0. /\ "queue" \in Steps /\ "reserve" \in Steps /\ "attempt" \in Steps /\ "invoke" \in Steps
        /\ "settle" \in Steps /\ "finalRead" \in Steps /\ "partial" \in Outcomes
    BY DEF Working, Outcomes
  <2>1. CASE Queue(p)
    <3>1. RootTyped' /\ CommandTyped'
      BY <1>1, <2>1 DEF Queue, RootTyped
    <3>2. PlaceTyped'
      BY <1>5, <1>6, <1>8, <2>0, <2>1 DEF Queue
    <3>3. case' \in [Procs -> 0..CaseOf(N)]
      <4>1. UNCHANGED case \/ (case' = [case EXCEPT ![p] = CaseOf(i)] /\ Uncompleted(seen[p]) # {})
        BY <2>1 DEF Queue
      <4> QED
        BY <1>1, <4>1, FirstUnitTyped
    <3> QED
      BY <1>1, <2>1, <3>1, <3>2, <3>3 DEF Queue
  <2>2. CASE Claim(p)
    <3>1. RootTyped' /\ CommandTyped'
      BY <1>1, <2>2 DEF Claim, RootTyped
    <3>2. PlaceTyped'
      BY <1>5, <1>6, <1>8, <2>0, <2>2 DEF Claim
    <3> QED
      BY <1>1, <2>2, <3>1, <3>2 DEF Claim
  <2>3. CASE Attempt(p)
    <3>1. RootTyped' /\ CommandTyped'
      BY <1>1, <2>3 DEF Attempt, RootTyped
    <3>2. PlaceTyped'
      BY <1>6, <2>0, <2>3 DEF Attempt, Concludes
    <3> QED
      BY <1>1, <2>3, <3>1, <3>2 DEF Attempt, Concludes, Reasons
  <2>4. CASE Invoke(p)
    <3>1. /\ Held(seen[p], i, run[p], "invocation-authorized") /\ attempt[p] \in 1..(1 + RepairAttempts)
          /\ run[p] \in 1..runs /\ ValidCheckpoint(seen[p])
      BY <2>4, CreatedTyped DEF Invoke, IInv, Local, View, RunInv, Calling, Held, ClockUnbounded
    <3>2. i \in UnitIndex /\ Len(seen[p].units[i].epochs) \in {1, 2}
      <4>1. i \in UnitIndex /\ seen[p].units[i].epochs # <<>> /\ Len(seen[p].units[i].epochs) <= 2
        BY <3>1 DEF Held, ValidCheckpoint, ValidUnit
      <4>2. seen[p].units[i].epochs \in Seq(Epochs)
        BY <1>1, <4>1 DEF Checkpoints, Units
      <4>3. Len(seen[p].units[i].epochs) \in Nat /\ Len(seen[p].units[i].epochs) # 0
        BY <4>1, <4>2
      <4>4. \A n \in Nat : n # 0 /\ n <= 2 => n \in {1, 2}
        OBVIOUS
      <4> QED
        BY <4>1, <4>3, <4>4
    <3>3. [unit |-> i, epoch |-> Len(seen[p].units[i].epochs), attempt |-> attempt[p], run |-> run[p]] \in Invocations
      BY <1>1, <3>1, <3>2, RepairAssumption, RunsAssumption DEF Invocations
    <3>4. RootTyped' /\ CommandTyped'
      BY <1>1, <2>4, <3>3 DEF Invoke, RootTyped
    <3>5. PlaceTyped'
      BY <1>6, <2>0, <2>4 DEF Invoke, Concludes
    <3>6. attempt' \in [Procs -> 0..3]
      <4>1. attempt[p] \in 0..3 /\ (attempt[p] <= RepairAttempts => attempt[p] + 1 \in 0..3)
        BY <1>1, RepairAssumption
      <4> QED
        BY <1>1, <2>4, <4>1 DEF Invoke
    <3> QED
      BY <1>1, <2>4, <3>4, <3>5, <3>6 DEF Invoke, Concludes
  <2>5. CASE Settled(p)
    <3>1. RootTyped' /\ WorkTyped'
      BY <1>1, <2>5 DEF Settled, RootTyped
    <3>2. PlaceTyped'
      BY <1>5, <1>6, <1>8, <2>0, <2>5 DEF Settled
    <3>3. [intent[p] EXCEPT !.authorization = NoAuthorization] \in Intents
      BY <1>1 DEF Intents, NoAuthorization, Authorizations
    <3> QED
      BY <1>1, <2>5, <3>1, <3>2, <3>3 DEF Settled
  <2> QED
    BY <1>14, <2>1, <2>2, <2>3, <2>4, <2>5
<1>15. ASSUME NEW p \in Procs, Publication(p)
       PROVE  RootTyped' /\ CommandTyped' /\ PlaceTyped' /\ WorkTyped'
  <2>0. /\ "assert" \in Steps /\ "assertPublication" \in Steps /\ "link" \in Steps /\ "unlink" \in Steps
        /\ "readback" \in Steps /\ next[p] \in Checkpoints /\ then[p] \in Steps
    BY <1>1 DEF Working, Publishing
  <2>1. CommandTyped'
    BY <1>1, <1>15 DEF Publication, Lock, AssertHistory, AssertPublication, Link, Unlink, Readback, PublicationFails
  <2>2. RootTyped'
    BY <1>1, <2>0, <1>15
    DEF Publication, Lock, AssertHistory, AssertPublication, Link, Unlink, Readback, PublicationFails, RootTyped
  <2>3. PlaceTyped'
    BY <1>5, <1>6, <1>8, <2>0, <1>15
    DEF Publication, Lock, AssertHistory, AssertPublication, Link, Unlink, Readback, PublicationFails
  <2>4. WorkTyped'
    BY <1>1, <2>0, <1>15
    DEF Publication, Lock, AssertHistory, AssertPublication, Link, Unlink, Readback, PublicationFails
  <2> QED
    BY <2>1, <2>2, <2>3, <2>4
<1>16. ASSUME NEW p \in Procs, FinalRead(p) \/ Intent(p) \/ WriteTorn(p) \/ Done(p) \/ PreparationFails(p)
                                 \/ Persist(p, "execution", "analysis") \/ Persist(p, "analysis", "finalize")
       PROVE  RootTyped' /\ CommandTyped' /\ PlaceTyped' /\ WorkTyped'
  <2>0. /\ "intent" \in Steps /\ "execution" \in Steps /\ "analysis" \in Steps /\ "finalize" \in Steps
        /\ "completed" \in Outcomes /\ "FINAL_OWNER_MISMATCH" \in Outcomes /\ "ARTIFACT_INTEGRITY" \in Outcomes
    BY DEF Working, Outcomes
  <2>1. CommandTyped'
    BY <1>1, <1>16 DEF FinalRead, Intent, WriteTorn, Done, PreparationFails, Persist
  <2>2. PlaceTyped'
    BY <1>5, <1>6, <1>8, <2>0, <1>16 DEF FinalRead, Intent, WriteTorn, Done, PreparationFails, Persist
  <2>3. WorkTyped'
    BY <1>1, <1>16 DEF FinalRead, Intent, WriteTorn, Done, PreparationFails, Persist, RootTyped
  <2>4. RootTyped'
    <3>1. ASSUME pc[p] \in Files PROVE CompletedAt(seen[p]) \in Nat
      <4>1. seen[p].generation >= 1 /\ (seen[p] = NoCheckpoint \/ ValidCheckpoint(seen[p]))
        BY <3>1 DEF IInv, Local, View, Files, Working, Publishing
      <4>2. ValidCheckpoint(seen[p])
        BY <4>1 DEF NoCheckpoint
      <4> QED
        BY <1>1, <4>2, CompletedAtTyped, TimesAssumption
    <3>2. family' \in [Files -> Nat \cup {Absent, Torn}]
      BY <1>1, <3>1, <1>16
      DEF FinalRead, Intent, WriteTorn, Done, PreparationFails, Persist, RootTyped, Files
    <3> QED
      BY <1>1, <3>2, <1>16 DEF FinalRead, Intent, WriteTorn, Done, PreparationFails, Persist, RootTyped
  <2> QED
    BY <2>1, <2>2, <2>3, <2>4
<1> QED
  BY <1>10, <1>11, <1>12, <1>13, <1>14, <1>15, <1>16 DEF Next, Step, Publication, Finalization

-----------------------------------------------------------------------------
(* Each action keeps Local for the process that takes it.                  *)

LEMMA CommandStep ==
  ASSUME IInv, NEW p \in Procs, Command(p)
  PROVE  /\ Local(p)' /\ Alone(p) /\ UNCHANGED <<root, invoked, seen>>
         /\ pc[p] = "idle" /\ pc'[p] = "acquire" /\ runs' = runs + 1 /\ run'[p] = runs + 1
<1>1. TypeOK /\ Shaped /\ Local(p)
  BY TypeOKShaped DEF IInv
<1>2. PICK offer \in Offered : intent' = [intent EXCEPT ![p] = offer]
  BY DEF Command
<1>3. offer.mode = "continue" => offer.authorization.generation = committed.generation
  BY <1>1, OfferedTyped
<1>4. /\ pc[p] = "idle" /\ pc'[p] = "acquire" /\ runs' = runs + 1 /\ run'[p] = runs + 1
      /\ intent'[p] = offer /\ observed'[p] = committed.generation /\ seen' = seen
  BY <1>1, <1>2 DEF Command, Goto, Shaped
<1>5. Local(p)'
  BY <1>1, <1>3, <1>4 DEF Local, Starting, Working, Publishing, Calling
<1> QED
  BY <1>1, <1>4, <1>5, ActsAlone DEF Command

\* What a step of a command under way does to its own process.
OwnStep(p) ==
  /\ Local(p)' /\ runs' = runs /\ pc[p] # "idle"
  /\ pc'[p] # "idle" => run'[p] = run[p]

LEMMA LocalStep ==
  ASSUME ClockUnbounded, IInv, NEW p \in Procs, Step(p) \/ Crash(p)
  PROVE  OwnStep(p)
<1>0. Shaped /\ Local(p)
  BY TypeOKShaped DEF IInv
<1> DEFINE i == FirstUnit(seen[p])
<1> USE DEF root, locals
\* Where Local says nothing, or no more than before.
<1>1. ASSUME Return(p), pc[p] # "idle" PROVE OwnStep(p)
  BY <1>0, <1>1 DEF Return, Goto, Shaped, OwnStep, Local, Starting, Working, Publishing, Calling, NoIntent
<1>2. ASSUME NEW how, Ends(p, how), pc[p] # "idle", runs' = runs, run' = run PROVE OwnStep(p)
  BY <1>0, <1>2 DEF Ends, Goto, Shaped, OwnStep, Local, Starting, Working, Publishing, Calling
<1>3. ASSUME Fails(p), pc[p] # "idle", runs' = runs, run' = run PROVE OwnStep(p)
  BY <1>2, <1>3 DEF Fails
<1>4. ASSUME NEW step \in {"queue", "finalRead", "intent", "execution", "analysis", "finalize", "settled", "done"},
             Goto(p, step), pc[p] # "idle", runs' = runs, run' = run, seen'[p].generation >= 1
      PROVE  OwnStep(p)
  BY <1>0, <1>4 DEF Goto, Shaped, OwnStep, Local, Starting, Working, Publishing, Calling
<1>5. ASSUME NEW step \in Publishing, Goto(p, step), pc[p] \in Publishing, ValidCheckpoint(next[p]),
             UNCHANGED locals
      PROVE  OwnStep(p)
  BY <1>0, <1>5 DEF Goto, Shaped, OwnStep, Local, Starting, Working, Publishing, Calling
<1>6. ASSUME Publishes(p), pc[p] # "idle", UNCHANGED <<seen, run, runs, intent, evidence>>
      PROVE  OwnStep(p)
  <2>1. PICK new, continuation :
          Publish(p, new, continuation) /\ Made(seen[p], new, continuation, run[p], intent[p].authorization, evidence[p])
    BY <1>6 DEF Publishes
  <2>2. pc'[p] = "lock" /\ next'[p] = new /\ then'[p] = continuation
    BY <1>0, <2>1 DEF Publish, Goto, Shaped
  <2> QED
    BY <1>6, <2>1, <2>2 DEF OwnStep, Local, Starting, Working, Publishing, Calling
<1>7. CASE Acquire(p) \/ CheckWriter(p)
  <2>1. CASE Return(p)
    BY <1>1, <1>7, <2>1 DEF Acquire, CheckWriter
  <2>2. CASE (Goto(p, "checkWriter") \/ Goto(p, "firstRead")) /\ UNCHANGED <<locals, outcome>>
    BY <1>0, <1>7, <2>2
    DEF Acquire, CheckWriter, Goto, Shaped, OwnStep, Local, Starting, Working, Publishing, Calling
  <2> QED
    BY <1>7, <2>1, <2>2 DEF Acquire, CheckWriter
<1>8. CASE Release(p) \/ Crash(p)
  BY <1>1, <1>8 DEF Release, Crash
<1>9. CASE FirstRead(p) \/ ReserveUnit(p) \/ Contexts(p) \/ Settle(p) \/ Finalize(p)
  <2>1. pc[p] # "idle" /\ UNCHANGED <<intent, evidence, run, runs>>
    BY <1>9 DEF FirstRead, ReserveUnit, Contexts, Settle, Finalize
  <2>2. CASE Publishes(p) /\ UNCHANGED seen
    BY <1>6, <2>1, <2>2
  <2>3. CASE Fails(p)
    BY <1>3, <2>1, <2>3
  <2>4. CASE FirstRead(p) /\ seen' = [seen EXCEPT ![p] = committed] /\ Goto(p, "queue") /\ committed # NoCheckpoint
    <3>1. committed.generation >= 1
      BY <2>4 DEF IInv, Grounded, ValidCheckpoint
    <3>2. seen'[p].generation >= 1
      BY <1>0, <2>4, <3>1 DEF Shaped
    <3> QED
      BY <1>4, <2>1, <2>4, <3>2
  <2>5. CASE Goto(p, "done")
    BY <1>0, <2>1, <2>5 DEF Goto, Shaped, OwnStep, Local, Starting, Working, Publishing, Calling
  <2>6. ReserveUnit(p) \/ Contexts(p) \/ Settle(p) \/ Finalize(p) => UNCHANGED seen
    BY DEF ReserveUnit, Contexts, Settle, Finalize
  <2> QED
    BY <1>9, <2>2, <2>3, <2>4, <2>5, <2>6, FirstReadCases, PublishingSteps
<1>10. CASE Queue(p)
  <2>1. seen[p].generation >= 1 /\ UNCHANGED <<seen, run, runs, intent, attempt>> /\ pc[p] = "queue"
    BY <1>0, <1>10 DEF Queue, Local, Working, Publishing
  <2>2. CASE Goto(p, "finalRead")
    BY <1>4, <2>1, <2>2
  <2>3. CASE Ends(p, "partial") \/ Ends(p, "blocked")
    BY <1>2, <2>1, <2>3
  <2>4. CASE Uncompleted(seen[p]) # {} /\ Goto(p, "reserve")
    BY <1>0, <2>1, <2>4, FirstUnitTyped
    DEF Goto, Shaped, OwnStep, Local, Starting, Working, Publishing, Calling
  <2> QED
    BY <1>10, <2>2, <2>3, <2>4 DEF Queue
<1>11. CASE Claim(p)
  <2>1. CASE Fails(p)
    BY <1>3, <1>11, <2>1 DEF Claim
  <2>2. CASE attempt' = [attempt EXCEPT ![p] = 1] /\ Goto(p, "attempt")
    BY <1>0, <1>11, <2>2, RepairAssumption
    DEF Claim, Goto, Shaped, OwnStep, Local, Starting, Working, Publishing, Calling
  <2> QED
    BY <1>11, <2>1, <2>2 DEF Claim
<1>12. CASE Attempt(p)
  BY <1>0, <1>12 DEF Attempt, Concludes, Goto, Shaped, OwnStep, Local, Starting, Working, Publishing, Calling
<1>13. CASE Invoke(p)
  <2>1. CASE \E reason \in Reasons : Concludes(p, reason)
    BY <1>0, <1>13, <2>1
    DEF Invoke, Concludes, Goto, Shaped, OwnStep, Local, Starting, Working, Publishing, Calling
  <2>2. CASE attempt[p] <= RepairAttempts /\ attempt' = [attempt EXCEPT ![p] = @ + 1] /\ Goto(p, "attempt")
    BY <1>0, <1>13, <2>2, RepairAssumption
    DEF Invoke, Goto, Shaped, OwnStep, Local, Starting, Working, Publishing, Calling
  <2> QED
    BY <1>13, <2>1, <2>2 DEF Invoke
<1>14. CASE Settled(p)
  <2>1. seen'[p].generation >= 1 /\ runs' = runs /\ run' = run /\ pc[p] = "settled"
    BY <1>0, <1>14 DEF Settled, Local, Working, Publishing
  <2> QED
    BY <1>2, <1>4, <1>14, <2>1 DEF Settled
<1>15. CASE Publication(p)
  <2>1. pc[p] \in Publishing /\ runs' = runs /\ run' = run
    BY <1>15 DEF Publication, Lock, AssertHistory, AssertPublication, Link, Unlink, Readback, PublicationFails, Publishing
  <2>2. CASE Fails(p)
    BY <1>3, <2>1, <2>2 DEF Publishing
  <2>3. CASE Readback(p) /\ committed = next[p] /\ seen' = [seen EXCEPT ![p] = next[p]] /\ Goto(p, then[p])
    <3>1. /\ next[p].generation = seen[p].generation + 1 /\ seen[p].generation \in Nat
          /\ then[p] = "contexts" => Held(next[p], FirstUnit(next[p]), run[p], "reserved")
          /\ then[p] = "claim" => Held(next[p], FirstUnit(next[p]), run[p], "invocation-authorized")
          /\ then[p] \in {"queue", "contexts", "claim", "settled", "done"}
      BY <1>0, <2>1, MadeTyped, Typed DEF Local, Publishing, IInv
    <3>2. next[p].generation >= 1
      BY <3>1
    <3>3. seen'[p] = next[p] /\ pc'[p] = then[p]
      BY <1>0, <2>3 DEF Shaped, Goto
    <3> QED
      BY <2>1, <3>1, <3>2, <3>3 DEF OwnStep, Local, Starting, Working, Publishing, Calling
  <2>4. CASE ~Fails(p) /\ ~Readback(p)
    <3>1. PICK step \in Publishing : Goto(p, step) /\ UNCHANGED locals
      BY <1>15, <2>4 DEF Publication, Lock, AssertHistory, AssertPublication, Link, Unlink, PublicationFails, Publishing
    <3>2. ValidCheckpoint(next[p])
      BY <1>0, <1>15, <2>4
      DEF Local, Publication, Lock, AssertHistory, AssertPublication, Link, Unlink, PublicationFails, Publishing
    <3> QED
      BY <1>5, <2>1, <3>1, <3>2
  <2> QED
    BY <2>2, <2>3, <2>4 DEF Readback
<1>16. CASE \/ FinalRead(p) \/ Intent(p) \/ Persist(p, "execution", "analysis") \/ Persist(p, "analysis", "finalize")
            \/ WriteTorn(p) \/ Done(p)
  <2>1. pc[p] # "idle" /\ runs' = runs /\ run' = run
    BY <1>16 DEF FinalRead, Intent, Persist, WriteTorn, Done, Files
  <2>2. pc[p] \in {"finalRead", "intent", "execution", "analysis"} => seen'[p].generation >= 1 \/ Fails(p)
    <3>1. pc[p] \in {"finalRead", "intent", "execution", "analysis"} => seen[p].generation >= 1
      BY <1>0 DEF Local, Working, Publishing
    <3>2. seen[p].generation \in Nat /\ committed.generation \in Nat /\ seen[p].generation <= committed.generation
      BY Typed DEF IInv, View
    <3> QED
      BY <1>0, <1>16, <3>1, <3>2 DEF FinalRead, Intent, Persist, WriteTorn, Done, Shaped
  <2> QED
    BY <1>2, <1>3, <1>4, <1>16, <2>1, <2>2 DEF FinalRead, Intent, Persist, WriteTorn, Done, Files
<1>17. CASE PreparationFails(p)
  BY <1>3, <1>17 DEF PreparationFails, Preparing
<1> QED
  BY <1>7, <1>8, <1>9, <1>10, <1>11, <1>12, <1>13, <1>14, <1>15, <1>16, <1>17 DEF Step, Finalization

LEMMA LocalOthers ==
  ASSUME NEW p \in Procs, Alone(p), NEW q \in Procs \ {p}, Local(q)
  PROVE  Local(q)'
BY DEF Alone, Local

-----------------------------------------------------------------------------
(* The shared state.                                                       *)

\* Only a link changes the newest checkpoint, and only a provider call is one.
LEMMA SharedStep ==
  ASSUME NEW p \in Procs, Step(p) \/ Crash(p)
  PROVE  /\ committed' = committed \/ (Link(p) /\ committed.generation < next[p].generation)
         /\ invoked' = invoked \/ Invoke(p)
<1> USE DEF root, locals
<1>1. CASE Crash(p) \/ Acquire(p) \/ CheckWriter(p) \/ Release(p) \/ FirstRead(p) \/ Queue(p) \/ ReserveUnit(p) \/ Contexts(p)
  BY <1>1 DEF Crash, Acquire, CheckWriter, Release, FirstRead, Queue, ReserveUnit, Contexts
<1>2. CASE Claim(p) \/ Attempt(p) \/ Invoke(p) \/ Settle(p) \/ Settled(p) \/ PreparationFails(p)
  BY <1>2 DEF Claim, Attempt, Invoke, Settle, Settled, PreparationFails
<1>3. CASE Publication(p)
  BY <1>3 DEF Publication, Lock, AssertHistory, AssertPublication, Link, Unlink, Readback, PublicationFails
<1>4. CASE Finalization(p)
  BY <1>4 DEF Finalization, FinalRead, Intent, Persist, WriteTorn, Finalize, Done
<1> QED
  BY <1>1, <1>2, <1>3, <1>4 DEF Step

\* What is linked was made of the newest checkpoint: the history check under the
\* lock accepts nothing but the next generation.
LEMMA LinkMakes ==
  ASSUME ClockUnbounded, IInv, NEW p \in Procs, Link(p), committed' # committed
  PROVE  /\ committed' = next[p] /\ pc[p] = "link" /\ pc'[p] = "unlink" /\ Alone(p)
         /\ UNCHANGED <<seen, run, writer, invoked>>
         /\ seen[p] = committed
         /\ Made(committed, next[p], then[p], run[p], intent[p].authorization, evidence[p])
         /\ ValidCheckpoint(next[p])
         /\ next[p].generation = committed.generation + 1
         /\ run[p] \in EpochIds
         /\ \/ next[p].units = committed.units /\ (committed = NoCheckpoint \/ committed.finalization = NoTime)
            \/ UnitMoves(committed, next[p], FirstUnit(committed)) /\ Open(committed, FirstUnit(committed))
<1>1. TypeOK /\ Shaped /\ Local(p) /\ View(p)
  BY TypeOKShaped DEF IInv
<1>2. committed' = next[p] /\ pc[p] = "link" /\ pc'[p] = "unlink" /\ UNCHANGED <<seen, run, writer, invoked>>
  BY <1>1 DEF Link, Goto, Shaped, locals
<1>3. Alone(p)
  BY <1>1, ActsAlone DEF Step, Publication
<1>4. Made(seen[p], next[p], then[p], run[p], intent[p].authorization, evidence[p]) /\ ValidCheckpoint(next[p])
  BY <1>1, <1>2 DEF Local, Publishing
<1>5. Successive(committed, next[p])
  BY <1>1, <1>2 DEF View
<1>6. next[p].generation = committed.generation + 1 /\ committed.generation \in Nat /\ seen[p].generation \in Nat
  BY <1>1, <1>5, Typed, SuccessiveGeneration
<1>7. /\ next[p].generation = seen[p].generation + 1 /\ run[p] \in EpochIds
      /\ \/ next[p].units = seen[p].units /\ (seen[p] = NoCheckpoint \/ seen[p].finalization = NoTime)
         \/ UnitMoves(seen[p], next[p], FirstUnit(seen[p])) /\ Open(seen[p], FirstUnit(seen[p]))
  BY <1>2, <1>4, MadeTyped
<1>8. seen[p] = committed
  BY <1>1, <1>6, <1>7 DEF View
<1> QED
  BY <1>2, <1>3, <1>4, <1>6, <1>7, <1>8

LEMMA WriterStep ==
  ASSUME IInv, NEW p \in Procs, Command(p) \/ Step(p) \/ Crash(p)
  PROVE  WriterInv'
<1>0. /\ Shaped /\ WriterInv /\ writer \in Procs \cup {NoProc}
  BY TypeOKShaped DEF IInv, TypeOK
<1>1. Alone(p)
  BY <1>0, ActsAlone
<1> USE DEF root, locals
\* Most steps leave the lock, and enter no locked place.
<1>2. ASSUME writer' = writer, pc'[p] \in Locked => pc[p] \in Locked PROVE WriterInv'
  BY <1>0, <1>1, <1>2 DEF WriterInv, Alone
\* The lock is taken when nobody has it, and given up by its owner.
<1>3. ASSUME writer = NoProc, writer' = p PROVE WriterInv'
  BY <1>0, <1>1, <1>3, NoProcAssumption DEF WriterInv, Alone
<1>4. ASSUME pc[p] \in Locked, pc'[p] \notin Locked PROVE WriterInv'
  BY <1>0, <1>1, <1>4 DEF WriterInv, Alone
<1>5. ASSUME NEW how, Ends(p, how) PROVE pc'[p] \notin Locked
  BY <1>0, <1>5 DEF Ends, Goto, Shaped, Locked
<1>6. ASSUME Return(p) PROVE pc'[p] \notin Locked
  BY <1>0, <1>6 DEF Return, Goto, Shaped, Locked
<1>7. ASSUME NEW new, NEW continuation, Publish(p, new, continuation) PROVE pc'[p] \notin Locked
  BY <1>0, <1>7 DEF Publish, Goto, Shaped, Locked
<1>8. ASSUME NEW step, step \notin Locked, Goto(p, step) PROVE pc'[p] \notin Locked
  BY <1>0, <1>8 DEF Goto, Shaped
<1> USE DEF Fails, Concludes
<1>9. CASE Lock(p)
  <2>1. CASE writer = NoProc /\ writer' = p
    BY <1>3, <2>1
  <2>2. CASE Fails(p) /\ writer' = writer
    BY <1>2, <1>5, <2>2
  <2> QED
    BY <1>9, <2>1, <2>2 DEF Lock
<1>10. CASE AssertHistory(p) \/ AssertPublication(p) \/ Link(p) \/ PublicationFails(p) \/ Unlink(p)
  <2>1. pc[p] \in Locked
    BY <1>10 DEF AssertHistory, AssertPublication, Link, PublicationFails, Unlink, Locked
  <2>2. writer' = writer \/ Fails(p) \/ Goto(p, "readback")
    BY <1>10 DEF AssertHistory, AssertPublication, Link, PublicationFails, Unlink
  <2> QED
    BY <1>2, <1>4, <1>5, <1>8, <2>1, <2>2 DEF Locked
<1>11. CASE Readback(p)
  <2>1. CASE Fails(p)
    BY <1>2, <1>5, <1>11, <2>1 DEF Readback
  <2>2. CASE Goto(p, then[p])
    <3>1. then[p] \notin Locked
      BY <1>11 DEF IInv, Local, Made, Readback, Publishing, Locked
    <3> QED
      BY <1>2, <1>8, <1>11, <2>2, <3>1 DEF Readback
  <2> QED
    BY <1>11, <2>1, <2>2 DEF Readback
<1>12. CASE Command(p) \/ Crash(p) \/ Acquire(p) \/ CheckWriter(p) \/ Release(p)
  BY <1>2, <1>5, <1>6, <1>8, <1>12 DEF Command, Crash, Acquire, CheckWriter, Release, Locked
<1>13. CASE FirstRead(p) \/ ReserveUnit(p) \/ Contexts(p) \/ Settle(p) \/ Finalize(p)
  BY <1>2, <1>5, <1>7, <1>8, <1>13 DEF FirstRead, ReserveUnit, Contexts, Settle, Finalize, Locked
<1>14. CASE Queue(p) \/ Claim(p) \/ Attempt(p) \/ Invoke(p) \/ Settled(p) \/ PreparationFails(p)
  BY <1>2, <1>5, <1>8, <1>14 DEF Queue, Claim, Attempt, Invoke, Settled, PreparationFails, Locked
<1>15. CASE FinalRead(p) \/ Intent(p) \/ Persist(p, "execution", "analysis") \/ Persist(p, "analysis", "finalize")
            \/ WriteTorn(p) \/ Done(p)
  BY <1>2, <1>5, <1>8, <1>15 DEF FinalRead, Intent, Persist, WriteTorn, Done, Locked
<1> QED
  BY <1>9, <1>10, <1>11, <1>12, <1>13, <1>14, <1>15 DEF Step, Publication, Finalization

-----------------------------------------------------------------------------
(* What a process knows and the newest checkpoint.                         *)

\* While nothing is committed, a process knows what it knew, nothing, or the newest.
LEMMA SeenStep ==
  ASSUME Shaped, NEW p \in Procs, Step(p) \/ Crash(p)
  PROVE  seen'[p] \in {seen[p], NoCheckpoint, committed}
<1> USE DEF root, locals, Shaped
<1>1. CASE Crash(p) \/ Acquire(p) \/ CheckWriter(p) \/ Release(p)
  BY <1>1 DEF Crash, Acquire, CheckWriter, Release, Return
<1>2. CASE FirstRead(p) \/ Queue(p) \/ ReserveUnit(p) \/ Contexts(p) \/ Claim(p) \/ Attempt(p) \/ Invoke(p)
  BY <1>2 DEF FirstRead, Queue, ReserveUnit, Contexts, Claim, Attempt, Invoke
<1>3. CASE Settle(p) \/ Settled(p) \/ PreparationFails(p) \/ Finalization(p)
  BY <1>3 DEF Settle, Settled, PreparationFails, Finalization, FinalRead, Intent, Persist, WriteTorn, Finalize, Done
<1>4. CASE Publication(p)
  BY <1>4 DEF Publication, Lock, AssertHistory, AssertPublication, Link, Unlink, Readback, PublicationFails
<1> QED
  BY <1>1, <1>2, <1>3, <1>4 DEF Step

\* Where the history check has been passed, and where a claim has been made.
LEMMA PlaceStep ==
  ASSUME IInv, NEW p \in Procs, Step(p) \/ Crash(p)
  PROVE  /\ pc'[p] \in {"assertPublication", "link"} =>
              next' = next /\ (Successive(committed, next[p]) \/ pc[p] \in {"assertPublication", "link"})
         /\ pc'[p] \in Calling => seen' = seen /\ (committed = seen[p] \/ pc[p] \in Calling)
<1> DEFINE Goal == /\ pc'[p] \in {"assertPublication", "link"} =>
                        next' = next /\ (Successive(committed, next[p]) \/ pc[p] \in {"assertPublication", "link"})
                   /\ pc'[p] \in Calling => seen' = seen /\ (committed = seen[p] \/ pc[p] \in Calling)
<1>0. Shaped
  BY TypeOKShaped DEF IInv
<1> USE DEF root, locals
\* Most steps go elsewhere.
<1>1. ASSUME NEW step, Goto(p, step), step \notin Calling \cup {"assertPublication", "link"} PROVE Goal
  BY <1>0, <1>1 DEF Goto, Shaped
<1>2. ASSUME NEW how, Ends(p, how) PROVE Goal
  BY <1>1, <1>2 DEF Ends, Calling
<1>3. ASSUME Return(p) PROVE Goal
  BY <1>1, <1>3 DEF Return, Calling
<1>4. ASSUME NEW new, NEW continuation, Publish(p, new, continuation) PROVE Goal
  BY <1>1, <1>4 DEF Publish, Calling
<1> USE DEF Fails
<1>5. CASE Crash(p) \/ Acquire(p) \/ CheckWriter(p) \/ Release(p)
  BY <1>1, <1>2, <1>3, <1>5 DEF Crash, Acquire, CheckWriter, Release, Calling
<1>6. CASE FirstRead(p) \/ Queue(p) \/ ReserveUnit(p) \/ Contexts(p) \/ Settle(p) \/ Settled(p) \/ PreparationFails(p)
  BY <1>1, <1>2, <1>4, <1>6
  DEF FirstRead, Queue, ReserveUnit, Contexts, Settle, Settled, PreparationFails, Calling
<1>7. CASE Finalization(p)
  BY <1>1, <1>2, <1>4, <1>7 DEF Finalization, FinalRead, Intent, Persist, WriteTorn, Finalize, Done, Calling
<1>8. CASE Claim(p) \/ Attempt(p) \/ Invoke(p)
  <2>1. /\ seen' = seen /\ (committed = seen[p] \/ pc[p] \in Calling)
        \/ Fails(p)
    BY <1>8 DEF Claim, Attempt, Invoke, Calling
  <2>2. pc'[p] \notin {"assertPublication", "link"}
    BY <1>0, <1>8 DEF Claim, Attempt, Invoke, Concludes, Ends, Goto, Shaped
  <2> QED
    BY <1>2, <2>1, <2>2
<1>9. CASE AssertHistory(p) \/ AssertPublication(p)
  <2>1. \/ next' = next /\ (Successive(committed, next[p]) \/ pc[p] \in {"assertPublication", "link"})
        \/ Fails(p)
    BY <1>9 DEF AssertHistory, AssertPublication
  <2>2. pc'[p] \notin Calling
    BY <1>0, <1>9 DEF AssertHistory, AssertPublication, Ends, Goto, Shaped, Calling
  <2> QED
    BY <1>2, <2>1, <2>2
<1>10. CASE Lock(p) \/ Link(p) \/ Unlink(p) \/ PublicationFails(p)
  BY <1>1, <1>2, <1>10 DEF Lock, Link, Unlink, PublicationFails, Calling
<1>11. CASE Readback(p)
  <2>1. then[p] \notin Calling \cup {"assertPublication", "link"}
    BY <1>11 DEF IInv, Local, Made, Readback, Publishing, Calling
  <2> QED
    BY <1>1, <1>2, <1>11, <2>1 DEF Readback
<1> QED
  BY <1>5, <1>6, <1>7, <1>8, <1>9, <1>10, <1>11 DEF Step, Publication

LEMMA ViewStep ==
  ASSUME ClockUnbounded, IInv, NEW p \in Procs, Step(p) \/ Crash(p), committed' = committed, NEW q \in Procs
  PROVE  View(q)'
<1>1. TypeOK /\ Shaped /\ View(q) /\ Grounded
  BY TypeOKShaped DEF IInv
<1>2. CASE q # p
  BY <1>1, <1>2, ActsAlone DEF Alone, View
<1>3. CASE q = p
  <2>1. CASE seen'[p] = seen[p]
    BY <1>1, <1>3, <2>1, PlaceStep DEF View
  <2>2. CASE seen'[p] = committed
    <3>1. committed.generation \in Nat
      BY <1>1, Typed
    <3> QED
      BY <1>1, <1>3, <2>2, <3>1, PlaceStep DEF View, Grounded
  <2>3. CASE seen'[p] = NoCheckpoint
    <3>1. committed.generation \in Nat /\ NoCheckpoint.generation = 0
      BY <1>1, Typed DEF NoCheckpoint
    <3>2. committed.generation = 0 => committed = NoCheckpoint
      BY <1>1, <3>1 DEF Grounded, ValidCheckpoint
    <3> QED
      BY <1>1, <1>3, <2>3, <3>1, <3>2, PlaceStep DEF View
  <2> QED
    BY <1>1, <2>1, <2>2, <2>3, SeenStep
<1> QED
  BY <1>2, <1>3

\* A commit leaves the others behind it; it moves no unit another is called for.
LEMMA ViewLink ==
  ASSUME ClockUnbounded, IInv, NEW p \in Procs, Link(p), committed' # committed, NEW q \in Procs
  PROVE  View(q)'
<1>1. TypeOK /\ Shaped /\ View(q) /\ Local(q) /\ RunInv /\ WriterInv
  BY TypeOKShaped DEF IInv
<1>2. /\ committed' = next[p] /\ pc[p] = "link" /\ pc'[p] = "unlink" /\ Alone(p)
      /\ UNCHANGED <<seen, run, writer, invoked>>
      /\ Made(committed, next[p], then[p], run[p], intent[p].authorization, evidence[p])
      /\ next[p].generation = committed.generation + 1
      /\ run[p] \in EpochIds
  BY LinkMakes
<1>3. committed.generation \in Nat /\ seen[q].generation \in Nat
  BY <1>1, Typed
<1>4. /\ seen[q] = NoCheckpoint \/ ValidCheckpoint(seen[q])
      /\ seen[q].generation < committed'.generation
  BY <1>1, <1>2, <1>3 DEF View
<1>5. pc'[q] \notin {"assertPublication", "link"}
  BY <1>1, <1>2 DEF Alone, WriterInv, Locked
<1>6. ASSUME pc'[q] \in Calling
      PROVE  committed'.units[FirstUnit(seen[q])] = seen[q].units[FirstUnit(seen[q])]
  <2> DEFINE i == FirstUnit(seen[q])
  <2>1. q # p /\ pc[q] \in Calling
    BY <1>2, <1>6 DEF Alone, Calling
  <2>2. committed.units[i] = seen[q].units[i] /\ Held(seen[q], i, run[q], "invocation-authorized")
    BY <1>1, <2>1 DEF View, Local
  <2>3. /\ i \in UnitIndex /\ committed.units[i].state = "in-progress" /\ committed.units[i].epochs # <<>>
        /\ LastEpoch(committed.units[i]).phase = "invocation-authorized" /\ LastEpoch(committed.units[i]).id = run[q]
    BY <2>2 DEF Held, InProgress
  <2>4. run[q] # run[p]
    BY <1>1, <1>2, <2>1 DEF RunInv, Calling
  <2>5. /\ committed \in Checkpoints /\ intent[p].authorization \in Authorizations /\ evidence[p] \in Reasons
        /\ committed = NoCheckpoint \/ ValidCheckpoint(committed)
    BY <1>1, Typed DEF IInv, Grounded
  <2> QED
    BY <1>2, <2>2, <2>3, <2>4, <2>5, MadeByOwner
<1> QED
  BY <1>2, <1>3, <1>4, <1>5, <1>6 DEF View

-----------------------------------------------------------------------------
(* The invariant is kept.                                                  *)

LEMMA LinkKeeps ==
  ASSUME ClockUnbounded, IInv, NEW p \in Procs, Link(p), committed' # committed
  PROVE  Grounded' /\ Ordered' /\ InvocationClaimed'
<1> DEFINE k == FirstUnit(committed)
<1>1. /\ committed' = next[p] /\ invoked' = invoked
      /\ ValidCheckpoint(next[p])
      /\ next[p].units = committed.units \/ (UnitMoves(committed, next[p], k) /\ Open(committed, k))
  BY LinkMakes
<1>2. Ordered /\ InvocationClaimed /\ invoked \subseteq Invocations
  BY DEF IInv, TypeOK
<1>3. CASE next[p].units = committed.units
  BY <1>1, <1>2, <1>3 DEF Grounded, Ordered, InvocationClaimed
<1>4. CASE UnitMoves(committed, next[p], k) /\ Open(committed, k)
  <2>1. /\ k \in UnitIndex /\ \A j \in UnitIndex \ {k} : next[p].units[j] = committed.units[j]
        /\ Continues(committed.units[k], next[p].units[k])
    BY <1>4 DEF UnitMoves
  <2>2. \A j \in UnitIndex : j < k => committed.units[j].state = "completed"
    BY <1>4, <2>1, NAssumption DEF Open, InQueueOrder, UnitIndex
  <2>3. committed.units[k].state # "completed"
    BY <1>4 DEF Open
  <2>4. ASSUME NEW i \in UnitIndex, NEW j \in UnitIndex, i < j, next[p].units[j].epochs # <<>>
        PROVE  next[p].units[i].state = "completed"
    <3>1. CASE j = k
      <4>1. i # k
        BY <2>4, <3>1, NAssumption DEF UnitIndex
      <4> QED
        BY <2>1, <2>2, <2>4, <3>1, <4>1
    <3>2. CASE j # k
      <4>1. committed.units[i].state = "completed"
        BY <1>2, <2>1, <2>4, <3>2 DEF Ordered
      <4> QED
        BY <2>1, <2>3, <4>1
    <3> QED
      BY <3>1, <3>2
  <2>5. ASSUME NEW x \in invoked
        PROVE  /\ x.epoch \in DOMAIN next[p].units[x.unit].epochs
               /\ next[p].units[x.unit].epochs[x.epoch].id = x.run
               /\ next[p].units[x.unit].epochs[x.epoch].phase # "reserved"
               /\ x.attempt <= 1 + RepairAttempts
    <3>1. /\ x.epoch \in DOMAIN committed.units[x.unit].epochs
          /\ committed.units[x.unit].epochs[x.epoch].id = x.run
          /\ committed.units[x.unit].epochs[x.epoch].phase # "reserved"
          /\ x.attempt <= 1 + RepairAttempts
          /\ x.unit \in UnitIndex
      BY <1>2, <2>5 DEF InvocationClaimed, Invocations
    <3> QED
      BY <2>1, <3>1 DEF Continues
  <2> QED
    BY <1>1, <2>4, <2>5 DEF Grounded, Ordered, InvocationClaimed
<1> QED
  BY <1>1, <1>3, <1>4

LEMMA InvokeKeeps ==
  ASSUME IInv, NEW p \in Procs, Invoke(p)
  PROVE  InvocationClaimed' /\ committed' = committed
<1> DEFINE i == FirstUnit(seen[p])
           x == [unit |-> i, epoch |-> Len(seen[p].units[i].epochs), attempt |-> attempt[p], run |-> run[p]]
<1>1. Local(p) /\ View(p) /\ TypeOK
  BY DEF IInv
<1>2. /\ Held(seen[p], i, run[p], "invocation-authorized") /\ attempt[p] \in 1..(1 + RepairAttempts)
      /\ committed.units[i] = seen[p].units[i]
  BY <1>1 DEF Invoke, Local, View, Calling
<1>3. /\ i \in UnitIndex /\ committed.units[i].epochs # <<>>
      /\ LastEpoch(committed.units[i]).id = run[p] /\ LastEpoch(committed.units[i]).phase = "invocation-authorized"
  BY <1>2 DEF Held, InProgress
<1>4. committed.units[i].epochs \in Seq(Epochs)
  BY <1>1, <1>3 DEF TypeOK, Checkpoints, Units
<1>5. Len(committed.units[i].epochs) \in DOMAIN committed.units[i].epochs
  BY <1>3, <1>4, LastIndex, Zenon
<1>6. invoked' = invoked \cup {x} /\ committed' = committed
  BY DEF Invoke, root
<1>7. /\ x.epoch \in DOMAIN committed.units[x.unit].epochs
      /\ committed.units[x.unit].epochs[x.epoch].id = x.run
      /\ committed.units[x.unit].epochs[x.epoch].phase # "reserved"
      /\ x.attempt <= 1 + RepairAttempts
  <2>1. x.unit = i /\ x.epoch = Len(committed.units[i].epochs) /\ x.run = run[p] /\ x.attempt = attempt[p]
    BY <1>2
  <2>2. x.attempt <= 1 + RepairAttempts
    BY <1>2, <2>1, RepairAssumption
  <2> HIDE DEF x
  <2>3. /\ committed.units[i].epochs[x.epoch].id = run[p]
        /\ committed.units[i].epochs[x.epoch].phase = "invocation-authorized"
    BY <1>3, <2>1, Zenon DEF LastEpoch
  <2> QED
    BY <1>5, <2>1, <2>2, <2>3
<1> HIDE DEF x
<1> QED
  BY <1>6, <1>7 DEF IInv, InvocationClaimed

LEMMA StepInv ==
  ASSUME ClockUnbounded, IInv, [Next]_vars
  PROVE  IInv'
<1>1. TypeOK'
  BY TypeStep
<1>2. CASE UNCHANGED vars
  BY <1>1, <1>2 DEF vars, IInv, RunInv, WriterInv, Grounded, Ordered, InvocationClaimed, Local, View
<1>3. CASE RemoveMarker
  BY <1>1, <1>3
  DEF RemoveMarker, locals, IInv, RunInv, WriterInv, Grounded, Ordered, InvocationClaimed, Local, View
<1>4. CASE ClearPublication
  <2>1. \A p \in Procs : pc[p] \notin Locked
    BY <1>4 DEF ClearPublication, Publishing, Locked
  <2> QED
    BY <1>1, <1>4, <2>1
    DEF ClearPublication, locals, IInv, RunInv, WriterInv, Grounded, Ordered, InvocationClaimed, Local, View
<1>5. ASSUME NEW p \in Procs, Command(p)
      PROVE  IInv'
  <2>1. /\ Local(p)' /\ Alone(p) /\ UNCHANGED <<root, invoked, seen>>
        /\ pc[p] = "idle" /\ pc'[p] = "acquire" /\ runs' = runs + 1 /\ run'[p] = runs + 1
    BY <1>5, CommandStep
  <2>2. \A q \in Procs : Local(q)'
    BY <2>1, LocalOthers DEF IInv
  <2>3. \A q \in Procs : View(q)'
    BY <2>1 DEF IInv, View, Alone, root, Calling
  <2>4. RunInv'
    <3>1. runs \in Nat /\ \A q \in Procs : pc[q] # "idle" => run[q] \in 1..runs
      BY RunsAssumption DEF IInv, TypeOK, RunInv
    <3> QED
      BY <2>1, <3>1 DEF IInv, RunInv, Alone
  <2> QED
    BY <1>1, <1>5, <2>1, <2>2, <2>3, <2>4, WriterStep DEF IInv, Grounded, Ordered, InvocationClaimed, root
<1>6. ASSUME NEW p \in Procs, Step(p) \/ Crash(p)
      PROVE  IInv'
  <2>1. Alone(p) /\ OwnStep(p)
    BY <1>6, ActsAlone, LocalStep, TypeOKShaped DEF IInv
  <2>2. \A q \in Procs : Local(q)'
    BY <2>1, LocalOthers DEF IInv, OwnStep
  <2>3. RunInv'
    BY <2>1 DEF IInv, RunInv, Alone, OwnStep
  <2>4. WriterInv'
    BY <1>6, WriterStep
  <2>5. CASE committed' = committed
    <3>1. \A q \in Procs : View(q)'
      BY <1>6, <2>5, ViewStep
    <3>2. InvocationClaimed'
      BY <1>6, <2>5, SharedStep, InvokeKeeps DEF IInv, InvocationClaimed
    <3> QED
      BY <1>1, <2>2, <2>3, <2>4, <2>5, <3>1, <3>2 DEF IInv, Grounded, Ordered
  <2>6. CASE committed' # committed
    <3>1. Link(p)
      BY <1>6, <2>6, SharedStep
    <3> QED
      BY <1>1, <2>2, <2>3, <2>4, <2>6, <3>1, ViewLink, LinkKeeps DEF IInv
  <2> QED
    BY <2>5, <2>6
<1> QED
  BY <1>2, <1>3, <1>4, <1>5, <1>6 DEF Next

\* The invariant holds throughout.
LEMMA InvariantHolds ==
  ASSUME ClockUnbounded
  PROVE  Spec => []IInv
<1>1. Init => IInv
  BY InitInv
<1>2. IInv /\ [Next]_vars => IInv'
  BY StepInv
<1> QED
  BY <1>1, <1>2, PTL DEF Spec

-----------------------------------------------------------------------------
(* The theorems.                                                           *)

\* Every variable has its type.
THEOREM TypeCorrect ==
  ASSUME ClockUnbounded
  PROVE  Spec => []TypeOK
<1>1. IInv => TypeOK
  BY DEF IInv
<1> QED
  BY <1>1, InvariantHolds, PTL

\* executeResumableCampaign: whatever fails or crashes between two steps, a
\* provider is called only under a durable authorization that the command that
\* calls published itself, and within the repairs allowed.
THEOREM InvocationClaimedHolds ==
  ASSUME ClockUnbounded
  PROVE  Spec => []InvocationClaimed
<1>1. IInv => InvocationClaimed
  BY DEF IInv
<1> QED
  BY <1>1, InvariantHolds, PTL

\* Two commands at the provider would both hold the unit that is under way.
LEMMA OneInvoker == IInv => SingleInvoker
<1> SUFFICES ASSUME IInv, NEW p \in Procs, NEW q \in Procs, pc[p] \in Calling, pc[q] \in Calling, p # q
             PROVE  FALSE
  BY DEF SingleInvoker, Calling
<1> DEFINE i == FirstUnit(seen[p])
           j == FirstUnit(seen[q])
<1>1. /\ Held(seen[p], i, run[p], "invocation-authorized") /\ committed.units[i] = seen[p].units[i]
      /\ Held(seen[q], j, run[q], "invocation-authorized") /\ committed.units[j] = seen[q].units[j]
  BY DEF IInv, Local, View
<1>2. /\ i \in UnitIndex /\ committed.units[i].epochs # <<>> /\ committed.units[i].state = "in-progress"
      /\ LastEpoch(committed.units[i]).id = run[p]
      /\ j \in UnitIndex /\ committed.units[j].epochs # <<>> /\ committed.units[j].state = "in-progress"
      /\ LastEpoch(committed.units[j]).id = run[q]
  BY <1>1 DEF Held, InProgress
<1>3. ~ (i < j) /\ ~ (j < i)
  BY <1>2 DEF IInv, Ordered
<1>4. i = j
  BY <1>2, <1>3, NAssumption DEF UnitIndex
<1>5. run[p] # run[q]
  BY DEF IInv, RunInv, Calling
<1> QED
  BY <1>2, <1>4, <1>5

\* campaignCheckpointStore.ts, campaignResumableExecution.ts: even when the
\* marker was deleted under its owner, two commands are never both at the
\* provider: the committed reservation keeps the second out.
THEOREM SingleInvokerHolds ==
  ASSUME ClockUnbounded
  PROVE  Spec => []SingleInvoker
BY OneInvoker, InvariantHolds, PTL

\* executeResumableCampaign, runAgentCampaignCommand: a command that acts on a
\* limit authorization starts from the revision the authorization names.
THEOREM ContinuesObservedHolds ==
  ASSUME ClockUnbounded
  PROVE  Spec => ContinuesObserved
<1> DEFINE Kept == \A p \in Procs :
                     pc[p] = "firstRead" /\ pc'[p] = "queue" /\ intent[p].mode = "continue" =>
                       seen'[p].generation = observed[p]
<1>1. ASSUME IInv, [Next]_vars PROVE [Kept]_vars
  <2> SUFFICES ASSUME Next, NEW p \in Procs, pc[p] = "firstRead", pc'[p] = "queue", intent[p].mode = "continue"
               PROVE  seen'[p].generation = observed[p]
    BY <1>1
  <2>0. Shaped
    BY TypeOKShaped, <1>1 DEF IInv
  <2>1. FirstRead(p)
    <3>1. ~RemoveMarker /\ ~ClearPublication
      BY DEF RemoveMarker, ClearPublication, locals
    <3>2. \A q \in Procs \ {p} : ~ (Command(q) \/ Step(q) \/ Crash(q))
      BY <2>0, ActsAlone DEF Alone
    <3>3. Command(p) \/ Step(p) \/ Crash(p)
      BY <3>1, <3>2 DEF Next
    <3>4. ~Command(p) /\ ~Crash(p) /\ ~PreparationFails(p)
      BY <2>0 DEF Command, Crash, Return, PreparationFails, Fails, Ends, Goto, Shaped
    <3>5. ~Publication(p)
      BY DEF Publication, Lock, AssertHistory, AssertPublication, Link, Unlink, Readback, PublicationFails
    <3>6. ~Finalization(p)
      BY DEF Finalization, FinalRead, Intent, Persist, WriteTorn, Finalize, Done, Files
    <3> QED
      BY <3>3, <3>4, <3>5, <3>6
      DEF Step, Acquire, CheckWriter, Release, Queue, ReserveUnit, Contexts, Claim, Attempt, Invoke, Settle, Settled
  <2>2. intent[p].authorization.generation = observed[p]
    BY <1>1 DEF IInv, Local, Starting
  <2>3. seen' = [seen EXCEPT ![p] = committed] /\ intent[p].authorization.generation = committed.generation
    BY <2>0, <2>1, <1>1, FirstReadCases DEF Publishes, Publish, Fails, Ends, Goto, Shaped
  <2> QED
    BY <2>0, <2>2, <2>3 DEF Shaped
<1>2. IInv /\ [Next]_vars => [Kept]_vars
  BY <1>1
<1> HIDE DEF Kept
<1>3. [][Kept]_vars => ContinuesObserved
  BY PTL DEF ContinuesObserved, Kept
<1> QED
  BY <1>2, <1>3, InvariantHolds, PTL DEF Spec

-----------------------------------------------------------------------------
(* The refinement.                                                         *)

\* The two modules have the same checkpoints.
LEMMA SameOperators ==
  /\ Ledger!NoCheckpoint = NoCheckpoint
  /\ \A at : Ledger!Created(at) = Created(at)
  /\ \A cp : Ledger!ValidCheckpoint(cp) <=> ValidCheckpoint(cp)
  /\ \A cp, i, a : Ledger!MayReserve(cp, i, a) <=> MayReserve(cp, i, a)
  /\ \A cp, i : Ledger!MayAuthorize(cp, i) <=> MayAuthorize(cp, i)
  /\ \A cp, i : Ledger!MaySettle(cp, i) <=> MaySettle(cp, i)
  /\ \A cp : Ledger!MayFinalize(cp) <=> MayFinalize(cp)
  /\ \A cp, i, id, a, at : Ledger!Reserved(cp, i, id, a, at) = Reserved(cp, i, id, a, at)
  /\ \A cp, i, at : Ledger!Authorized(cp, i, at) = Authorized(cp, i, at)
  /\ \A cp, i, reason, at : Ledger!Terminal(cp, i, reason, at) = Terminal(cp, i, reason, at)
  /\ \A cp, completedAt, at : Ledger!Finalized(cp, completedAt, at) = Finalized(cp, completedAt, at)
<1> USE DEF Ledger!UnitIndex, UnitIndex, Ledger!NoTime, NoTime, Ledger!PendingUnit, PendingUnit,
            Ledger!LastEpoch, LastEpoch, Ledger!WithLast, WithLast, Ledger!AllCompleted, AllCompleted,
            Ledger!NoAuthorization, NoAuthorization, Ledger!Advanced, Advanced
<1>1. Ledger!NoCheckpoint = NoCheckpoint /\ \A at : Ledger!Created(at) = Created(at)
  BY DEF Ledger!NoCheckpoint, NoCheckpoint, Ledger!Created, Created
<1>2. ASSUME NEW e, NEW cp PROVE Ledger!TimesOrdered(e, cp) <=> TimesOrdered(e, cp)
  BY DEF Ledger!TimesOrdered, TimesOrdered
<1>3. ASSUME NEW e PROVE Ledger!ValidPhase(e) <=> ValidPhase(e)
  BY DEF Ledger!ValidPhase, ValidPhase
<1>4. ASSUME NEW cp, NEW i, NEW prior, NEW e
      PROVE  Ledger!ValidContinuation(cp, i, prior, e) <=> ValidContinuation(cp, i, prior, e)
  BY DEF Ledger!ValidContinuation, ValidContinuation
<1>5. ASSUME NEW cp, NEW i PROVE Ledger!ValidUnit(cp, i) <=> ValidUnit(cp, i)
  BY <1>2, <1>3, <1>4 DEF Ledger!ValidUnit, ValidUnit
<1>6. ASSUME NEW cp PROVE Ledger!ValidCheckpoint(cp) <=> ValidCheckpoint(cp)
  BY <1>5 DEF Ledger!ValidCheckpoint, ValidCheckpoint
<1>7. ASSUME NEW cp, NEW i PROVE Ledger!Open(cp, i) <=> Open(cp, i)
  BY DEF Ledger!Open, Open, Ledger!InQueueOrder, InQueueOrder
<1>8. ASSUME NEW cp, NEW i, NEW a PROVE Ledger!MayReserve(cp, i, a) <=> MayReserve(cp, i, a)
  BY <1>7 DEF Ledger!MayReserve, MayReserve, Ledger!ValidLimitAuthorization, ValidLimitAuthorization
<1>9. ASSUME NEW cp, NEW i, NEW phase PROVE Ledger!InProgress(cp, i, phase) <=> InProgress(cp, i, phase)
  BY <1>7 DEF Ledger!InProgress, InProgress
<1>10. \A cp, i : /\ Ledger!MayAuthorize(cp, i) <=> MayAuthorize(cp, i)
                  /\ Ledger!MaySettle(cp, i) <=> MaySettle(cp, i)
  BY <1>9 DEF Ledger!MayAuthorize, MayAuthorize, Ledger!MaySettle, MaySettle
<1>11. \A cp : Ledger!MayFinalize(cp) <=> MayFinalize(cp)
  BY DEF Ledger!MayFinalize, MayFinalize
<1>12. \A cp, i, id, a, at : Ledger!Reserved(cp, i, id, a, at) = Reserved(cp, i, id, a, at)
  BY DEF Ledger!Reserved, Reserved
<1>13. \A cp, i, at : Ledger!Authorized(cp, i, at) = Authorized(cp, i, at)
  BY DEF Ledger!Authorized, Authorized
<1>14. \A cp, i, reason, at : Ledger!Terminal(cp, i, reason, at) = Terminal(cp, i, reason, at)
  BY DEF Ledger!Terminal, Terminal, Ledger!StateAfter, StateAfter
<1>15. \A cp, completedAt, at : Ledger!Finalized(cp, completedAt, at) = Finalized(cp, completedAt, at)
  BY DEF Ledger!Finalized, Finalized
<1> QED
  BY <1>1, <1>6, <1>8, <1>10, <1>11, <1>12, <1>13, <1>14, <1>15

\* Every commit is a step of the ledger.
LEMMA LinkIsLedger ==
  ASSUME ClockUnbounded, IInv, NEW p \in Procs, Link(p), committed' # committed
  PROVE  Ledger!Next
<1> DEFINE i == FirstUnit(committed)
           a == intent[p].authorization
           at == committed.generation + 1
           new == next[p]
<1>1. /\ committed' = new /\ Made(committed, new, then[p], run[p], a, evidence[p])
      /\ ValidCheckpoint(new) /\ run[p] \in EpochIds
  BY LinkMakes
<1>2. /\ committed \in Checkpoints /\ committed.generation \in Nat /\ at \in Times /\ 1 \in Times
      /\ a \in Authorizations /\ evidence[p] \in Reasons
  BY Typed DEF IInv, ClockUnbounded
<1>3. committed = NoCheckpoint \/ ValidCheckpoint(committed)
  BY DEF IInv, Grounded
<1>4. CASE committed = NoCheckpoint /\ new = Created(1)
  BY <1>1, <1>2, <1>4, SameOperators DEF Ledger!Next, Ledger!Create
<1> DEFINE Continued == committed.generation >= 1
<1>5. ASSUME Continued PROVE Ledger!Transition(new)
  <2>1. ValidCheckpoint(committed)
    BY <1>3, <1>5 DEF NoCheckpoint
  <2> QED
    BY <1>1, <2>1, SameOperators DEF Ledger!Transition, Ledger!Permitted
<1>6. CASE Continued /\ i \in UnitIndex /\ MayReserve(committed, i, a) /\ new = Reserved(committed, i, run[p], a, at)
  <2>1. a \in Ledger!Requests
    <3>1. CASE a = NoAuthorization
      BY <3>1 DEF Ledger!Requests, Ledger!NoAuthorization, NoAuthorization
    <3>2. CASE a # NoAuthorization
      <4>1. a.generation = committed.generation /\ a.unit = i
        BY <1>6, <3>2 DEF MayReserve, ValidLimitAuthorization
      <4>2. a = [generation |-> a.generation, unit |-> a.unit]
        BY <1>2 DEF Authorizations
      <4>3. committed.generation \in 1..committed.generation
        BY <1>2, <1>6
      <4> QED
        BY <1>6, <4>1, <4>2, <4>3 DEF Ledger!Requests, Ledger!UnitIndex, UnitIndex
    <3> QED
      BY <3>1, <3>2
  <2>2. Ledger!Reserve(i, a)
    BY <1>1, <1>2, <1>5, <1>6, SameOperators DEF Ledger!Reserve
  <2> QED
    BY <1>6, <2>1, <2>2 DEF Ledger!Next, Ledger!UnitIndex, UnitIndex
<1>7. CASE Continued /\ Held(committed, i, run[p], "reserved") /\ new = Authorized(committed, i, at)
  <2>1. i \in UnitIndex /\ MayAuthorize(committed, i)
    BY <1>7 DEF Held, MayAuthorize
  <2>2. Ledger!Authorize(i)
    BY <1>2, <1>5, <1>7, <2>1, SameOperators DEF Ledger!Authorize
  <2> QED
    BY <2>1, <2>2 DEF Ledger!Next, Ledger!UnitIndex, UnitIndex
<1>8. CASE /\ Continued /\ Held(committed, i, run[p], "invocation-authorized")
           /\ new = Terminal(committed, i, evidence[p], at)
  <2>1. i \in UnitIndex /\ MaySettle(committed, i)
    BY <1>8 DEF Held, MaySettle
  <2>2. evidence[p] \in Ledger!Reasons
    BY <1>2 DEF Ledger!Reasons, Reasons
  <2>3. Ledger!Settle(i)
    BY <1>2, <1>5, <1>8, <2>1, <2>2, SameOperators DEF Ledger!Settle
  <2> QED
    BY <2>1, <2>3 DEF Ledger!Next, Ledger!UnitIndex, UnitIndex
<1>9. CASE /\ Continued /\ committed.finalization = NoTime
           /\ new = Finalized(committed, CompletedAt(committed), at)
  <2>1. CompletedAt(committed) \in Times
    BY <1>2, <1>3, <1>9, CompletedAtTyped DEF NoCheckpoint
  <2>2. CompletedAt(committed) # NoTime
    BY <2>1, TimesAssumption DEF NoTime
  <2>3. new.units = committed.units /\ new.finalization # NoTime
    <3>1. /\ Finalized(committed, CompletedAt(committed), at).units = committed.units
          /\ Finalized(committed, CompletedAt(committed), at).finalization = CompletedAt(committed)
      BY <1>2, <2>1, FinalizedMoves, Zenon
    <3> QED
      BY <1>9, <2>2, <3>1, Zenon
  <2>4. MayFinalize(committed)
    BY <1>1, <1>9, <2>3 DEF MayFinalize, AllCompleted, ValidCheckpoint
  <2>5. Ledger!Finalize
    BY <1>2, <1>5, <1>9, <2>1, <2>4, SameOperators DEF Ledger!Finalize
  <2> QED
    BY <2>5 DEF Ledger!Next
<1> QED
  BY <1>1, <1>4, <1>6, <1>7, <1>8, <1>9 DEF Made

\* The commands of one root, in any number and whatever becomes of them, do
\* together what the ledger promises: each commit is one permitted transition.
THEOREM ImplementsLedgerHolds ==
  ASSUME ClockUnbounded
  PROVE  Spec => ImplementsLedger
<1>1. Init => Ledger!Init
  BY SameOperators DEF Init, Ledger!Init
<1>2. ASSUME IInv, [Next]_vars PROVE [committed' # committed => Ledger!Next]_committed
  <2> SUFFICES ASSUME committed' # committed PROVE Ledger!Next
    OBVIOUS
  <2>1. PICK p \in Procs : Step(p) \/ Crash(p)
    <3>1. ~ (\E p \in Procs : Command(p)) /\ ~RemoveMarker /\ ~ClearPublication
      BY DEF Command, RemoveMarker, ClearPublication, root
    <3> QED
      BY <1>2, <3>1 DEF Next, vars
  <2> QED
    BY <1>2, <2>1, SharedStep, LinkIsLedger
<1>3. IInv /\ [Next]_vars => [committed' # committed => Ledger!Next]_committed
  BY <1>2
<1> QED
  BY <1>1, <1>3, InvariantHolds, PTL DEF Spec, ImplementsLedger

-----------------------------------------------------------------------------
(* Where the campaign stops.                                               *)

\* The epoch under way is that of a command that was issued.
IdsIssued ==
  \A i \in UnitIndex :
    committed.units[i].state = "in-progress" => LastEpoch(committed.units[i]).id \in 1..runs

\* The unit that a campaign stopped at is begun and not completed.
Stops(cp, i) == i \in UnitIndex /\ cp.units[i].state \in {"incomplete", "uncertain", "paused-limit", "in-progress"}

\* Only that unit can be open.
LEMMA OpenStops ==
  ASSUME Grounded, Ordered, NEW i, Stops(committed, i), NEW k \in UnitIndex, Open(committed, k)
  PROVE  i = k
<1>1. i \in UnitIndex /\ committed.units[i].state \notin {"completed", "pending"}
  BY DEF Stops
<1>2. committed.units[i].epochs # <<>>
  BY <1>1 DEF Grounded, NoCheckpoint, PendingUnit, ValidCheckpoint, ValidUnit
<1>3. ~(k < i)
  BY <1>1, <1>2 DEF Ordered, Open
<1>4. ~(i < k)
  BY <1>1, NAssumption DEF Open, InQueueOrder, UnitIndex
<1> QED
  BY <1>1, <1>3, <1>4, NAssumption DEF UnitIndex

\* What a process links is no successor of a checkpoint that a campaign stopped at.
LEMMA StoppedLinksNothing ==
  ASSUME ClockUnbounded, IInv, Stopped, NEW p \in Procs, Link(p), committed' # committed
  PROVE  FALSE
<1> DEFINE k == FirstUnit(committed)
           a == intent[p].authorization
<1>1. /\ Made(committed, next[p], then[p], run[p], a, evidence[p])
      /\ ValidCheckpoint(next[p]) /\ Grounded /\ Ordered /\ committed \in Checkpoints
  BY LinkMakes, Typed DEF IInv
<1>2. PICK i \in UnitIndex : EndedForGood(committed.units[i]) \/ Abandoned(committed.units[i])
  BY DEF Stopped
<1>3. Stops(committed, i)
  BY <1>2 DEF EndedForGood, Abandoned, Stops
<1>4. committed # NoCheckpoint
  BY <1>3 DEF Stops, NoCheckpoint, PendingUnit
<1>5. ~(k \in UnitIndex /\ MayReserve(committed, k, a))
  <2> SUFFICES ASSUME k \in UnitIndex, MayReserve(committed, k, a) PROVE FALSE
    OBVIOUS
  <2>1. i = k
    BY <1>1, <1>3, OpenStops DEF MayReserve
  <2>2. \/ committed.units[i].state = "pending"
        \/ committed.units[i].state = "paused-limit" /\ Len(committed.units[i].epochs) = 1
    BY <2>1 DEF MayReserve, ValidLimitAuthorization, PendingUnit
  <2> QED
    BY <1>2, <2>2 DEF EndedForGood, Abandoned
<1>6. ASSUME NEW phase, Held(committed, k, run[p], phase) PROVE FALSE
  <2>1. i = k
    BY <1>1, <1>3, <1>6, OpenStops DEF Held, InProgress
  <2>2. committed.units[i].state = "in-progress" /\ LastEpoch(committed.units[i]).id = run[p]
    BY <1>6, <2>1 DEF Held, InProgress
  <2> QED
    BY <1>2, <2>2 DEF EndedForGood, Abandoned
<1>7. ~(committed.finalization = NoTime /\ next[p] = Finalized(committed, CompletedAt(committed), committed.generation + 1))
  <2> SUFFICES ASSUME committed.finalization = NoTime,
                      next[p] = Finalized(committed, CompletedAt(committed), committed.generation + 1)
               PROVE  FALSE
    OBVIOUS
  <2>1. ValidCheckpoint(committed)
    BY <1>1, <1>4 DEF Grounded
  <2>2. CompletedAt(committed) \in Times /\ CompletedAt(committed) # NoTime
    BY <1>1, <2>1, CompletedAtTyped, TimesAssumption DEF NoTime
  <2>3. next[p].units = committed.units /\ next[p].finalization # NoTime
    <3>1. committed.generation + 1 \in Times
      BY <1>1 DEF ClockUnbounded, Checkpoints
    <3> QED
      BY <1>1, <2>2, <3>1, FinalizedMoves
  <2> QED
    BY <1>1, <1>3, <2>3 DEF ValidCheckpoint, AllCompleted, Stops
<1> QED
  BY <1>1, <1>4, <1>5, <1>6, <1>7 DEF Made

\* The epoch that a link makes the last of a unit under way is the linking command's.
LEMMA LinkIssued ==
  ASSUME ClockUnbounded, IInv, IdsIssued, NEW p \in Procs, Link(p), committed' # committed
  PROVE  IdsIssued'
<1> DEFINE k == FirstUnit(committed)
           a == intent[p].authorization
           at == committed.generation + 1
<1>1. /\ committed' = next[p] /\ pc[p] = "link"
      /\ Made(committed, next[p], then[p], run[p], a, evidence[p])
      /\ run[p] \in EpochIds /\ committed \in Checkpoints /\ a \in Authorizations /\ evidence[p] \in Reasons
      /\ committed = NoCheckpoint \/ ValidCheckpoint(committed)
  BY LinkMakes, Typed DEF IInv, Grounded
<1>2. run[p] \in 1..runs
  BY <1>1 DEF IInv, RunInv
<1>3. runs' = runs
  BY DEF Link, locals
<1>4. /\ \/ next[p].units = committed.units
         \/ UnitMoves(committed, next[p], k)
      /\ then[p] = "contexts" => Held(next[p], FirstUnit(next[p]), run[p], "reserved")
      /\ then[p] = "claim" => Held(next[p], FirstUnit(next[p]), run[p], "invocation-authorized")
      /\ then[p] \in {"contexts", "claim"} => FirstUnit(next[p]) = k
  BY <1>1, MadeMoves
<1>5. then[p] = "settled" /\ next[p].units # committed.units => next[p].units[k].state # "in-progress"
  <2> SUFFICES ASSUME then[p] = "settled", next[p].units # committed.units
               PROVE  next[p].units[k].state # "in-progress"
    OBVIOUS
  <2>1. Held(committed, k, run[p], "invocation-authorized") /\ next[p] = Terminal(committed, k, evidence[p], at)
    BY <1>1 DEF Made
  <2>2. next[p].units[k].state = StateAfter(evidence[p])
    BY <1>1, <2>1 DEF Terminal, Advanced, WithLast, Checkpoints, Held
  <2> QED
    BY <2>2 DEF StateAfter
<1>6. then[p] \in {"queue", "done"} => next[p].units = committed.units
  <2>1. Created(1).units = NoCheckpoint.units
    BY DEF Created, NoCheckpoint
  <2>2. Finalized(committed, CompletedAt(committed), at).units = committed.units
    BY <1>1 DEF Finalized, Checkpoints
  <2> QED
    BY <1>1, <2>1, <2>2 DEF Made
<1>7. ASSUME NEW i \in UnitIndex, next[p].units[i].state = "in-progress"
      PROVE  LastEpoch(next[p].units[i]).id \in 1..runs
  <2>1. CASE next[p].units[i] = committed.units[i]
    BY <1>7, <2>1 DEF IdsIssued
  <2>2. CASE next[p].units[i] # committed.units[i]
    <3>1. i = k /\ next[p].units # committed.units
      BY <1>4, <2>2 DEF UnitMoves
    <3>2. then[p] \in {"contexts", "claim"}
      BY <1>1, <1>5, <1>6, <1>7, <3>1 DEF Made
    <3> QED
      BY <1>2, <1>4, <3>1, <3>2 DEF Held
  <2> QED
    BY <2>1, <2>2
<1> QED
  BY <1>1, <1>3, <1>7 DEF IdsIssued

\* It holds of every chain.
LEMMA IssuedStep == ClockUnbounded /\ IInv /\ IdsIssued /\ [Next]_vars => IdsIssued'
<1> SUFFICES ASSUME ClockUnbounded, IInv, IdsIssued, [Next]_vars PROVE IdsIssued'
  OBVIOUS
<1>1. CASE UNCHANGED vars \/ RemoveMarker \/ ClearPublication
  BY <1>1 DEF vars, RemoveMarker, ClearPublication, locals, IdsIssued
<1>2. ASSUME NEW p \in Procs, Command(p) PROVE IdsIssued'
  <2>1. committed' = committed /\ runs' = runs + 1
    BY <1>2 DEF Command, root
  <2>2. runs \in Nat
    BY RunsAssumption DEF IInv, TypeOK
  <2> QED
    BY <2>1, <2>2 DEF IdsIssued
<1>3. ASSUME NEW p \in Procs, Step(p) \/ Crash(p) PROVE IdsIssued'
  <2>1. CASE committed' = committed
    BY <1>3, <2>1, LocalStep DEF OwnStep, IdsIssued
  <2>2. CASE committed' # committed
    BY <1>3, <2>2, SharedStep, LinkIssued
  <2> QED
    BY <2>1, <2>2
<1> QED
  BY <1>1, <1>2, <1>3 DEF Next

\* A step of a command keeps its number, or gives it back.
LEMMA RunStep ==
  ASSUME Shaped, NEW p \in Procs, Step(p) \/ Crash(p), NEW q \in Procs
  PROVE  run'[q] \in {run[q], 0}
<1> USE DEF root, locals, Shaped
<1>1. CASE Crash(p) \/ Acquire(p) \/ CheckWriter(p) \/ Release(p)
  BY <1>1 DEF Crash, Acquire, CheckWriter, Release, Return
<1>2. CASE FirstRead(p) \/ Queue(p) \/ ReserveUnit(p) \/ Contexts(p) \/ Claim(p) \/ Attempt(p) \/ Invoke(p)
  BY <1>2 DEF FirstRead, Queue, ReserveUnit, Contexts, Claim, Attempt, Invoke
<1>3. CASE Settle(p) \/ Settled(p) \/ PreparationFails(p) \/ Finalization(p)
  BY <1>3 DEF Settle, Settled, PreparationFails, Finalization, FinalRead, Intent, Persist, WriteTorn, Finalize, Done
<1>4. CASE Publication(p)
  BY <1>4 DEF Publication, Lock, AssertHistory, AssertPublication, Link, Unlink, Readback, PublicationFails
<1> QED
  BY <1>1, <1>2, <1>3, <1>4 DEF Step

\* A command that is issued, goes on or ends takes no unit up that was abandoned.
LEMMA StoppedStep ==
  ASSUME ClockUnbounded, IInv, IdsIssued, [Next]_vars, Stopped
  PROVE  committed' = committed /\ Stopped'
<1>1. committed' = committed
  <2> SUFFICES ASSUME committed' # committed PROVE FALSE
    OBVIOUS
  <2>1. PICK p \in Procs : Step(p) \/ Crash(p)
    <3>1. ~ (\E p \in Procs : Command(p)) /\ ~RemoveMarker /\ ~ClearPublication
      BY DEF Command, RemoveMarker, ClearPublication, root
    <3> QED
      BY <3>1 DEF Next, vars
  <2> QED
    BY <2>1, SharedStep, StoppedLinksNothing
<1>2. PICK i \in UnitIndex : EndedForGood(committed.units[i]) \/ Abandoned(committed.units[i])
  BY DEF Stopped
<1>3. CASE EndedForGood(committed.units[i])
  BY <1>1, <1>2, <1>3 DEF EndedForGood, Stopped
<1>4. CASE Abandoned(committed.units[i])
  <2> DEFINE id == LastEpoch(committed.units[i]).id
  <2>1. /\ committed.units[i].state = "in-progress" /\ \A q \in Procs : run[q] # id
        /\ id \in 1..runs /\ runs \in Nat
    BY <1>2, <1>4, RunsAssumption DEF Abandoned, IdsIssued, IInv, TypeOK
  <2> HIDE DEF id
  <2>2. ASSUME NEW q \in Procs PROVE run'[q] # id
    <3>1. CASE UNCHANGED vars \/ RemoveMarker \/ ClearPublication
      BY <2>1, <3>1 DEF vars, RemoveMarker, ClearPublication, locals
    <3>2. ASSUME NEW p \in Procs, Command(p) PROVE run'[q] # id
      BY <2>1, <3>2, CommandStep DEF Alone
    <3>3. ASSUME NEW p \in Procs, Step(p) \/ Crash(p) PROVE run'[q] # id
      <4>1. run'[q] \in {run[q], 0}
        BY <3>3, RunStep, TypeOKShaped DEF IInv
      <4> QED
        BY <2>1, <4>1
    <3> QED
      BY <3>1, <3>2, <3>3 DEF Next
  <2>3. Abandoned(committed.units[i])'
    BY <1>1, <2>1, <2>2 DEF Abandoned, id
  <2> QED
    BY <1>1, <1>2, <2>3 DEF Stopped, Abandoned
<1> QED
  BY <1>1, <1>2, <1>3, <1>4

\* executeResumableCampaign, blocked: once a unit has ended for good, or was left
\* reserved or authorized by a command that is gone, no generation is committed any
\* more, by whatever command: the provider is not asked again for it, no later unit
\* is worked on, and the campaign is not finalized.
THEOREM StaysStoppedHolds ==
  ASSUME ClockUnbounded
  PROVE  Spec => StaysStopped
<1> DEFINE Stays == committed'.generation # committed.generation \/ run' # run =>
                      (Stopped => committed'.generation = committed.generation /\ Stopped')
<1>1. Init => IdsIssued
  BY DEF Init, IdsIssued, NoCheckpoint, PendingUnit
<1>2. IInv /\ IdsIssued /\ [Next]_vars => IdsIssued'
  BY IssuedStep
<1>3. IInv /\ IdsIssued /\ [Next]_vars => [Stays]_vars
  BY StoppedStep
<1> HIDE DEF Stays
<1>4. [][Stays]_vars => StaysStopped
  BY PTL DEF StaysStopped, Stays
<1> QED
  BY <1>1, <1>2, <1>3, <1>4, InvariantHolds, PTL DEF Spec

-----------------------------------------------------------------------------
(* The final family.                                                       *)

Finishing == {"intent", "execution", "analysis", "finalize"}

\* Who works on the family knows that every unit is completed, and the time the
\* family is for; what was completed once is completed still; the file of a
\* family is written once, for that time.
Finishes(p) ==
  /\ \A i \in UnitIndex : seen[p].units[i].state = "completed" => committed.units[i].state = "completed"
  /\ pc[p] \in Finishing \cup {"finalRead"} => AllCompleted(seen[p])
  /\ pc[p] \in Finishing => committed # NoCheckpoint /\ CompletedAt(seen[p]) = CompletedAt(committed)
  /\ pc[p] \in {"assertPublication", "link"} => FamilyVerified(next[p])

FamilyInv ==
  /\ \A f \in Files : family[f] \notin {Absent, Torn} => family[f] = CompletedAt(committed)
  /\ (\E f \in Files : family[f] # Absent) => AllCompleted(committed) /\ committed # NoCheckpoint
  /\ FamilyVerified(committed) /\ FamilyReusable
  /\ \A p \in Procs : Finishes(p)

\* The actions that write a file of the family.
Writes(p) == Intent(p) \/ Persist(p, "execution", "analysis") \/ Persist(p, "analysis", "finalize") \/ WriteTorn(p)

LEMMA FinishStep ==
  ASSUME IInv, NEW p \in Procs, Step(p) \/ Crash(p)
  PROVE  /\ pc'[p] = "finalRead" => seen' = seen /\ Uncompleted(seen[p]) = {}
         /\ pc'[p] \in Finishing => \/ pc[p] = "finalRead" /\ seen'[p] = committed
                                    \/ pc[p] \in Finishing /\ seen' = seen
         /\ pc'[p] \in {"assertPublication", "link"} =>
              FamilyVerified(next[p]) \/ pc[p] \in {"assertPublication", "link"}
         /\ family' # family => Writes(p)
         /\ outcome'[p] \in {"FINAL_OWNER_MISMATCH", "ARTIFACT_INTEGRITY"} => outcome'[p] = outcome[p] \/ Intent(p)
         /\ \A q \in Procs \ {p} : outcome'[q] = outcome[q]
<1> DEFINE Places == /\ pc'[p] = "finalRead" => seen' = seen /\ Uncompleted(seen[p]) = {}
                     /\ pc'[p] \in Finishing => \/ pc[p] = "finalRead" /\ seen'[p] = committed
                                                \/ pc[p] \in Finishing /\ seen' = seen
                     /\ pc'[p] \in {"assertPublication", "link"} =>
                          FamilyVerified(next[p]) \/ pc[p] \in {"assertPublication", "link"}
           Written == family' # family => Writes(p)
           Ended == /\ outcome'[p] \in {"FINAL_OWNER_MISMATCH", "ARTIFACT_INTEGRITY"} => outcome'[p] = outcome[p] \/ Intent(p)
                    /\ \A q \in Procs \ {p} : outcome'[q] = outcome[q]
<1>0. Shaped
  BY TypeOKShaped DEF IInv
<1> USE DEF root, locals
<1>1. ASSUME NEW step, Goto(p, step), step \notin Finishing \cup {"finalRead", "assertPublication", "link"} PROVE Places
  BY <1>0, <1>1 DEF Goto, Shaped
<1>2. ASSUME NEW how, Ends(p, how) PROVE Places
  BY <1>1, <1>2 DEF Ends, Finishing
<1>3. ASSUME Return(p) PROVE Places
  BY <1>1, <1>3 DEF Return, Finishing
<1>4. ASSUME NEW new, NEW continuation, Publish(p, new, continuation) PROVE Places
  BY <1>1, <1>4 DEF Publish, Finishing
<1>5. CASE Crash(p) \/ Acquire(p) \/ CheckWriter(p) \/ Release(p)
  <2>1. Places
    BY <1>1, <1>2, <1>3, <1>5 DEF Crash, Acquire, CheckWriter, Release, Finishing
  <2>2. Written
    BY <1>5 DEF Crash, Acquire, CheckWriter, Release
  <2>3. Ended
    BY <1>0, <1>5 DEF Crash, Acquire, CheckWriter, Release, Shaped
  <2> QED
    BY <2>1, <2>2, <2>3
<1>6. CASE FirstRead(p) \/ ReserveUnit(p) \/ Contexts(p) \/ Settle(p) \/ Finalize(p) \/ PreparationFails(p)
  <2>1. Places
    BY <1>1, <1>2, <1>4, <1>6
    DEF FirstRead, ReserveUnit, Contexts, Settle, Finalize, PreparationFails, Fails, Finishing
  <2>2. Written
    BY <1>6 DEF FirstRead, ReserveUnit, Contexts, Settle, Finalize, PreparationFails
  <2>3. Ended
    BY <1>0, <1>6
    DEF FirstRead, ReserveUnit, Contexts, Settle, Finalize, PreparationFails, Publish, Fails, Ends, Shaped
  <2> QED
    BY <2>1, <2>2, <2>3
<1>7. CASE Queue(p)
  <2>1. Places
    BY <1>0, <1>7 DEF Queue, Ends, Goto, Shaped, Finishing
  <2>2. Written /\ Ended
    BY <1>0, <1>7 DEF Queue, Ends, Shaped
  <2> QED
    BY <2>1, <2>2
<1>8. CASE Claim(p) \/ Attempt(p) \/ Invoke(p) \/ Settled(p)
  <2>1. Places
    BY <1>1, <1>2, <1>8 DEF Claim, Attempt, Invoke, Settled, Concludes, Fails, Finishing
  <2>2. Written
    BY <1>8 DEF Claim, Attempt, Invoke, Settled
  <2>3. Ended
    BY <1>0, <1>8 DEF Claim, Attempt, Invoke, Settled, Fails, Ends, Shaped
  <2> QED
    BY <2>1, <2>2, <2>3
<1>9. CASE Publication(p)
  <2>1. Places
    <3>1. CASE Fails(p)
      BY <1>2, <3>1 DEF Fails
    <3>2. CASE Lock(p) \/ Link(p) \/ Unlink(p) \/ PublicationFails(p)
      BY <1>1, <1>2, <3>2 DEF Lock, Link, Unlink, PublicationFails, Fails, Finishing
    <3>3. CASE AssertHistory(p) \/ AssertPublication(p)
      BY <1>0, <3>3 DEF AssertHistory, AssertPublication, Fails, Ends, Goto, Shaped, Finishing
    <3>4. CASE Readback(p)
      <4>1. then[p] \notin Finishing \cup {"finalRead", "assertPublication", "link"}
        BY <3>4 DEF IInv, Local, Made, Readback, Publishing, Finishing
      <4> QED
        BY <1>1, <1>2, <3>4, <4>1 DEF Readback, Fails
    <3> QED
      BY <1>9, <3>2, <3>3, <3>4 DEF Publication
  <2>2. Written
    BY <1>9 DEF Publication, Lock, AssertHistory, AssertPublication, Link, Unlink, Readback, PublicationFails
  <2>3. Ended
    BY <1>0, <1>9
    DEF Publication, Lock, AssertHistory, AssertPublication, Link, Unlink, Readback, PublicationFails, Fails, Ends, Shaped
  <2> QED
    BY <2>1, <2>2, <2>3
<1>10. CASE FinalRead(p) \/ Intent(p) \/ Persist(p, "execution", "analysis") \/ Persist(p, "analysis", "finalize")
            \/ WriteTorn(p) \/ Done(p)
  <2>1. Places
    BY <1>0, <1>10 DEF FinalRead, Intent, Persist, WriteTorn, Done, Fails, Ends, Goto, Shaped, Finishing
  <2>2. Written
    BY <1>10 DEF FinalRead, Done, Writes
  <2>3. Ended
    BY <1>0, <1>10 DEF FinalRead, Intent, Persist, WriteTorn, Done, Fails, Ends, Shaped
  <2> QED
    BY <2>1, <2>2, <2>3
<1> QED
  BY <1>5, <1>6, <1>7, <1>8, <1>9, <1>10 DEF Step, Finalization

\* A file that exists is not written again, and what is written is for the
\* time the process knows.
LEMMA WrittenOnce ==
  ASSUME IInv, NEW p \in Procs, Step(p) \/ Crash(p), NEW f \in Files, family'[f] # family[f]
  PROVE  /\ family[f] = Absent /\ family'[f] \in {Torn, CompletedAt(seen[p])}
         /\ pc[p] \in Finishing /\ committed' = committed
<1>1. Writes(p)
  BY FinishStep
<1>2. pc[p] \in Finishing /\ committed' = committed
  BY <1>1 DEF Writes, Intent, Persist, WriteTorn, Finishing, Files
<1>3. DOMAIN family = Files
  BY DEF IInv, TypeOK
<1>4. CASE Intent(p)
  BY <1>2, <1>3, <1>4 DEF Intent, Files
<1>5. CASE Persist(p, "execution", "analysis") \/ Persist(p, "analysis", "finalize")
  BY <1>2, <1>3, <1>5 DEF Persist
<1>6. CASE WriteTorn(p)
  BY <1>2, <1>3, <1>6 DEF WriteTorn
<1> QED
  BY <1>1, <1>4, <1>5, <1>6 DEF Writes

\* Once every unit is completed, nothing but the finalization is committed, for
\* the time the family was written for.
LEMMA OnlyFinalized ==
  ASSUME ClockUnbounded, IInv, NEW p \in Procs, Link(p), committed' # committed
  PROVE  /\ \A i \in UnitIndex : committed.units[i].state = "completed" => committed'.units[i] = committed.units[i]
         /\ AllCompleted(committed) /\ committed # NoCheckpoint =>
              /\ AllCompleted(committed') /\ CompletedAt(committed') = CompletedAt(committed)
         /\ committed' # NoCheckpoint
<1> DEFINE k == FirstUnit(committed)
<1>1. /\ committed' = next[p]
      /\ Made(committed, next[p], then[p], run[p], intent[p].authorization, evidence[p])
      /\ ValidCheckpoint(next[p])
      /\ next[p].units = committed.units \/ (UnitMoves(committed, next[p], k) /\ Open(committed, k))
  BY LinkMakes
<1>2. \A i \in UnitIndex : committed.units[i].state = "completed" => next[p].units[i] = committed.units[i]
  BY <1>1 DEF UnitMoves, Open
<1>3. next[p] # NoCheckpoint
  BY <1>1 DEF ValidCheckpoint, NoCheckpoint
<1>4. ASSUME AllCompleted(committed), committed # NoCheckpoint
      PROVE  AllCompleted(next[p]) /\ CompletedAt(next[p]) = CompletedAt(committed)
  <2>1. ASSUME NEW i \in UnitIndex PROVE ~Open(committed, i) /\ committed.units[i].state # "in-progress"
    BY <1>4 DEF Open, AllCompleted
  <2>2. committed.finalization = NoTime /\ next[p] = Finalized(committed, CompletedAt(committed), committed.generation + 1)
    BY <1>1, <1>4, <2>1 DEF Made, MayReserve, Held, InProgress
  <2>3. committed \in Checkpoints /\ ValidCheckpoint(committed) /\ committed.generation \in Nat
    BY <1>4, Typed DEF IInv, Grounded
  <2>4. CompletedAt(committed) \in Times /\ CompletedAt(committed) # NoTime
    BY <2>3, CompletedAtTyped, TimesAssumption DEF NoTime
  <2>5. next[p].finalization = CompletedAt(committed)
    <3>1. committed.generation + 1 \in Times
      BY <2>3 DEF ClockUnbounded
    <3> QED
      BY <2>2, <2>3, <2>4, <3>1, FinalizedMoves
  <2> QED
    BY <1>2, <1>4, <2>4, <2>5 DEF CompletedAt, AllCompleted
<1> QED
  BY <1>1, <1>2, <1>3, <1>4

LEMMA FinishesStep ==
  ASSUME ClockUnbounded, IInv, FamilyInv, NEW p \in Procs, Step(p) \/ Crash(p), NEW q \in Procs
  PROVE  Finishes(q)'
<1>1. Shaped /\ Alone(p) /\ Finishes(q) /\ Finishes(p)
  BY ActsAlone, TypeOKShaped DEF IInv, FamilyInv
\* What was completed is completed.
<1>2. ASSUME NEW i \in UnitIndex, seen'[q].units[i].state = "completed"
      PROVE  committed'.units[i].state = "completed"
  <2>1. seen'[q] \in {seen[q], NoCheckpoint, committed}
    BY <1>1, SeenStep DEF Alone
  <2>2. committed.units[i].state = "completed"
    BY <1>1, <1>2, <2>1 DEF Finishes, NoCheckpoint, PendingUnit
  <2>3. CASE committed' = committed
    BY <2>2, <2>3
  <2>4. CASE committed' # committed
    BY <2>2, <2>4, SharedStep, OnlyFinalized
  <2> QED
    BY <2>3, <2>4
<1>3. ASSUME pc'[q] \in Finishing \cup {"finalRead"}
      PROVE  AllCompleted(seen'[q])
  <2>1. CASE q # p
    BY <1>1, <1>3, <2>1 DEF Alone, Finishes
  <2>2. CASE q = p /\ pc'[p] = "finalRead"
    BY <2>2, FinishStep DEF Uncompleted, AllCompleted
  <2>3. CASE q = p /\ pc'[p] \in Finishing
    BY <1>1, <2>3, FinishStep DEF Finishes, AllCompleted
  <2> QED
    BY <1>3, <2>1, <2>2, <2>3
<1>4. ASSUME pc'[q] \in Finishing
      PROVE  committed' # NoCheckpoint /\ CompletedAt(seen'[q]) = CompletedAt(committed')
  <2>1. committed # NoCheckpoint /\ CompletedAt(seen'[q]) = CompletedAt(committed)
    <3>1. CASE pc[q] \in Finishing /\ seen'[q] = seen[q]
      BY <1>1, <3>1 DEF Finishes
    <3>2. CASE q = p /\ pc[p] = "finalRead" /\ seen'[p] = committed
      <4>1. seen[p].generation >= 1 /\ seen[p].generation <= committed.generation
        BY <3>2 DEF IInv, Local, View, Working, Publishing
      <4>2. seen[p].generation \in Nat /\ committed.generation \in Nat
        BY Typed DEF IInv
      <4> QED
        BY <3>2, <4>1, <4>2 DEF NoCheckpoint
    <3> QED
      BY <1>1, <1>4, <3>1, <3>2, FinishStep DEF Alone
  <2>2. AllCompleted(committed)
    <3>1. pc[q] \in Finishing \cup {"finalRead"}
      BY <1>1, <1>4, FinishStep DEF Alone
    <3> QED
      BY <1>1, <3>1 DEF Finishes, AllCompleted
  <2>3. CASE committed' = committed
    BY <2>1, <2>3
  <2>4. CASE committed' # committed
    BY <2>1, <2>2, <2>4, SharedStep, OnlyFinalized
  <2> QED
    BY <2>3, <2>4
\* What is verified stays verified: its files exist.
<1>5. ASSUME pc'[q] \in {"assertPublication", "link"}, next'[q].finalization # NoTime, NEW f \in Files
      PROVE  family'[f] = next'[q].finalization
  <2>1. next'[q] = next[q] /\ FamilyVerified(next[q])
    BY <1>1, <1>5, PlaceStep, FinishStep DEF Alone, Finishes
  <2>2. family[f] = next[q].finalization /\ family[f] # Absent
    BY <1>5, <2>1 DEF FamilyVerified, NoTime, Absent
  <2> QED
    BY <2>1, <2>2, WrittenOnce
<1> QED
  BY <1>2, <1>3, <1>4, <1>5 DEF Finishes, FamilyVerified

LEMMA FamilyStep ==
  ASSUME ClockUnbounded, IInv, FamilyInv, NEW p \in Procs, Step(p) \/ Crash(p)
  PROVE  FamilyInv'
<1>1. \A q \in Procs : Finishes(q)'
  BY FinishesStep
<1>2. Finishes(p) /\ Shaped
  BY TypeOKShaped DEF IInv, FamilyInv
\* What a process writes is for the newest checkpoint.
<1>3. ASSUME NEW f \in Files, family'[f] # family[f]
      PROVE  /\ family[f] = Absent /\ family'[f] \in {Torn, CompletedAt(committed)}
             /\ committed' = committed /\ AllCompleted(committed) /\ committed # NoCheckpoint
  <2>1. /\ family[f] = Absent /\ family'[f] \in {Torn, CompletedAt(seen[p])}
        /\ pc[p] \in Finishing /\ committed' = committed
    BY <1>3, WrittenOnce
  <2> QED
    BY <1>2, <2>1 DEF Finishes, AllCompleted
<1>4. ASSUME \E f \in Files : family[f] # Absent
      PROVE  AllCompleted(committed') /\ committed' # NoCheckpoint /\ CompletedAt(committed') = CompletedAt(committed)
  <2>1. AllCompleted(committed) /\ committed # NoCheckpoint
    BY <1>4 DEF FamilyInv
  <2>2. CASE committed' # committed
    BY <2>1, <2>2, SharedStep, OnlyFinalized
  <2> QED
    BY <2>1, <2>2
<1>5. ASSUME NEW f \in Files, family'[f] \notin {Absent, Torn}
      PROVE  family'[f] = CompletedAt(committed')
  <2>1. CASE family'[f] = family[f]
    BY <1>4, <1>5, <2>1 DEF FamilyInv
  <2>2. CASE family'[f] # family[f]
    BY <1>3, <1>5, <2>2
  <2> QED
    BY <2>1, <2>2
<1>6. ASSUME NEW f \in Files, family'[f] # Absent
      PROVE  AllCompleted(committed') /\ committed' # NoCheckpoint
  BY <1>3, <1>4, <1>6
<1>7. ASSUME committed'.finalization # NoTime, NEW f \in Files
      PROVE  family'[f] = committed'.finalization
  <2>1. family[f] = committed'.finalization
    <3>1. CASE committed' = committed
      BY <1>7, <3>1 DEF FamilyInv, FamilyVerified
    <3>2. CASE committed' # committed
      <4>1. committed' = next[p] /\ pc[p] = "link"
        BY <3>2, SharedStep, LinkMakes
      <4> QED
        BY <1>2, <1>7, <4>1 DEF Finishes, FamilyVerified
    <3> QED
      BY <3>1, <3>2
  <2>2. family[f] # Absent
    BY <1>7, <2>1 DEF NoTime, Absent
  <2> QED
    BY <1>3, <2>1, <2>2
\* A torn file stays, and only a torn file is in the way of a command.
<1>8. ASSUME NEW f \in Files, family[f] = Torn
      PROVE  family'[f] = Torn
  BY <1>3, <1>8 DEF Torn, Absent
<1>9. ASSUME NEW q \in Procs, outcome'[q] \in {"FINAL_OWNER_MISMATCH", "ARTIFACT_INTEGRITY"}
      PROVE  \E f \in Files : family'[f] = Torn
  <2>1. CASE outcome'[q] = outcome[q]
    BY <1>8, <1>9, <2>1 DEF FamilyInv, FamilyReusable
  <2>2. CASE q = p /\ Intent(p) /\ outcome'[p] # outcome[p]
    <3>1. CompletedAt(seen[p]) = CompletedAt(committed)
      BY <1>2, <2>2 DEF Finishes, Intent, Finishing
    <3>2. \E f \in Files : family[f] \notin {Absent, CompletedAt(seen[p])}
      BY <1>2, <1>9, <2>2 DEF Intent, Files, Fails, Ends, Shaped
    <3> QED
      BY <1>8, <3>1, <3>2 DEF FamilyInv
  <2> QED
    BY <1>9, <2>1, <2>2, FinishStep
<1> QED
  BY <1>1, <1>5, <1>6, <1>7, <1>9 DEF FamilyInv, FamilyVerified, FamilyReusable

\* publishCampaignFinalArtifacts: no file of the final family exists before every
\* unit is completed; a finalized checkpoint has the whole family beside it; and a
\* command is refused only when a file was left partially written.
THEOREM FamilySoundHolds ==
  ASSUME ClockUnbounded
  PROVE  Spec => []FamilySound
<1>1. Init => FamilyInv
  BY DEF Init, FamilyInv, FamilyVerified, FamilyReusable, Finishes, Finishing, NoCheckpoint, PendingUnit, NoTime, Absent
<1>2. IInv /\ FamilyInv /\ [Next]_vars => FamilyInv'
  <2> SUFFICES ASSUME IInv, FamilyInv, [Next]_vars PROVE FamilyInv'
    OBVIOUS
  <2>1. CASE UNCHANGED vars
    BY <2>1 DEF vars, FamilyInv, FamilyVerified, FamilyReusable, Finishes
  <2>2. CASE RemoveMarker \/ ClearPublication
    BY <2>2 DEF RemoveMarker, ClearPublication, locals, FamilyInv, FamilyVerified, FamilyReusable, Finishes
  <2>3. ASSUME NEW p \in Procs, Command(p) PROVE FamilyInv'
    <3>1. Shaped /\ Alone(p) /\ UNCHANGED <<root, seen>> /\ pc'[p] = "acquire"
      BY <2>3, CommandStep, TypeOKShaped DEF IInv
    <3>2. \A q \in Procs : outcome'[q] \in {outcome[q], "none"}
      BY <2>3, <3>1 DEF Command, Shaped
    <3>3. \A q \in Procs : Finishes(q)'
      BY <3>1 DEF FamilyInv, Finishes, Alone, root, FamilyVerified, Finishing
    <3> QED
      BY <3>1, <3>2, <3>3 DEF FamilyInv, FamilyVerified, FamilyReusable, root
  <2>4. ASSUME NEW p \in Procs, Step(p) \/ Crash(p) PROVE FamilyInv'
    BY <2>4, FamilyStep
  <2> QED
    BY <2>1, <2>2, <2>3, <2>4 DEF Next
<1>3. FamilyInv => FamilySound
  BY DEF FamilyInv, FamilySound, FamilyWhole
<1> QED
  BY <1>1, <1>2, <1>3, InvariantHolds, PTL DEF Spec

-----------------------------------------------------------------------------
(* The one-case limit.                                                     *)

\* The unit under way is of the case that is processed, and so was every unit a
\* provider was called for by this command.
CaseKnown(p) == case[p] = CaseOf(FirstUnit(seen[p]))
Limited(p) ==
  /\ intent[p].oneCase => \A x \in invoked : x.run = run[p] => CaseOf(x.unit) = case[p]
  /\ pc[p] = "idle" => ~intent[p].oneCase
  /\ pc[p] \in {"reserve", "contexts", "claim", "settle"} \cup Calling => CaseKnown(p)
  /\ pc[p] \in Publishing /\ then[p] \in {"contexts", "claim"} => CaseKnown(p)

OneCaseInv ==
  /\ \A x \in invoked : x.run <= runs
  /\ \A p \in Procs : Limited(p)

\* What a step does to the case that is processed.
CaseStep(p) ==
  /\ \A q \in Procs \ {p} : case'[q] = case[q]
  /\ pc'[p] = "idle" => ~intent'[p].oneCase
  /\ pc'[p] # "idle" => intent'[p].oneCase = intent[p].oneCase
  /\ pc'[p] # "idle" =>
       \/ case'[p] = case[p]
       \/ Queue(p) /\ case'[p] = CaseOf(FirstUnit(seen[p])) /\ (intent[p].oneCase => case[p] \in {0, case'[p]})
  /\ pc'[p] \in {"reserve", "contexts", "claim", "settle"} \cup Calling => CaseKnown(p)'
  /\ pc'[p] \in Publishing /\ then'[p] \in {"contexts", "claim"} => CaseKnown(p)'

LEMMA CaseSteps ==
  ASSUME ClockUnbounded, IInv, OneCaseInv, NEW p \in Procs, Step(p) \/ Crash(p)
  PROVE  CaseStep(p)
<1>0. Shaped /\ Limited(p) /\ Local(p)
  BY TypeOKShaped DEF IInv, OneCaseInv
<1> USE DEF root, locals
<1>1. ASSUME Return(p) PROVE CaseStep(p)
  BY <1>0, <1>1 DEF Return, Goto, Shaped, CaseStep, NoIntent, Calling, Publishing
<1> DEFINE Elsewhere == {"release"} \cup (Working \ (Publishing \cup Calling \cup {"reserve", "contexts", "claim", "settle"}))
<1>2. ASSUME NEW step \in Elsewhere, Goto(p, step), UNCHANGED <<case, intent>> PROVE CaseStep(p)
  BY <1>0, <1>2 DEF Goto, Shaped, CaseStep, Working, Publishing, Calling
<1>3. ASSUME NEW how, Ends(p, how), UNCHANGED <<case, intent>> PROVE CaseStep(p)
  BY <1>2, <1>3 DEF Ends
<1>4. ASSUME NEW new, NEW continuation, Publish(p, new, continuation), UNCHANGED <<case, intent, seen>>,
             continuation \in {"contexts", "claim"} => CaseKnown(p)
      PROVE  CaseStep(p)
  BY <1>0, <1>4 DEF Publish, Goto, Shaped, CaseStep, CaseKnown, Publishing, Calling
\* A step from a place where the case is known to another.
<1>5. ASSUME NEW step \in Calling \cup {"reserve", "settle"} \cup Publishing, Goto(p, step),
             UNCHANGED <<case, intent, seen, then>>,
             \/ step \in Publishing /\ pc[p] \in Publishing
             \/ pc[p] \in {"claim"} \cup Calling
      PROVE  CaseStep(p)
  BY <1>0, <1>5 DEF Goto, Shaped, CaseStep, Limited, CaseKnown, Publishing, Calling
<1>6. CASE Crash(p) \/ Release(p)
  BY <1>1, <1>6 DEF Crash, Release
<1>7. CASE Acquire(p) \/ CheckWriter(p)
  <2>1. CASE Return(p)
    BY <1>1, <2>1
  <2>2. CASE (Goto(p, "checkWriter") \/ Goto(p, "firstRead")) /\ UNCHANGED <<locals, outcome>>
    BY <1>0, <2>2 DEF Goto, Shaped, CaseStep, Publishing, Calling
  <2> QED
    BY <1>7, <2>1, <2>2 DEF Acquire, CheckWriter
<1> USE DEF Fails
<1>8. CASE FirstRead(p) \/ PreparationFails(p)
  <2>1. UNCHANGED <<case, intent>>
    BY <1>8 DEF FirstRead, PreparationFails
  <2>2. \/ Publish(p, Created(1), "queue") /\ UNCHANGED seen
        \/ Fails(p) \/ Goto(p, "queue")
    BY <1>8 DEF FirstRead, PreparationFails
  <2> QED
    BY <1>2, <1>3, <1>4, <2>1, <2>2 DEF Working, Publishing, Calling
<1>9. CASE Queue(p)
  <2>1. UNCHANGED <<intent, seen>> /\ pc[p] = "queue"
    BY <1>9 DEF Queue
  <2>2. CASE case' = case /\ (Goto(p, "finalRead") \/ Ends(p, "partial") \/ Ends(p, "blocked"))
    BY <1>2, <1>3, <2>1, <2>2 DEF Working, Publishing, Calling
  <2>3. CASE /\ case' = [case EXCEPT ![p] = CaseOf(FirstUnit(seen[p]))] /\ Goto(p, "reserve")
             /\ ~ (intent[p].oneCase /\ case[p] \notin {0, CaseOf(FirstUnit(seen[p]))})
    BY <1>0, <1>9, <2>1, <2>3 DEF Goto, Shaped, CaseStep, CaseKnown, Publishing, Calling
  <2> QED
    BY <1>9, <2>2, <2>3 DEF Queue
<1>10. CASE ReserveUnit(p) \/ Contexts(p) \/ Settle(p) \/ Finalize(p)
  <2>1. UNCHANGED <<case, intent, seen>>
    BY <1>10 DEF ReserveUnit, Contexts, Settle, Finalize
  <2>2. pc[p] # "finalize" => CaseKnown(p)
    BY <1>0, <1>10 DEF ReserveUnit, Contexts, Settle, Finalize, Limited
  <2>3. \/ Fails(p) \/ Goto(p, "done")
        \/ \E new, continuation : /\ Publish(p, new, continuation)
                                  /\ continuation \in {"contexts", "claim"} => pc[p] # "finalize"
    BY <1>10 DEF ReserveUnit, Contexts, Settle, Finalize
  <2> QED
    BY <1>2, <1>3, <1>4, <2>1, <2>2, <2>3 DEF Working, Publishing, Calling
<1>11. CASE Claim(p) \/ Attempt(p) \/ Invoke(p)
  <2>1. UNCHANGED <<case, intent, seen, then>> /\ pc[p] \in {"claim"} \cup Calling
    BY <1>11 DEF Claim, Attempt, Invoke, Calling
  <2>2. Fails(p) \/ Goto(p, "attempt") \/ Goto(p, "invoke") \/ Goto(p, "settle")
    BY <1>11 DEF Claim, Attempt, Invoke, Concludes
  <2> QED
    BY <1>3, <1>5, <2>1, <2>2 DEF Calling
<1>12. CASE Settled(p)
  <2>1. pc'[p] \in {"queue", "release"} /\ intent'[p].oneCase = intent[p].oneCase /\ case' = case
    BY <1>0, <1>12, Typed DEF Settled, Goto, Ends, Shaped, IInv, Intents
  <2> QED
    BY <2>1 DEF CaseStep, Publishing, Calling
<1>13. CASE Publication(p)
  <2>1. UNCHANGED <<case, intent, then>> /\ pc[p] \in Publishing
    BY <1>13 DEF Publication, Lock, AssertHistory, AssertPublication, Link, Unlink, Readback, PublicationFails, Publishing
  <2>2. CASE Fails(p)
    BY <1>3, <2>1, <2>2
  <2>3. CASE Readback(p) /\ seen' = [seen EXCEPT ![p] = next[p]] /\ Goto(p, then[p])
    <3>1. /\ then[p] \in {"contexts", "claim"} => FirstUnit(next[p]) = FirstUnit(seen[p])
          /\ then[p] \in {"queue", "contexts", "claim", "settled", "done"}
      BY <1>0, <2>1, MadeTyped DEF Local, Publishing
    <3>2. seen'[p] = next[p] /\ pc'[p] = then[p]
      BY <1>0, <2>3 DEF Goto, Shaped
    <3>3. then[p] \in {"contexts", "claim"} => CaseKnown(p)
      BY <1>0, <2>1 DEF Limited
    <3> QED
      BY <2>1, <3>1, <3>2, <3>3 DEF CaseStep, CaseKnown, Publishing, Calling
  <2>4. CASE ~Fails(p) /\ ~Readback(p)
    <3>1. PICK step \in Publishing : Goto(p, step) /\ UNCHANGED locals
      BY <1>13, <2>4 DEF Publication, Lock, AssertHistory, AssertPublication, Link, Unlink, PublicationFails, Publishing
    <3> QED
      BY <1>5, <2>1, <3>1
  <2> QED
    BY <2>2, <2>3, <2>4 DEF Readback
<1>14. CASE FinalRead(p) \/ Intent(p) \/ Persist(p, "execution", "analysis") \/ Persist(p, "analysis", "finalize")
            \/ WriteTorn(p) \/ Done(p)
  BY <1>2, <1>3, <1>14 DEF FinalRead, Intent, Persist, WriteTorn, Done, Working, Publishing, Calling
<1> QED
  BY <1>6, <1>7, <1>8, <1>9, <1>10, <1>11, <1>12, <1>13, <1>14 DEF Step, Finalization

\* What is called for is of the case that is processed.
LEMMA LimitedStep ==
  ASSUME ClockUnbounded, IInv, OneCaseInv, NEW p \in Procs, Step(p) \/ Crash(p)
  PROVE  OneCaseInv'
<1>1. Alone(p) /\ OwnStep(p) /\ CaseStep(p) /\ Shaped
  BY ActsAlone, LocalStep, CaseSteps, TypeOKShaped DEF IInv
<1>2. ASSUME NEW x \in invoked', x \notin invoked
      PROVE  x.run = run[p] /\ run[p] \in 1..runs /\ CaseOf(x.unit) = case[p] /\ UNCHANGED <<case, run>>
             /\ pc[p] # "idle"
  <2>1. Invoke(p)
    BY <1>2, SharedStep
  <2>2. CaseKnown(p) /\ run[p] \in 1..runs
    BY <2>1 DEF OneCaseInv, Limited, Invoke, Calling, IInv, RunInv
  <2> QED
    BY <1>2, <2>1, <2>2 DEF Invoke, CaseKnown
<1>3. ASSUME NEW x \in invoked' PROVE x.run <= runs'
  <2>1. runs \in Nat
    BY RunsAssumption DEF IInv, TypeOK
  <2> QED
    BY <1>1, <1>2, <1>3, <2>1 DEF OneCaseInv, OwnStep
<1>4. ASSUME NEW q \in Procs, intent'[q].oneCase, NEW x \in invoked', x.run = run'[q]
      PROVE  CaseOf(x.unit) = case'[q]
  <2>1. pc'[q] # "idle" /\ run'[q] = run[q] /\ intent[q].oneCase /\ pc[q] # "idle"
    BY <1>1, <1>4 DEF CaseStep, Alone, OneCaseInv, Limited, OwnStep
  <2>2. CASE x \notin invoked
    <3>1. q = p
      BY <1>2, <1>4, <2>1, <2>2 DEF IInv, RunInv
    <3> QED
      BY <1>2, <2>2, <3>1
  <2>3. CASE x \in invoked
    <3>1. CaseOf(x.unit) = case[q]
      BY <1>4, <2>1, <2>3 DEF OneCaseInv, Limited
    <3>2. CaseOf(x.unit) # 0
      BY <2>3, NAssumption DEF IInv, TypeOK, Invocations, CaseOf, UnitIndex
    <3> QED
      BY <1>1, <2>1, <3>1, <3>2 DEF CaseStep
  <2> QED
    BY <2>2, <2>3
<1>5. ASSUME NEW q \in Procs
      PROVE  /\ pc'[q] = "idle" => ~intent'[q].oneCase
             /\ pc'[q] \in {"reserve", "contexts", "claim", "settle"} \cup Calling => CaseKnown(q)'
             /\ pc'[q] \in Publishing /\ then'[q] \in {"contexts", "claim"} => CaseKnown(q)'
  BY <1>1 DEF CaseStep, Alone, OneCaseInv, Limited, CaseKnown
<1> QED
  BY <1>3, <1>4, <1>5 DEF OneCaseInv, Limited

\* runAgentCampaignCommand, executeResumableCampaign: a one-case command calls
\* the provider for one case only, whatever it resumes.
THEOREM OneCaseKeptHolds ==
  ASSUME ClockUnbounded
  PROVE  Spec => []OneCaseKept
<1>1. Init => OneCaseInv
  BY DEF Init, OneCaseInv, Limited, NoIntent, Publishing, Calling
<1>2. IInv /\ OneCaseInv /\ [Next]_vars => OneCaseInv'
  <2> SUFFICES ASSUME IInv, OneCaseInv, [Next]_vars PROVE OneCaseInv'
    OBVIOUS
  <2>1. CASE UNCHANGED vars
    BY <2>1 DEF vars, OneCaseInv, Limited, CaseKnown
  <2>2. CASE RemoveMarker \/ ClearPublication
    BY <2>2 DEF RemoveMarker, ClearPublication, locals, OneCaseInv, Limited, CaseKnown
  <2>3. ASSUME NEW p \in Procs, Command(p) PROVE OneCaseInv'
    <3>1. /\ Alone(p) /\ UNCHANGED <<invoked, seen, case>> /\ pc'[p] = "acquire"
          /\ runs' = runs + 1 /\ run'[p] = runs + 1
      BY <2>3, CommandStep DEF Command
    <3>2. runs \in Nat /\ \A x \in invoked : x.run \in Nat /\ x.run <= runs
      BY RunsAssumption DEF IInv, TypeOK, OneCaseInv, Invocations
    <3>3. \A q \in Procs : Limited(q)'
      BY <3>1, <3>2 DEF OneCaseInv, Limited, Alone, CaseKnown, Publishing, Calling
    <3> QED
      BY <3>1, <3>2, <3>3 DEF OneCaseInv
  <2>4. ASSUME NEW p \in Procs, Step(p) \/ Crash(p) PROVE OneCaseInv'
    BY <2>4, LimitedStep
  <2> QED
    BY <2>1, <2>2, <2>3, <2>4 DEF Next
<1>3. OneCaseInv => OneCaseKept
  BY DEF OneCaseInv, Limited, OneCaseKept
<1> QED
  BY <1>1, <1>2, <1>3, InvariantHolds, PTL DEF Spec
=============================================================================
