------------------------ MODULE CheckpointStoreProofs ------------------------
(***************************************************************************)
(* Safety of CheckpointStore for any number of processes, identities and   *)
(* attempts.                                                               *)
(***************************************************************************)
EXTENDS CheckpointStore, TLAPS

\* Before its temporary file exists, a candidate is in no file.
Unwritten == {"assertEntry", "directory", "ownDirectory", "lockWriter", "assertLocked",
              "validateHistory", "openTemporary"}

\* Whoever holds the dispatch, or is acquiring it, owns the marker.
MarkerInv ==
  \A p \in Procs :
    /\ dispatch[p] => pc[p] \notin {"idle", "checkV1", "checkV2", "crashed"}
    /\ pc[p] \in {"owner", "releaseDispatch"} => dispatch[p]
    /\ dispatch[p] \/ pc[p] \in {"checkV1", "checkV2"} => marker = p

\* Whoever works between the lock and its removal owns writer.json.
LockInv == \A p \in Procs : pc[p] \in Guarded => writer[target[p]] = p

\* A bare writer that passed its assertion under the lock is seen by every
\* process that looks for it afterwards: nobody holds the dispatch of its
\* identity, and nobody acquiring it is past the check of the writer's format.
FlagInv ==
  \A p, q \in Procs :
    p # q /\ pc[q] \in Publishing /\ ~dispatch[q] /\ target[q].id = target[p].id
      => ~dispatch[p] /\ ~(pc[p] = "checkV2" /\ target[q].format = "v1")

\* A validated candidate is a successor of something committed.
CandidateInv ==
  \A p \in Procs : pc[p] \in {"openTemporary", "assertPublication", "link"} =>
    \E b \in generations[target[p]] \cup {NoCheckpoint} : candidate[p] = Successor(b, candidate[p].revision)

\* A candidate is built once: what a process wrote earlier has an older number.
FreshInv ==
  /\ \A s \in Stores : \A c \in temporaries[s] \cup generations[s] :
       /\ c.revision.by \in Procs
       /\ c.revision.n <= attempts[c.revision.by]
  /\ \A p \in Procs : pc[p] \in Unwritten \cup {"assertPublication", "link", "unlinkTemporary"} =>
       candidate[p].revision = [by |-> p, n |-> attempts[p]]
  /\ \A p \in Procs, s \in Stores :
       /\ pc[p] \in Unwritten => candidate[p] \notin temporaries[s] \cup generations[s]
       /\ pc[p] \in {"assertPublication", "link"} => candidate[p] \notin generations[s]

\* Under the lock, the only committed temporary is the holder's own.
OrphanInv ==
  /\ OrphanTemporaryUncommitted
  /\ \A p \in Procs :
       LET both == temporaries[target[p]] \cap generations[target[p]] IN
       /\ pc[p] \in Guarded \ {"unlinkTemporary"} => both = {}
       /\ pc[p] = "unlinkTemporary" => both \subseteq {candidate[p]}

IInv == TypeOK /\ MarkerInv /\ LockInv /\ FlagInv /\ ChainIntact /\ CandidateInv /\ FreshInv /\ OrphanInv

\* The files and locals no action but the named ones touches.
USE DEF Goto, files, locals

\* An empty output root satisfies the inductive invariant: no file exists, and no
\* process is past "idle".
LEMMA InitIInv == Init => IInv
  BY NoProcAssumption DEF Init, IInv, TypeOK, MarkerInv, LockInv, FlagInv, ChainIntact, CandidateInv,
     FreshInv, OrphanInv, OrphanTemporaryUncommitted, Stores, Formats, Steps, Guarded, Publishing, Unwritten,
     Checkpoints, Revisions, NoCheckpoint, NoRevision

\* Every step keeps each file and each local of a process in its type.
LEMMA TypeStep == TypeOK /\ [Next]_vars => TypeOK'
<1> SUFFICES ASSUME TypeOK, [Next]_vars PROVE TypeOK'
  OBVIOUS
<1> USE DEF TypeOK, Steps, Guarded
<1>1. CASE UNCHANGED vars
  BY <1>1 DEF vars
<1>2. ASSUME NEW p \in Procs, Acquire(p) \/ Release(p) \/ Write(p) \/ Crash(p) PROVE TypeOK'
  <2>1. ASSUME NEW i \in Identities, OpenMarker(p, i) PROVE TypeOK'
    BY <2>1 DEF OpenMarker, Stores, Formats
  <2>2. ASSUME NEW s \in Stores, BeginWrite(p, s) PROVE TypeOK'
    BY <2>2 DEF BeginWrite, Successor, Checkpoints, Revisions, NoCheckpoint, NoRevision
  <2>3. CASE CheckV1(p)
    BY <2>3 DEF CheckV1
  <2>4. CASE CheckV2(p)
    BY <2>4 DEF CheckV2
  <2>5. CASE AcquireFails(p)
    BY <2>5 DEF AcquireFails
  <2>6. CASE ReleaseDispatch(p)
    BY <2>6 DEF ReleaseDispatch
  <2>7. CASE ReleaseFails(p)
    BY <2>7 DEF ReleaseFails
  <2>8. CASE AssertEntry(p)
    BY <2>8 DEF AssertEntry, Throw
  <2>9. CASE OpenDirectory(p)
    BY <2>9 DEF OpenDirectory, Throw
  <2>10. CASE OwnDirectory(p)
    BY <2>10 DEF OwnDirectory
  <2>11. CASE LockWriter(p)
    BY <2>11 DEF LockWriter, Throw
  <2>12. CASE AssertLocked(p)
    BY <2>12 DEF AssertLocked
  <2>13. CASE ValidateHistory(p)
    BY <2>13 DEF ValidateHistory
  <2>14. CASE OpenTemporary(p)
    BY <2>14 DEF OpenTemporary
  <2>15. CASE AssertPublication(p)
    BY <2>15 DEF AssertPublication
  <2>16. CASE Link(p)
    BY <2>16 DEF Link
  <2>17. CASE UnlinkTemporary(p)
    BY <2>17 DEF UnlinkTemporary
  <2>18. CASE UnlinkWriter(p)
    BY <2>18 DEF UnlinkWriter
  <2>19. CASE Abort(p)
    BY <2>19 DEF Abort, Throw
  <2>20. CASE WriteFails(p)
    BY <2>20 DEF WriteFails, Throw
  <2>21. CASE Crash(p)
    BY <2>21 DEF Crash
  <2> QED
    BY <1>2, <2>1, <2>2, <2>3, <2>4, <2>5, <2>6, <2>7, <2>8, <2>9, <2>10, <2>11, <2>12, <2>13, <2>14, <2>15, <2>16, <2>17, <2>18, <2>19, <2>20, <2>21 DEF Acquire, Release, Write
<1> QED
  BY <1>1, <1>2 DEF Next

\* Opening, keeping and removing campaign-dispatch.json: only its owner ever
\* holds a dispatch or looks for active writers.
LEMMA MarkerStep == TypeOK /\ MarkerInv /\ [Next]_vars => MarkerInv'
<1> SUFFICES ASSUME TypeOK, MarkerInv, [Next]_vars PROVE MarkerInv'
  OBVIOUS
<1> USE NoProcAssumption DEF TypeOK, MarkerInv, Guarded
<1>1. CASE UNCHANGED vars
  BY <1>1 DEF vars
<1>2. ASSUME NEW p \in Procs, Acquire(p) \/ Release(p) \/ Write(p) \/ Crash(p) PROVE MarkerInv'
  <2>1. ASSUME NEW i \in Identities, OpenMarker(p, i) PROVE MarkerInv'
    BY <2>1 DEF OpenMarker
  <2>2. ASSUME NEW s \in Stores, BeginWrite(p, s) PROVE MarkerInv'
    BY <2>2 DEF BeginWrite
  <2>3. CASE CheckV1(p)
    BY <2>3 DEF CheckV1
  <2>4. CASE CheckV2(p)
    BY <2>4 DEF CheckV2
  <2>5. CASE AcquireFails(p)
    BY <2>5 DEF AcquireFails
  <2>6. CASE ReleaseDispatch(p)
    BY <2>6 DEF ReleaseDispatch
  <2>7. CASE ReleaseFails(p)
    BY <2>7 DEF ReleaseFails
  <2>8. CASE AssertEntry(p)
    BY <2>8 DEF AssertEntry, Throw
  <2>9. CASE OpenDirectory(p)
    BY <2>9 DEF OpenDirectory, Throw
  <2>10. CASE OwnDirectory(p)
    BY <2>10 DEF OwnDirectory
  <2>11. CASE LockWriter(p)
    BY <2>11 DEF LockWriter, Throw
  <2>12. CASE AssertLocked(p)
    BY <2>12 DEF AssertLocked
  <2>13. CASE ValidateHistory(p)
    BY <2>13 DEF ValidateHistory
  <2>14. CASE OpenTemporary(p)
    BY <2>14 DEF OpenTemporary
  <2>15. CASE AssertPublication(p)
    BY <2>15 DEF AssertPublication
  <2>16. CASE Link(p)
    BY <2>16 DEF Link
  <2>17. CASE UnlinkTemporary(p)
    BY <2>17 DEF UnlinkTemporary
  <2>18. CASE UnlinkWriter(p)
    BY <2>18 DEF UnlinkWriter
  <2>19. CASE Abort(p)
    BY <2>19 DEF Abort, Throw
  <2>20. CASE WriteFails(p)
    BY <2>20 DEF WriteFails, Throw
  <2>21. CASE Crash(p)
    BY <2>21 DEF Crash
  <2> QED
    BY <1>2, <2>1, <2>2, <2>3, <2>4, <2>5, <2>6, <2>7, <2>8, <2>9, <2>10, <2>11, <2>12, <2>13, <2>14, <2>15, <2>16, <2>17, <2>18, <2>19, <2>20, <2>21 DEF Acquire, Release, Write
<1> QED
  BY <1>1, <1>2 DEF Next

\* Between the "wx" open of writer.json and its removal the lock is its
\* opener's, because nobody else can open or remove it.
LEMMA LockStep == TypeOK /\ LockInv /\ [Next]_vars => LockInv'
<1> SUFFICES ASSUME TypeOK, LockInv, [Next]_vars PROVE LockInv'
  OBVIOUS
<1> USE NoProcAssumption DEF TypeOK, LockInv, Guarded
<1>1. CASE UNCHANGED vars
  BY <1>1 DEF vars
<1>2. ASSUME NEW p \in Procs, Acquire(p) \/ Release(p) \/ Write(p) \/ Crash(p) PROVE LockInv'
  <2>1. ASSUME NEW i \in Identities, OpenMarker(p, i) PROVE LockInv'
    BY <2>1 DEF OpenMarker
  <2>2. ASSUME NEW s \in Stores, BeginWrite(p, s) PROVE LockInv'
    BY <2>2 DEF BeginWrite
  <2>3. CASE CheckV1(p)
    BY <2>3 DEF CheckV1
  <2>4. CASE CheckV2(p)
    BY <2>4 DEF CheckV2
  <2>5. CASE AcquireFails(p)
    BY <2>5 DEF AcquireFails
  <2>6. CASE ReleaseDispatch(p)
    BY <2>6 DEF ReleaseDispatch
  <2>7. CASE ReleaseFails(p)
    BY <2>7 DEF ReleaseFails
  <2>8. CASE AssertEntry(p)
    BY <2>8 DEF AssertEntry, Throw
  <2>9. CASE OpenDirectory(p)
    BY <2>9 DEF OpenDirectory, Throw
  <2>10. CASE OwnDirectory(p)
    BY <2>10 DEF OwnDirectory
  <2>11. CASE LockWriter(p)
    BY <2>11 DEF LockWriter, Throw
  <2>12. CASE AssertLocked(p)
    BY <2>12 DEF AssertLocked
  <2>13. CASE ValidateHistory(p)
    BY <2>13 DEF ValidateHistory
  <2>14. CASE OpenTemporary(p)
    BY <2>14 DEF OpenTemporary
  <2>15. CASE AssertPublication(p)
    BY <2>15 DEF AssertPublication
  <2>16. CASE Link(p)
    BY <2>16 DEF Link
  <2>17. CASE UnlinkTemporary(p)
    BY <2>17 DEF UnlinkTemporary
  <2>18. CASE UnlinkWriter(p)
    BY <2>18 DEF UnlinkWriter
  <2>19. CASE Abort(p)
    BY <2>19 DEF Abort, Throw
  <2>20. CASE WriteFails(p)
    BY <2>20 DEF WriteFails, Throw
  <2>21. CASE Crash(p)
    BY <2>21 DEF Crash
  <2> QED
    BY <1>2, <2>1, <2>2, <2>3, <2>4, <2>5, <2>6, <2>7, <2>8, <2>9, <2>10, <2>11, <2>12, <2>13, <2>14, <2>15, <2>16, <2>17, <2>18, <2>19, <2>20, <2>21 DEF Acquire, Release, Write
<1> QED
  BY <1>1, <1>2 DEF Next

\* A writer opens writer.json and then looks at the marker; an acquirer opens the
\* marker and then looks at writer.json.  Whichever looks second sees the other.
LEMMA FlagStep == TypeOK /\ MarkerInv /\ LockInv /\ FlagInv /\ [Next]_vars => FlagInv'
<1> SUFFICES ASSUME TypeOK, MarkerInv, LockInv, FlagInv, [Next]_vars PROVE FlagInv'
  OBVIOUS
<1> USE NoProcAssumption DEF TypeOK, MarkerInv, LockInv, FlagInv, Guarded, Publishing, Stores, Formats
<1>1. CASE UNCHANGED vars
  BY <1>1 DEF vars
<1>2. ASSUME NEW p \in Procs, Acquire(p) \/ Release(p) \/ Write(p) \/ Crash(p) PROVE FlagInv'
  <2>1. ASSUME NEW i \in Identities, OpenMarker(p, i) PROVE FlagInv'
    BY <2>1 DEF OpenMarker
  <2>2. ASSUME NEW s \in Stores, BeginWrite(p, s) PROVE FlagInv'
    BY <2>2 DEF BeginWrite
  <2>3. CASE CheckV1(p)
    BY <2>3 DEF CheckV1, NoActiveWriter
  <2>4. CASE CheckV2(p)
    BY <2>4 DEF CheckV2, NoActiveWriter
  <2>5. CASE AcquireFails(p)
    BY <2>5 DEF AcquireFails
  <2>6. CASE ReleaseDispatch(p)
    BY <2>6 DEF ReleaseDispatch
  <2>7. CASE ReleaseFails(p)
    BY <2>7 DEF ReleaseFails
  <2>8. CASE AssertEntry(p)
    BY <2>8 DEF AssertEntry, Throw
  <2>9. CASE OpenDirectory(p)
    BY <2>9 DEF OpenDirectory, Throw
  <2>10. CASE OwnDirectory(p)
    BY <2>10 DEF OwnDirectory
  <2>11. CASE LockWriter(p)
    BY <2>11 DEF LockWriter, Throw
  <2>12. CASE AssertLocked(p)
    BY <2>12 DEF AssertLocked, DispatchAllowsWrite
  <2>13. CASE ValidateHistory(p)
    BY <2>13 DEF ValidateHistory
  <2>14. CASE OpenTemporary(p)
    BY <2>14 DEF OpenTemporary
  <2>15. CASE AssertPublication(p)
    BY <2>15 DEF AssertPublication
  <2>16. CASE Link(p)
    BY <2>16 DEF Link
  <2>17. CASE UnlinkTemporary(p)
    BY <2>17 DEF UnlinkTemporary
  <2>18. CASE UnlinkWriter(p)
    BY <2>18 DEF UnlinkWriter
  <2>19. CASE Abort(p)
    BY <2>19 DEF Abort, Throw
  <2>20. CASE WriteFails(p)
    BY <2>20 DEF WriteFails, Throw
  <2>21. CASE Crash(p)
    BY <2>21 DEF Crash
  <2> QED
    BY <1>2, <2>1, <2>2, <2>3, <2>4, <2>5, <2>6, <2>7, <2>8, <2>9, <2>10, <2>11, <2>12, <2>13, <2>14, <2>15, <2>16, <2>17, <2>18, <2>19, <2>20, <2>21 DEF Acquire, Release, Write
<1> QED
  BY <1>1, <1>2 DEF Next

\* Only Link adds a generation, and link(2) refuses one that exists.
LEMMA ChainStep == TypeOK /\ CandidateInv /\ ChainIntact /\ [Next]_vars => ChainIntact'
<1> SUFFICES ASSUME TypeOK, CandidateInv, ChainIntact, [Next]_vars PROVE ChainIntact'
  OBVIOUS
<1> USE DEF TypeOK, ChainIntact, CandidateInv
<1>1. CASE UNCHANGED vars
  BY <1>1 DEF vars
<1>2. ASSUME NEW p \in Procs, Acquire(p) \/ Release(p) \/ Write(p) \/ Crash(p) PROVE ChainIntact'
  <2>1. ASSUME NEW i \in Identities, OpenMarker(p, i) PROVE ChainIntact'
    BY <2>1 DEF OpenMarker
  <2>2. ASSUME NEW s \in Stores, BeginWrite(p, s) PROVE ChainIntact'
    BY <2>2 DEF BeginWrite
  <2>3. CASE CheckV1(p)
    BY <2>3 DEF CheckV1
  <2>4. CASE CheckV2(p)
    BY <2>4 DEF CheckV2
  <2>5. CASE AcquireFails(p)
    BY <2>5 DEF AcquireFails
  <2>6. CASE ReleaseDispatch(p)
    BY <2>6 DEF ReleaseDispatch
  <2>7. CASE ReleaseFails(p)
    BY <2>7 DEF ReleaseFails
  <2>8. CASE AssertEntry(p)
    BY <2>8 DEF AssertEntry, Throw
  <2>9. CASE OpenDirectory(p)
    BY <2>9 DEF OpenDirectory, Throw
  <2>10. CASE OwnDirectory(p)
    BY <2>10 DEF OwnDirectory
  <2>11. CASE LockWriter(p)
    BY <2>11 DEF LockWriter, Throw
  <2>12. CASE AssertLocked(p)
    BY <2>12 DEF AssertLocked
  <2>13. CASE ValidateHistory(p)
    BY <2>13 DEF ValidateHistory
  <2>14. CASE OpenTemporary(p)
    BY <2>14 DEF OpenTemporary
  <2>15. CASE AssertPublication(p)
    BY <2>15 DEF AssertPublication
  <2>16. CASE Link(p)
    BY <2>16 DEF Link, Successor, NoCheckpoint
  <2>17. CASE UnlinkTemporary(p)
    BY <2>17 DEF UnlinkTemporary
  <2>18. CASE UnlinkWriter(p)
    BY <2>18 DEF UnlinkWriter
  <2>19. CASE Abort(p)
    BY <2>19 DEF Abort, Throw
  <2>20. CASE WriteFails(p)
    BY <2>20 DEF WriteFails, Throw
  <2>21. CASE Crash(p)
    BY <2>21 DEF Crash
  <2> QED
    BY <1>2, <2>1, <2>2, <2>3, <2>4, <2>5, <2>6, <2>7, <2>8, <2>9, <2>10, <2>11, <2>12, <2>13, <2>14, <2>15, <2>16, <2>17, <2>18, <2>19, <2>20, <2>21 DEF Acquire, Release, Write
<1> QED
  BY <1>1, <1>2 DEF Next

\* What ValidateHistory accepted stays a successor of something committed,
\* because generations are never removed.
LEMMA CandidateStep == TypeOK /\ CandidateInv /\ [Next]_vars => CandidateInv'
<1> SUFFICES ASSUME TypeOK, CandidateInv, [Next]_vars PROVE CandidateInv'
  OBVIOUS
<1> USE DEF TypeOK, CandidateInv
<1>1. CASE UNCHANGED vars
  BY <1>1 DEF vars
<1>2. ASSUME NEW p \in Procs, Acquire(p) \/ Release(p) \/ Write(p) \/ Crash(p) PROVE CandidateInv'
  <2>1. ASSUME NEW i \in Identities, OpenMarker(p, i) PROVE CandidateInv'
    BY <2>1 DEF OpenMarker
  <2>2. ASSUME NEW s \in Stores, BeginWrite(p, s) PROVE CandidateInv'
    BY <2>2 DEF BeginWrite
  <2>3. CASE CheckV1(p)
    BY <2>3 DEF CheckV1
  <2>4. CASE CheckV2(p)
    BY <2>4 DEF CheckV2
  <2>5. CASE AcquireFails(p)
    BY <2>5 DEF AcquireFails
  <2>6. CASE ReleaseDispatch(p)
    BY <2>6 DEF ReleaseDispatch
  <2>7. CASE ReleaseFails(p)
    BY <2>7 DEF ReleaseFails
  <2>8. CASE AssertEntry(p)
    BY <2>8 DEF AssertEntry, Throw
  <2>9. CASE OpenDirectory(p)
    BY <2>9 DEF OpenDirectory, Throw
  <2>10. CASE OwnDirectory(p)
    BY <2>10 DEF OwnDirectory
  <2>11. CASE LockWriter(p)
    BY <2>11 DEF LockWriter, Throw
  <2>12. CASE AssertLocked(p)
    BY <2>12 DEF AssertLocked
  <2>13. CASE ValidateHistory(p)
    BY <2>13 DEF ValidateHistory, Follows, Latest
  <2>14. CASE OpenTemporary(p)
    BY <2>14 DEF OpenTemporary
  <2>15. CASE AssertPublication(p)
    BY <2>15 DEF AssertPublication
  <2>16. CASE Link(p)
    BY <2>16 DEF Link
  <2>17. CASE UnlinkTemporary(p)
    BY <2>17 DEF UnlinkTemporary
  <2>18. CASE UnlinkWriter(p)
    BY <2>18 DEF UnlinkWriter
  <2>19. CASE Abort(p)
    BY <2>19 DEF Abort, Throw
  <2>20. CASE WriteFails(p)
    BY <2>20 DEF WriteFails, Throw
  <2>21. CASE Crash(p)
    BY <2>21 DEF Crash
  <2> QED
    BY <1>2, <2>1, <2>2, <2>3, <2>4, <2>5, <2>6, <2>7, <2>8, <2>9, <2>10, <2>11, <2>12, <2>13, <2>14, <2>15, <2>16, <2>17, <2>18, <2>19, <2>20, <2>21 DEF Acquire, Release, Write
<1> QED
  BY <1>1, <1>2 DEF Next

\* A candidate is a new revision until its own process writes it.
LEMMA FreshStep == TypeOK /\ FreshInv /\ [Next]_vars => FreshInv'
<1> SUFFICES ASSUME TypeOK, FreshInv, [Next]_vars PROVE FreshInv'
  OBVIOUS
<1> USE NoProcAssumption DEF TypeOK, FreshInv, Unwritten
<1>1. CASE UNCHANGED vars
  BY <1>1 DEF vars
<1>2. ASSUME NEW p \in Procs, Acquire(p) \/ Release(p) \/ Write(p) \/ Crash(p) PROVE FreshInv'
  <2>1. ASSUME NEW i \in Identities, OpenMarker(p, i) PROVE FreshInv'
    BY <2>1 DEF OpenMarker
  <2>2. ASSUME NEW s \in Stores, BeginWrite(p, s) PROVE FreshInv'
    BY <2>2 DEF BeginWrite, Successor, Checkpoints, Revisions, NoCheckpoint, NoRevision
  <2>3. CASE CheckV1(p)
    BY <2>3 DEF CheckV1
  <2>4. CASE CheckV2(p)
    BY <2>4 DEF CheckV2
  <2>5. CASE AcquireFails(p)
    BY <2>5 DEF AcquireFails
  <2>6. CASE ReleaseDispatch(p)
    BY <2>6 DEF ReleaseDispatch
  <2>7. CASE ReleaseFails(p)
    BY <2>7 DEF ReleaseFails
  <2>8. CASE AssertEntry(p)
    BY <2>8 DEF AssertEntry, Throw
  <2>9. CASE OpenDirectory(p)
    BY <2>9 DEF OpenDirectory, Throw
  <2>10. CASE OwnDirectory(p)
    BY <2>10 DEF OwnDirectory
  <2>11. CASE LockWriter(p)
    BY <2>11 DEF LockWriter, Throw
  <2>12. CASE AssertLocked(p)
    BY <2>12 DEF AssertLocked
  <2>13. CASE ValidateHistory(p)
    BY <2>13 DEF ValidateHistory
  <2>14. CASE OpenTemporary(p)
    <3>1. pc[p] = "openTemporary" /\ candidate[p].revision = [by |-> p, n |-> attempts[p]]
      BY <2>14 DEF OpenTemporary
    <3>2. ASSUME NEW q \in Procs, q # p, pc[q] \in Unwritten PROVE candidate[q] # candidate[p]
      <4>1. candidate[q].revision = [by |-> q, n |-> attempts[q]]
        BY <3>2
      <4>2. candidate[q].revision.by = q /\ candidate[p].revision.by = p
        BY <4>1, <3>1
      <4> QED
        BY <4>2, <3>2
    <3>3. /\ temporaries' = [temporaries EXCEPT ![target[p]] = @ \cup {candidate[p]}]
          /\ pc' = [pc EXCEPT ![p] = "assertPublication"]
          /\ generations' = generations /\ candidate' = candidate /\ attempts' = attempts
      BY <2>14 DEF OpenTemporary
    <3>4. ASSUME NEW s \in Stores, NEW c \in temporaries'[s] \cup generations'[s]
          PROVE c.revision.by \in Procs /\ c.revision.n <= attempts'[c.revision.by]
      <4>1. CASE c \in temporaries[s] \cup generations[s]
        BY <4>1, <3>3
      <4>2. CASE c = candidate[p]
        BY <4>2, <3>1, <3>3
      <4> QED
        BY <4>1, <4>2, <3>3
    <3>5. ASSUME NEW q \in Procs, pc'[q] \in Unwritten \cup {"assertPublication", "link", "unlinkTemporary"}
          PROVE candidate'[q].revision = [by |-> q, n |-> attempts'[q]]
      BY <3>1, <3>3, <3>5
    <3>6. ASSUME NEW q \in Procs, NEW s \in Stores, pc'[q] \in Unwritten
          PROVE candidate'[q] \notin temporaries'[s] \cup generations'[s]
      <4>1. q # p /\ pc[q] \in Unwritten
        BY <3>3, <3>6
      <4> QED
        BY <4>1, <3>2, <3>3
    <3>7. ASSUME NEW q \in Procs, NEW s \in Stores, pc'[q] \in {"assertPublication", "link"}
          PROVE candidate'[q] \notin generations'[s]
      BY <3>1, <3>3, <3>7
    <3> QED
      BY <3>4, <3>5, <3>6, <3>7
  <2>15. CASE AssertPublication(p)
    BY <2>15 DEF AssertPublication
  <2>16. CASE Link(p)
    <3>1. pc[p] = "link" /\ candidate[p].revision = [by |-> p, n |-> attempts[p]]
      BY <2>16 DEF Link
    <3>2. ASSUME NEW q \in Procs, q # p, pc[q] \in Unwritten \cup {"assertPublication", "link"}
          PROVE candidate[q] # candidate[p]
      <4>1. candidate[q].revision = [by |-> q, n |-> attempts[q]]
        BY <3>2
      <4>2. candidate[q].revision.by = q /\ candidate[p].revision.by = p
        BY <4>1, <3>1
      <4> QED
        BY <4>2, <3>2
    <3>3. CASE \E d \in generations[target[p]] : d.generation = candidate[p].generation
      BY <2>16, <3>3 DEF Link
    <3>4. CASE ~ \E d \in generations[target[p]] : d.generation = candidate[p].generation
      <4>1. /\ generations' = [generations EXCEPT ![target[p]] = @ \cup {candidate[p]}]
            /\ pc' = [pc EXCEPT ![p] = "unlinkTemporary"]
            /\ temporaries' = temporaries /\ candidate' = candidate /\ attempts' = attempts
        BY <2>16, <3>4 DEF Link
      <4>2. ASSUME NEW s \in Stores, NEW c \in temporaries'[s] \cup generations'[s]
            PROVE c.revision.by \in Procs /\ c.revision.n <= attempts'[c.revision.by]
        <5>1. CASE c \in temporaries[s] \cup generations[s]
          BY <5>1, <4>1
        <5>2. CASE c = candidate[p]
          BY <5>2, <3>1, <4>1
        <5> QED
          BY <5>1, <5>2, <4>1
      <4>3. ASSUME NEW q \in Procs, pc'[q] \in Unwritten \cup {"assertPublication", "link", "unlinkTemporary"}
            PROVE candidate'[q].revision = [by |-> q, n |-> attempts'[q]]
        BY <3>1, <4>1, <4>3
      <4>4. ASSUME NEW q \in Procs, NEW s \in Stores, pc'[q] \in Unwritten
            PROVE candidate'[q] \notin temporaries'[s] \cup generations'[s]
        <5>1. q # p /\ pc[q] \in Unwritten
          BY <4>1, <4>4
        <5> QED
          BY <5>1, <3>2, <4>1
      <4>5. ASSUME NEW q \in Procs, NEW s \in Stores, pc'[q] \in {"assertPublication", "link"}
            PROVE candidate'[q] \notin generations'[s]
        <5>1. q # p /\ pc[q] \in {"assertPublication", "link"}
          BY <4>1, <4>5
        <5> QED
          BY <5>1, <3>2, <4>1
      <4> QED
        BY <4>2, <4>3, <4>4, <4>5
    <3> QED
      BY <3>3, <3>4
  <2>17. CASE UnlinkTemporary(p)
    BY <2>17 DEF UnlinkTemporary
  <2>18. CASE UnlinkWriter(p)
    BY <2>18 DEF UnlinkWriter
  <2>19. CASE Abort(p)
    BY <2>19 DEF Abort, Throw
  <2>20. CASE WriteFails(p)
    BY <2>20 DEF WriteFails, Throw
  <2>21. CASE Crash(p)
    BY <2>21 DEF Crash
  <2> QED
    BY <1>2, <2>1, <2>2, <2>3, <2>4, <2>5, <2>6, <2>7, <2>8, <2>9, <2>10, <2>11, <2>12, <2>13, <2>14, <2>15, <2>16, <2>17, <2>18, <2>19, <2>20, <2>21 DEF Acquire, Release, Write
<1> QED
  BY <1>1, <1>2 DEF Next

\* The lock protects the only temporary file that may also be committed.
LEMMA OrphanStep == TypeOK /\ LockInv /\ FreshInv /\ OrphanInv /\ [Next]_vars => OrphanInv'
<1> SUFFICES ASSUME TypeOK, LockInv, FreshInv, OrphanInv, [Next]_vars PROVE OrphanInv'
  OBVIOUS
<1> USE NoProcAssumption DEF TypeOK, LockInv, FreshInv, OrphanInv, OrphanTemporaryUncommitted, Guarded, Unwritten
<1>1. CASE UNCHANGED vars
  BY <1>1 DEF vars
<1>2. ASSUME NEW p \in Procs, Acquire(p) \/ Release(p) \/ Write(p) \/ Crash(p) PROVE OrphanInv'
  <2>1. ASSUME NEW i \in Identities, OpenMarker(p, i) PROVE OrphanInv'
    BY <2>1 DEF OpenMarker
  <2>2. ASSUME NEW s \in Stores, BeginWrite(p, s) PROVE OrphanInv'
    BY <2>2 DEF BeginWrite
  <2>3. CASE CheckV1(p)
    BY <2>3 DEF CheckV1
  <2>4. CASE CheckV2(p)
    BY <2>4 DEF CheckV2
  <2>5. CASE AcquireFails(p)
    BY <2>5 DEF AcquireFails
  <2>6. CASE ReleaseDispatch(p)
    BY <2>6 DEF ReleaseDispatch
  <2>7. CASE ReleaseFails(p)
    BY <2>7 DEF ReleaseFails
  <2>8. CASE AssertEntry(p)
    BY <2>8 DEF AssertEntry, Throw
  <2>9. CASE OpenDirectory(p)
    BY <2>9 DEF OpenDirectory, Throw
  <2>10. CASE OwnDirectory(p)
    BY <2>10 DEF OwnDirectory
  <2>11. CASE LockWriter(p)
    BY <2>11 DEF LockWriter, Throw
  <2>12. CASE AssertLocked(p)
    BY <2>12 DEF AssertLocked
  <2>13. CASE ValidateHistory(p)
    BY <2>13 DEF ValidateHistory
  <2>14. CASE OpenTemporary(p)
    BY <2>14 DEF OpenTemporary
  <2>15. CASE AssertPublication(p)
    BY <2>15 DEF AssertPublication
  <2>16. CASE Link(p)
    <3>1. CASE \E d \in generations[target[p]] : d.generation = candidate[p].generation
      BY <2>16, <3>1 DEF Link
    <3>2. CASE ~ \E d \in generations[target[p]] : d.generation = candidate[p].generation
      <4>1. /\ pc[p] = "link" /\ writer[target[p]] = p
            /\ generations' = [generations EXCEPT ![target[p]] = @ \cup {candidate[p]}]
            /\ pc' = [pc EXCEPT ![p] = "unlinkTemporary"]
            /\ temporaries' = temporaries /\ writer' = writer /\ candidate' = candidate /\ target' = target
        BY <2>16, <3>2 DEF Link
      <4>2. OrphanTemporaryUncommitted'
        BY <4>1
      <4>3. temporaries'[target'[p]] \cap generations'[target'[p]] \subseteq {candidate'[p]}
        BY <4>1
      <4>4. ASSUME NEW q \in Procs, q # p, pc'[q] \in Guarded PROVE target[q] # target[p] /\ pc'[q] = pc[q]
        BY <4>1, <4>4
      <4>5. ASSUME NEW q \in Procs, q # p, pc'[q] \in Guarded
            PROVE /\ generations'[target'[q]] = generations[target[q]]
                  /\ temporaries'[target'[q]] = temporaries[target[q]]
                  /\ pc'[q] = pc[q] /\ candidate'[q] = candidate[q]
        BY <4>1, <4>4, <4>5
      <4> QED
        BY <4>1, <4>2, <4>3, <4>5
    <3> QED
      BY <3>1, <3>2
  <2>17. CASE UnlinkTemporary(p)
    BY <2>17 DEF UnlinkTemporary
  <2>18. CASE UnlinkWriter(p)
    BY <2>18 DEF UnlinkWriter
  <2>19. CASE Abort(p)
    BY <2>19 DEF Abort, Throw
  <2>20. CASE WriteFails(p)
    BY <2>20 DEF WriteFails, Throw
  <2>21. CASE Crash(p)
    BY <2>21 DEF Crash
  <2> QED
    BY <1>2, <2>1, <2>2, <2>3, <2>4, <2>5, <2>6, <2>7, <2>8, <2>9, <2>10, <2>11, <2>12, <2>13, <2>14, <2>15, <2>16, <2>17, <2>18, <2>19, <2>20, <2>21 DEF Acquire, Release, Write
<1> QED
  BY <1>1, <1>2 DEF Next

\* The inductive invariant holds in every reachable state.
THEOREM Invariance == Spec => []IInv
<1>1. IInv /\ [Next]_vars => IInv'
  BY TypeStep, MarkerStep, LockStep, FlagStep, ChainStep, CandidateStep, FreshStep, OrphanStep DEF IInv
<1> QED
  BY InitIInv, <1>1, PTL DEF Spec

\* Every file, and every local of a process, keeps its type.
THEOREM TypeCorrect == Spec => []TypeOK
<1>1. IInv => TypeOK
  BY DEF IInv
<1> QED
  BY <1>1, Invariance, PTL

\* For any number of processes and identities, nobody publishes a checkpoint of
\* an identity whose dispatch another process holds.  With a dispatch of its own
\* the writer would have to own the marker too; without one it would have been
\* seen, or would have seen the marker.
THEOREM DispatchExclusionHolds == Spec => []DispatchExclusion
<1>1. IInv => DispatchExclusion
  <2> SUFFICES ASSUME IInv, NEW p \in Procs, NEW q \in Procs,
                      p # q, dispatch[p], pc[q] \in Publishing, target[q].id = target[p].id
               PROVE FALSE
    BY DEF DispatchExclusion
  <2>1. CASE dispatch[q]
    BY <2>1 DEF IInv, MarkerInv
  <2>2. CASE ~dispatch[q]
    BY <2>2 DEF IInv, FlagInv
  <2> QED
    BY <2>1, <2>2
<1> QED
  BY <1>1, Invariance, PTL

\* For any number of processes, the committed generations of a store are one
\* chain, whoever raced to append to it.
THEOREM ChainIntactHolds == Spec => []ChainIntact
<1>1. IInv => ChainIntact
  BY DEF IInv
<1> QED
  BY <1>1, Invariance, PTL

\* A temporary file beside an absent writer.json was never committed, whatever
\* crashed or failed before.
THEOREM OrphanTemporaryUncommittedHolds == Spec => []OrphanTemporaryUncommitted
<1>1. IInv => OrphanTemporaryUncommitted
  BY DEF IInv, OrphanInv
<1> QED
  BY <1>1, Invariance, PTL

\* A stale marker or lock is never taken over or removed, and a store behind a
\* stale lock commits nothing.
THEOREM StaleOwnershipKeptHolds == Spec => StaleOwnershipKept
<1> DEFINE Kept == /\ StaleMarker => marker' = marker
                   /\ \A s \in Stores : StaleLock(s) => writer'[s] = writer[s] /\ generations'[s] = generations[s]
<1>1. IInv /\ [Next]_vars => [Kept]_vars
  <2> SUFFICES ASSUME IInv, NEW p \in Procs, Acquire(p) \/ Release(p) \/ Write(p) \/ Crash(p) PROVE Kept
    BY DEF Next
  <2> USE NoProcAssumption DEF IInv, TypeOK, MarkerInv, LockInv, StaleMarker, StaleLock, Guarded
  <2>1. CASE Acquire(p)
    BY <2>1 DEF Acquire, OpenMarker, CheckV1, CheckV2, AcquireFails
  <2>2. CASE Release(p)
    BY <2>2 DEF Release, ReleaseDispatch, ReleaseFails
  <2>3. CASE Crash(p)
    BY <2>3 DEF Crash
  <2>4. CASE Write(p)
    <3>1. marker' = marker
      BY <2>4 DEF Write, BeginWrite, AssertEntry, OpenDirectory, OwnDirectory, LockWriter, AssertLocked,
         ValidateHistory, OpenTemporary, AssertPublication, Link, UnlinkTemporary, UnlinkWriter, Abort, WriteFails
    <3>2. ASSUME NEW s \in Stores, StaleLock(s) PROVE writer'[s] = writer[s] /\ generations'[s] = generations[s]
      <4>1. CASE LockWriter(p)
        BY <3>2, <4>1 DEF LockWriter
      <4>2. CASE Link(p)
        BY <3>2, <4>2 DEF Link
      <4>3. CASE UnlinkWriter(p)
        BY <3>2, <4>3 DEF UnlinkWriter
      <4>4. CASE Abort(p)
        BY <3>2, <4>4 DEF Abort
      <4> QED
        BY <2>4, <4>1, <4>2, <4>3, <4>4 DEF Write, BeginWrite, AssertEntry, OpenDirectory, OwnDirectory,
           AssertLocked, ValidateHistory, OpenTemporary, AssertPublication, UnlinkTemporary, WriteFails
    <3> QED
      BY <3>1, <3>2
  <2> QED
    BY <2>1, <2>2, <2>3, <2>4
<1>2. Spec => [][Kept]_vars
  BY <1>1, Invariance, PTL DEF Spec
<1> QED
  BY <1>2 DEF StaleOwnershipKept
==============================================================================
