--------------------------- MODULE CheckpointStore ---------------------------
(***************************************************************************)
(* The checkpoint store of an agent-success campaign, as several processes *)
(* see it on one file system:                                              *)
(* src/src/experiments/plugins/agentSuccessRate/campaignCheckpointStore.ts.*)
(*                                                                         *)
(* An output root holds one dispatch marker (campaign-dispatch.json) and,  *)
(* for every campaign identity and checkpoint format, a store directory    *)
(* with the committed generations, a writer lock (writer.json) and         *)
(* temporary files.  A process either acquires the dispatch and publishes  *)
(* generations with it, or publishes without one (the "bare" writer the    *)
(* optional `dispatch` parameter of writeCampaignCheckpoint allows).       *)
(*                                                                         *)
(* One action per step of the code between two awaits that touch shared    *)
(* files.  A process may crash between any two of them, and any file       *)
(* operation may fail.  A random UUID token is represented by the process  *)
(* that drew it: a process never meets a token of its own that it did not  *)
(* write in the call at hand, because files it left behind block it.       *)
(***************************************************************************)
EXTENDS Integers

CONSTANTS Procs,        \* processes that use the output root
          NoProc,       \* "the file is absent"
          Identities,   \* campaign identities (digests) sharing the root
          MaxAttempts   \* bound: checkpoint candidates one process may build

ASSUME NoProcAssumption == NoProc \notin Procs
ASSUME MaxAttemptsAssumption == MaxAttempts \in Nat

Formats == {"v1", "v2"}
Stores == [id : Identities, format : Formats]

\* The integrity of a checkpoint: a hash of its content, which includes its
\* parent's, so a candidate built anew is a revision of its own.
Revisions == [by : Procs \cup {NoProc}, n : Nat]
NoRevision == [by |-> NoProc, n |-> 0]
Checkpoints == [generation : Nat, parent : Revisions, revision : Revisions]
NoCheckpoint == [generation |-> 0, parent |-> NoRevision, revision |-> NoRevision]

VARIABLES marker,       \* owner of campaign-dispatch.json, or NoProc
          dir,          \* [Stores -> "absent" | "unowned" | "owned"]
          writer,       \* [Stores -> owner of writer.json, or NoProc]
          temporaries,  \* [Stores -> checkpoints in .temporary-*.json]
          generations,  \* [Stores -> checkpoints in generation-*.json]
          pc,           \* where each process is
          dispatch,     \* [Procs -> BOOLEAN]: holds a CampaignDispatchOwnership
          target,       \* [Procs -> Stores]: the store of the call at hand
          candidate,    \* [Procs -> Checkpoints]: the checkpoint it publishes
          attempts      \* [Procs -> Nat]: candidates built so far

files == <<marker, dir, writer, temporaries, generations>>
locals == <<dispatch, target, candidate, attempts>>
vars == <<marker, dir, writer, temporaries, generations, pc, dispatch, target, candidate, attempts>>

\* Steps of writeStoredCheckpoint with writer.json open.
Guarded == {"assertLocked", "validateHistory", "openTemporary", "assertPublication",
            "link", "unlinkTemporary", "unlinkWriter", "abort"}
Steps == {"idle", "checkV1", "checkV2", "owner", "assertEntry", "directory", "ownDirectory",
          "lockWriter", "releaseDispatch", "crashed"} \cup Guarded

TypeOK ==
  /\ marker \in Procs \cup {NoProc}
  /\ dir \in [Stores -> {"absent", "unowned", "owned"}]
  /\ writer \in [Stores -> Procs \cup {NoProc}]
  /\ temporaries \in [Stores -> SUBSET Checkpoints]
  /\ generations \in [Stores -> SUBSET Checkpoints]
  /\ pc \in [Procs -> Steps]
  /\ dispatch \in [Procs -> BOOLEAN]
  /\ target \in [Procs -> Stores]
  /\ candidate \in [Procs -> Checkpoints]
  /\ attempts \in [Procs -> Nat]

Init ==
  /\ marker = NoProc
  /\ dir = [s \in Stores |-> "absent"]
  /\ writer = [s \in Stores |-> NoProc]
  /\ temporaries = [s \in Stores |-> {}]
  /\ generations = [s \in Stores |-> {}]
  /\ pc = [p \in Procs |-> "idle"]
  /\ dispatch = [p \in Procs |-> FALSE]
  /\ target \in [Procs -> {s \in Stores : s.format = "v1"}]
  /\ candidate = [p \in Procs |-> NoCheckpoint]
  /\ attempts = [p \in Procs |-> 0]

Goto(p, step) == pc' = [pc EXCEPT ![p] = step]

\* An exception leaves the call.  The executors catch it, publish nothing
\* more, and release the dispatch if they hold one.
Throw(p) == Goto(p, IF dispatch[p] THEN "releaseDispatch" ELSE "idle")

(***************************************************************************)
(* Reading the chain.                                                      *)
(***************************************************************************)
\* The newest committed generation; of an empty chain, the checkpoint "before"
\* generation 1, which has no revision (parentIntegrity is null).
Latest(chain) ==
  IF chain = {} THEN {NoCheckpoint}
  ELSE {c \in chain : \A d \in chain : d.generation <= c.generation}

\* Mutant: the parent is recorded by its author, not by its revision.
SuccessorByAuthor(c, r) == [generation |-> c.generation + 1, parent |-> c.revision.by, revision |-> r]

Successor(c, r) == [generation |-> c.generation + 1, parent |-> c.revision, revision |-> r]

\* Mutant: the generation is checked, the parent is not.
FollowsAnyParent(c, chain) == \E latest \in Latest(chain) : c.generation = latest.generation + 1

\* validateCampaignHistory against the newest generation, or the conditions on
\* an initial checkpoint.
Follows(c, chain) == \E latest \in Latest(chain) : c = Successor(latest, c.revision)

\* assertDispatchWriter: with an ownership the marker must be one's own;
\* without one there must be no marker.
DispatchAllowsWrite(p) == IF dispatch[p] THEN marker = p ELSE marker = NoProc

(***************************************************************************)
(* acquireCampaignDispatch                                                 *)
(***************************************************************************)
\* open(marker, "wx"): an existing marker is DISPATCH_OWNERSHIP_CONFLICT and
\* changes nothing.
OpenMarker(p, i) ==
  /\ pc[p] = "idle"
  /\ marker = NoProc
  /\ marker' = p
  /\ target' = [target EXCEPT ![p] = [id |-> i, format |-> "v1"]]
  /\ Goto(p, "checkV1")
  /\ UNCHANGED <<dir, writer, temporaries, generations, dispatch, candidate, attempts>>

\* Mutant: the directories are opened, writer.json is not looked for.
NoActiveWriterUnchecked(s) == dir[s] # "unowned"

NoActiveWriter(s) == dir[s] # "unowned" /\ writer[s] = NoProc

\* The loop over both formats of the identity: writer.json must be absent.
CheckV1(p) ==
  /\ pc[p] = "checkV1"
  /\ NoActiveWriter([id |-> target[p].id, format |-> "v1"])
  /\ Goto(p, "checkV2")
  /\ UNCHANGED <<files, locals>>

CheckV2(p) ==
  /\ pc[p] = "checkV2"
  /\ NoActiveWriter([id |-> target[p].id, format |-> "v2"])
  /\ dispatch' = [dispatch EXCEPT ![p] = TRUE]
  /\ Goto(p, "owner")
  /\ UNCHANGED <<files, target, candidate, attempts>>

\* WRITER_OWNERSHIP_CONFLICT, an unreadable directory or any I/O error: the
\* acquisition fails and leaves its marker behind.
AcquireFails(p) ==
  /\ pc[p] \in {"checkV1", "checkV2"}
  /\ Goto(p, "idle")
  /\ UNCHANGED <<files, locals>>

(***************************************************************************)
(* releaseCampaignDispatch                                                 *)
(***************************************************************************)
ReleaseDispatch(p) ==
  /\ pc[p] \in {"owner", "releaseDispatch"}
  /\ marker = p
  /\ marker' = NoProc
  /\ dispatch' = [dispatch EXCEPT ![p] = FALSE]
  /\ Goto(p, "idle")
  /\ UNCHANGED <<dir, writer, temporaries, generations, target, candidate, attempts>>

\* DISPATCH_RELEASE_FAILED: the process ends with the marker in place.
ReleaseFails(p) ==
  /\ pc[p] \in {"owner", "releaseDispatch"}
  /\ dispatch' = [dispatch EXCEPT ![p] = FALSE]
  /\ Goto(p, "idle")
  /\ UNCHANGED <<files, target, candidate, attempts>>

(***************************************************************************)
(* writeStoredCheckpoint                                                   *)
(***************************************************************************)
\* The caller enters with the successor of a checkpoint it holds: one it read
\* (perhaps before others published), or one it built itself for this store and
\* may have failed to publish.
BeginWrite(p, s) ==
  /\ \/ pc[p] = "idle" /\ ~dispatch[p]
     \/ pc[p] = "owner" /\ s.id = target[p].id
  /\ dir[s] # "unowned"
  /\ attempts[p] < MaxAttempts
  /\ attempts' = [attempts EXCEPT ![p] = @ + 1]
  /\ \E base \in {NoCheckpoint} \cup generations[s] \cup {c \in {candidate[p]} : target[p] = s} :
       candidate' = [candidate EXCEPT ![p] = Successor(base, [by |-> p, n |-> attempts[p] + 1])]
  /\ target' = [target EXCEPT ![p] = s]
  /\ Goto(p, "assertEntry")
  /\ UNCHANGED <<files, dispatch>>

AssertEntry(p) ==
  /\ pc[p] = "assertEntry"
  /\ IF DispatchAllowsWrite(p) THEN Goto(p, "directory") ELSE Throw(p)
  /\ UNCHANGED <<files, locals>>

\* ownedDirectory: an absent directory is made, then marked with owner.json;
\* one made but not yet marked has an unreadable owner.
OpenDirectory(p) ==
  /\ pc[p] = "directory"
  /\ \/ dir[target[p]] = "absent" /\ Goto(p, "ownDirectory") /\ dir' = [dir EXCEPT ![target[p]] = "unowned"]
     \/ dir[target[p]] = "unowned" /\ Throw(p) /\ UNCHANGED dir
     \/ dir[target[p]] = "owned" /\ Goto(p, "lockWriter") /\ UNCHANGED dir
  /\ UNCHANGED <<marker, writer, temporaries, generations, locals>>

OwnDirectory(p) ==
  /\ pc[p] = "ownDirectory"
  /\ dir' = [dir EXCEPT ![target[p]] = "owned"]
  /\ Goto(p, "lockWriter")
  /\ UNCHANGED <<marker, writer, temporaries, generations, locals>>

\* Mutant: open(writer, "w"), which truncates an existing lock.
LockWriterTruncating(p) ==
  /\ pc[p] = "lockWriter"
  /\ writer' = [writer EXCEPT ![target[p]] = p]
  /\ Goto(p, "assertLocked")
  /\ UNCHANGED <<marker, dir, temporaries, generations, locals>>

\* open(writer, "wx"): an existing lock is WRITER_OWNERSHIP_CONFLICT.
LockWriter(p) ==
  /\ pc[p] = "lockWriter"
  /\ IF writer[target[p]] = NoProc
     THEN Goto(p, "assertLocked") /\ writer' = [writer EXCEPT ![target[p]] = p]
     ELSE Throw(p) /\ UNCHANGED writer
  /\ UNCHANGED <<marker, dir, temporaries, generations, locals>>

AssertLocked(p) ==
  /\ pc[p] = "assertLocked"
  /\ Goto(p, IF DispatchAllowsWrite(p) THEN "validateHistory" ELSE "abort")
  /\ UNCHANGED <<files, locals>>

ValidateHistory(p) ==
  /\ pc[p] = "validateHistory"
  /\ Goto(p, IF Follows(candidate[p], generations[target[p]]) THEN "openTemporary" ELSE "abort")
  /\ UNCHANGED <<files, locals>>

OpenTemporary(p) ==
  /\ pc[p] = "openTemporary"
  /\ temporaries' = [temporaries EXCEPT ![target[p]] = @ \cup {candidate[p]}]
  /\ Goto(p, "assertPublication")
  /\ UNCHANGED <<marker, dir, writer, generations, locals>>

AssertPublication(p) ==
  /\ pc[p] = "assertPublication"
  /\ Goto(p, IF DispatchAllowsWrite(p) THEN "link" ELSE "abort")
  /\ UNCHANGED <<files, locals>>

\* link(temp, target) creates a name that was absent; it never replaces one.
Link(p) ==
  LET s == target[p] IN
  /\ pc[p] = "link"
  /\ IF \E d \in generations[s] : d.generation = candidate[p].generation
     THEN Goto(p, "abort") /\ UNCHANGED generations
     ELSE /\ generations' = [generations EXCEPT ![s] = @ \cup {candidate[p]}]
          /\ Goto(p, "unlinkTemporary")
  /\ UNCHANGED <<marker, dir, writer, temporaries, locals>>

UnlinkTemporary(p) ==
  /\ pc[p] = "unlinkTemporary"
  /\ temporaries' = [temporaries EXCEPT ![target[p]] = @ \ {candidate[p]}]
  /\ Goto(p, "unlinkWriter")
  /\ UNCHANGED <<marker, dir, writer, generations, locals>>

\* The token in writer.json must still be one's own.
UnlinkWriter(p) ==
  /\ pc[p] = "unlinkWriter"
  /\ writer[target[p]] = p
  /\ writer' = [writer EXCEPT ![target[p]] = NoProc]
  /\ Goto(p, IF dispatch[p] THEN "owner" ELSE "idle")
  /\ UNCHANGED <<marker, dir, temporaries, generations, locals>>

\* The catch block before publication: the lock goes, a temporary file stays.
Abort(p) ==
  /\ pc[p] = "abort"
  /\ writer[target[p]] = p
  /\ writer' = [writer EXCEPT ![target[p]] = NoProc]
  /\ Throw(p)
  /\ UNCHANGED <<marker, dir, temporaries, generations, locals>>

\* Mutant: the catch block runs whether or not the checkpoint was published.
WriteFailsUnlocking(p) ==
  /\ pc[p] \in Guarded \ {"abort"}
  /\ Goto(p, "abort")
  /\ UNCHANGED <<files, locals>>

\* A file operation fails: before publication the catch block runs (unless it
\* is that block that fails: a lock without its token is not removed), after it
\* the lock and what is left stay.
WriteFails(p) ==
  /\ \/ pc[p] \in {"assertLocked", "validateHistory", "openTemporary", "assertPublication", "link"}
        /\ Goto(p, "abort")
     \/ pc[p] \in {"assertEntry", "directory", "ownDirectory", "lockWriter", "assertLocked", "abort",
                   "unlinkTemporary", "unlinkWriter"}
        /\ Throw(p)
  /\ UNCHANGED <<files, locals>>

(***************************************************************************)
(* The process dies; its files stay, and its ownership, an object of its   *)
(* memory, is gone.                                                        *)
(***************************************************************************)
Crash(p) ==
  /\ pc[p] \notin {"idle", "crashed"}
  /\ Goto(p, "crashed")
  /\ dispatch' = [dispatch EXCEPT ![p] = FALSE]
  /\ UNCHANGED <<files, target, candidate, attempts>>

Acquire(p) == (\E i \in Identities : OpenMarker(p, i)) \/ CheckV1(p) \/ CheckV2(p) \/ AcquireFails(p)
Release(p) == ReleaseDispatch(p) \/ ReleaseFails(p)
Write(p) ==
  \/ \E s \in Stores : BeginWrite(p, s)
  \/ AssertEntry(p) \/ OpenDirectory(p) \/ OwnDirectory(p) \/ LockWriter(p) \/ AssertLocked(p)
  \/ ValidateHistory(p) \/ OpenTemporary(p) \/ AssertPublication(p) \/ Link(p)
  \/ UnlinkTemporary(p) \/ UnlinkWriter(p) \/ Abort(p) \/ WriteFails(p)

Next == \E p \in Procs : Acquire(p) \/ Release(p) \/ Write(p) \/ Crash(p)

Spec == Init /\ [][Next]_vars

(***************************************************************************)
(* Properties.                                                             *)
(***************************************************************************)
\* Past the assertion made under writer.json, and not giving up.
Publishing == {"validateHistory", "openTemporary", "assertPublication", "link",
               "unlinkTemporary", "unlinkWriter"}

\* An active checkpoint publication of an identity cannot become a campaign
\* dispatch of it: while a process holds the dispatch of an identity, no other
\* process is publishing a checkpoint of that identity, in either format.  The
\* marker and writer.json are each opened before the other is looked at.
DispatchExclusion ==
  \A p, q \in Procs :
    p # q /\ dispatch[p] /\ pc[q] \in Publishing => target[q].id # target[p].id

\* The committed generations of a store are a single chain: one checkpoint per
\* generation, each the successor of the one before it, from a first generation
\* that has no parent.  readStoredCheckpoint refuses anything else
\* (GENERATION_GAP_OR_AMBIGUITY, INVALID_HISTORY), so a store that broke this
\* could never be read again.
ChainIntact ==
  \A s \in Stores : \A c \in generations[s] :
    /\ \A d \in generations[s] : d.generation = c.generation => d = c
    /\ \E b \in generations[s] \cup {NoCheckpoint} : c = Successor(b, c.revision)

\* A temporary file that lies beside an absent writer.json was never committed:
\* whoever recovers the store by hand may drop it.  It holds because the lock
\* is the last thing a finished publication removes, and the first thing kept
\* when a publication fails after its commit.
OrphanTemporaryUncommitted ==
  \A s \in Stores : writer[s] = NoProc => temporaries[s] \cap generations[s] = {}

\* Nobody works under the lock of s: its owner died, or gave up after its commit.
StaleLock(s) == writer[s] # NoProc /\ ~(pc[writer[s]] \in Guarded /\ target[writer[s]] = s)

\* Nobody holds the dispatch the marker names: its owner died, or failed to
\* acquire or to release it.
StaleMarker == marker # NoProc /\ ~dispatch[marker] /\ pc[marker] \notin {"checkV1", "checkV2"}

\* A stale lock or marker is never stolen or removed, and the store behind a
\* stale lock commits nothing more until someone recovers it by hand.
StaleOwnershipKept ==
  [][/\ StaleMarker => marker' = marker
     /\ \A s \in Stores : StaleLock(s) => writer'[s] = writer[s] /\ generations'[s] = generations[s]]_vars
==============================================================================
