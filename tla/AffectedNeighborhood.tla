------------------------ MODULE AffectedNeighborhood ------------------------
(***************************************************************************)
(* Does a change concern a task? (evaluation/affectedNeighborhood.ts, as   *)
(* experiments/plugins/warmIndexReuse uses it.)  An external tool indexes  *)
(* a target: files, symbols, a graph of both.  A session captures a        *)
(* snapshot of the indexed files and loads the graph once.  For each task, *)
(* the files are compared with the snapshot, the changed ones mapped to    *)
(* nodes (the seeds), and the nodes the task expects looked for within one *)
(* hop of the seeds: the task is related to the change, unrelated, or that *)
(* is unknown.                                                             *)
(*                                                                         *)
(* Everything on this way may be incomplete: entries of the index that     *)
(* cannot be used, an artifact that cannot be read, files that cannot be   *)
(* hashed or compared, a list of changes that is cut.  Files are edited at *)
(* any time after the snapshot (an edit between the tool's reading and the *)
(* snapshot is not seen by anything).  A file is its own node; a symbol is *)
(* the identity the index persisted for it (symbol index schema 3).        *)
(***************************************************************************)
EXTENDS FiniteSets, Naturals

CONSTANTS Files,       \* the indexed files
          Unindexed,   \* files a task may expect and the index does not have
          Symbols,     \* the identities of symbols
          Names,       \* what a symbol may be called
          Graphs,      \* the graphs of files and symbols that a tool may find
          Tasks,       \* the files and the symbols, by name or identity, that a task may expect
          MaxChanges,  \* changes a comparison lists (MAX_CHANGES)
          MaxFaults    \* bound: entries that are unusable and reads that fail

ASSUME IdentitiesDisjoint ==
  /\ Files \cap Symbols = {} /\ Unindexed \cap (Files \cup Symbols) = {}
  /\ Names \cap (Files \cup Symbols) = {}
ASSUME FilesFinite == IsFiniteSet(Files)
ASSUME TasksAssumption == Tasks \subseteq (SUBSET (Files \cup Unindexed)) \X (SUBSET (Symbols \cup Names))
ASSUME BoundsNat == MaxChanges \in Nat /\ MaxFaults \in Nat

Nodes == Files \cup Symbols
ASSUME GraphsAssumption == Graphs \subseteq SUBSET (Nodes \X Nodes)

VARIABLES owner, name, edges,  \* what the tool found: each symbol's file and name, and the graph
          node,                \* how the index has each node,
          record,              \* each symbol's record
          badEdges,            \* and each edge; and the files whose
          unlisted,            \* entry has no list of symbols
          phase,
          files,               \* the target's files, against the snapshot
          snapshot,            \* which of them it has
          read,                \* the artifacts that could be read
          seen,                \* the comparison for the current task,
          listed,              \* the changes it lists,
          seeds,               \* their mapping to nodes,
          neighborhood,        \* and what is one hop from these
          faults
found == <<owner, name, edges>>
entries == <<node, record, badEdges, unlisted>>
session == <<snapshot, read>>
assessment == <<seen, listed, seeds, neighborhood>>
vars == <<found, entries, phase, files, session, assessment, faults>>

NodeEntries == {"good", "other kind", "other file", "malformed", "absent"}
RecordEntries == {"good", "unidentified", "malformed"}
Unseen == [f \in Files |-> "skipped"]
Unavailable == [status |-> "unavailable", nodes |-> {}]

Init ==
  /\ owner \in [Symbols -> Files] /\ name \in [Symbols -> Names]
  /\ edges \in Graphs
  /\ node = [x \in Nodes |-> "good"] /\ record = [s \in Symbols |-> "good"]
  /\ badEdges = {} /\ unlisted = {}
  /\ phase = "indexing" /\ files = [f \in Files |-> "unchanged"]
  /\ snapshot = {} /\ read = {}
  /\ seen = Unseen /\ listed = {} /\ seeds = Unavailable /\ neighborhood = Unavailable /\ faults = 0

-----------------------------------------------------------------------------
(* The graph evidence, of what could be read of the artifacts.             *)

GraphNodes == {x \in Nodes : node[x] \in {"good", "other kind", "other file"}}
Within(e) == e[1] \in GraphNodes /\ e[2] \in GraphNodes
GraphEdges == {e \in edges \ badEdges : Within(e)}
\* The files with a list of symbols, and the symbols on it.
Records(f) == {s \in Symbols : owner[s] = f /\ f \notin unlisted /\ record[s] # "malformed"}

\* Mutant: an edge to a node that was dropped is dropped without a warning.
NoWarningForEdges ==
  /\ \A x \in Nodes : node[x] # "malformed"
  /\ \A s \in Symbols : record[s] = "good"
  /\ badEdges = {} /\ unlisted = {}
\* Nothing was dropped. A node the graph does not have, or has as something else, is no warning.
NoWarning ==
  /\ \A x \in Nodes : node[x] # "malformed"
  /\ \A s \in Symbols : record[s] = "good"
  /\ badEdges = {} /\ unlisted = {}
  /\ \A e \in edges : Within(e)
Usable == read = {"symbols", "graph"}
GraphStatus == IF "symbols" \notin read THEN "unavailable" ELSE IF Usable /\ NoWarning THEN "complete" ELSE "partial"

\* The exact lookups; none falls back on another node.
FileFound(f) == f \in Files /\ node[f] \in {"good", "other file"}
SymbolFound(s) == record[s] = "good" /\ node[s] = "good"

-----------------------------------------------------------------------------
(* Freshness, and the changed files as seeds, for files seen and listed.   *)

Changed(now) == {f \in Files : now[f] \in {"modified", "missing"}}
Freshness(now) ==
  LET complete == "symbols" \in read /\ \A f \in Files : now[f] \notin {"skipped", "unresolved"}
  IN IF Changed(now) # {} THEN IF complete THEN "stale" ELSE "partially-stale"
                          ELSE IF complete THEN "fresh" ELSE "unknown"

SeedNodes(list) == {f \in list : FileFound(f)} \cup {s \in Symbols : SymbolFound(s) /\ \E f \in list : s \in Records(f)}
\* All that changed was mapped.
Mapped(list) == \A f \in list : FileFound(f) /\ f \notin unlisted /\ \A s \in Records(f) : SymbolFound(s)

\* Mutant: that the list of changes was cut is forgotten.
SeedStatusUncut(now, list) ==
  IF ~Usable \/ (Freshness(now) = "unknown" /\ list = {}) THEN "unavailable"
  ELSE IF Freshness(now) \in {"fresh", "stale"} /\ GraphStatus = "complete" /\ Mapped(list)
       THEN "complete" ELSE "partial"
\* Mutant: no change is no basis.
SeedStatusFresh(now, list) ==
  IF ~Usable \/ list = {} THEN "unavailable"
  ELSE IF Freshness(now) \in {"fresh", "stale"} /\ GraphStatus = "complete" /\ list = Changed(now) /\ Mapped(list)
       THEN "complete" ELSE "partial"
SeedStatus(now, list) ==
  IF ~Usable \/ (Freshness(now) = "unknown" /\ list = {}) THEN "unavailable"
  ELSE IF Freshness(now) \in {"fresh", "stale"} /\ GraphStatus = "complete" /\ list = Changed(now) /\ Mapped(list)
       THEN "complete" ELSE "partial"

-----------------------------------------------------------------------------
(* The neighborhood: one hop, along every edge, in both directions.        *)

Touches(e, nodes) == e[1] \in nodes \/ e[2] \in nodes
\* Mutant: edges are followed forwards only.
TraverseForward(nodes) == nodes \cup {x \in Nodes : \E e \in GraphEdges : e[1] \in nodes /\ e[2] = x}
Traverse(nodes) == nodes \cup {x \in Nodes : \E e \in GraphEdges : Touches(e, nodes) /\ x \in {e[1], e[2]}}
Neighborhood(from) ==
  IF from.status = "unavailable" THEN Unavailable
  ELSE [status |-> IF from.status = "complete" /\ GraphStatus = "complete" THEN "complete" ELSE "partial",
        nodes |-> Traverse(from.nodes)]

-----------------------------------------------------------------------------
(* The session, and one comparison per task.                               *)

Fault(n) == faults + n <= MaxFaults /\ faults' = faults + n

\* The tool writes an entry that is not what it should be.
IndexBadly ==
  /\ phase = "indexing" /\ Fault(1)
  /\ \/ /\ \E x \in Nodes, entry \in NodeEntries \ {"good"} : node[x] = "good" /\ node' = [node EXCEPT ![x] = entry]
        /\ UNCHANGED <<record, badEdges, unlisted>>
     \/ /\ \E s \in Symbols, entry \in RecordEntries \ {"good"} : record[s] = "good" /\ record' = [record EXCEPT ![s] = entry]
        /\ UNCHANGED <<node, badEdges, unlisted>>
     \/ /\ \E e \in edges \ badEdges : badEdges' = badEdges \cup {e}
        /\ UNCHANGED <<node, record, unlisted>>
     \/ /\ \E f \in Files \ unlisted : unlisted' = unlisted \cup {f}
        /\ UNCHANGED <<node, record, badEdges>>
  /\ UNCHANGED <<found, phase, files, session, assessment>>

\* A snapshot of the files; those that cannot be hashed stay out of it.
Capture ==
  /\ phase = "indexing"
  /\ \E failed \in SUBSET Files : Fault(Cardinality(failed)) /\ snapshot' = Files \ failed
  /\ phase' = "captured"
  /\ UNCHANGED <<found, entries, files, read, assessment>>

\* The index's artifacts are read once. Without a symbol index there is neither snapshot nor graph.
Load ==
  /\ phase = "captured"
  /\ \/ read' = {"symbols", "graph"} /\ UNCHANGED <<snapshot, faults>>
     \/ read' = {"symbols"} /\ Fault(1) /\ UNCHANGED snapshot
     \/ read' = {} /\ Fault(1) /\ snapshot' = {}
  /\ phase' = "prepared"
  /\ UNCHANGED <<found, entries, files, assessment>>

\* A file is edited, deleted, or put back. The comparison is of one task: the next has its own.
Edit(f) ==
  /\ phase # "indexing"
  /\ \E content \in {"unchanged", "modified", "missing"} \ {files[f]} : files' = [files EXCEPT ![f] = content]
  /\ phase' = IF phase = "compared" THEN "prepared" ELSE phase
  /\ seen' = Unseen /\ listed' = {} /\ seeds' = Unavailable /\ neighborhood' = Unavailable
  /\ UNCHANGED <<found, entries, session, faults>>

\* Mutant: all files are compared.
CompareAll(failed) == [f \in Files |-> IF f \in failed THEN "unresolved" ELSE files[f]]
\* The files of the snapshot are compared with it, and some cannot be.
Assess(failed) == [f \in Files |-> IF f \notin snapshot THEN "skipped" ELSE IF f \in failed THEN "unresolved" ELSE files[f]]

\* A task: the files are compared, and the changes that are listed are mapped to seeds.
Compare ==
  /\ phase = "prepared"
  /\ \E failed \in SUBSET snapshot : Fault(Cardinality(failed)) /\ seen' = Assess(failed)
  /\ listed' \in SUBSET Changed(seen')
  /\ IF Cardinality(Changed(seen')) <= MaxChanges THEN listed' = Changed(seen') ELSE Cardinality(listed') = MaxChanges
  /\ seeds' = [status |-> SeedStatus(seen', listed'), nodes |-> IF Usable THEN SeedNodes(listed') ELSE {}]
  /\ neighborhood' = Neighborhood(seeds')
  /\ phase' = "compared"
  /\ UNCHANGED <<found, entries, files, session>>

Next == IndexBadly \/ Capture \/ Load \/ Compare \/ \E f \in Files : Edit(f)
Spec == Init /\ [][Next]_vars

-----------------------------------------------------------------------------
(* The assessment of a task, which expects files fs and symbols qs, by     *)
(* name or by identity.                                                    *)

\* In a file without a list of symbols only an identity made of file and name can be
\* guessed, which is that of a symbol whose name no other symbol of its file has.
Plain(s) == \A t \in Symbols \ {s} : owner[t] = owner[s] => name[t] # name[s]
Candidates(fs, q) ==
  {s \in Symbols :
     /\ owner[s] \in fs
     /\ \/ s \in Records(owner[s]) /\ q \in {s, name[s]} /\ SymbolFound(s)
        \/ owner[s] \in unlisted /\ q = name[s] /\ Plain(s) /\ node[s] \in {"good", "other file"}}
\* A symbol of that name without an identity may be the one that is meant.
Unidentified(fs, q) == \E f \in fs : \E s \in Records(f) : record[s] = "unidentified" /\ name[s] = q

\* Mutant: the first of several candidates is taken.
ResolvedAny(fs, q) == Candidates(fs, q) # {}
Resolved(fs, q) == (\E s \in Symbols : Candidates(fs, q) = {s}) /\ ~Unidentified(fs, q)

TaskMapping(fs, qs) ==
  LET nodes == {f \in fs : FileFound(f)} \cup UNION {Candidates(fs, q) : q \in {p \in qs : Resolved(fs, p)}}
  IN IF ~Usable \/ nodes = {} THEN Unavailable
     ELSE [status |-> IF GraphStatus = "complete" /\ (\A f \in fs : FileFound(f)) /\ (\A q \in qs : Resolved(fs, q))
                      THEN "complete" ELSE "partial",
           nodes |-> nodes]

Relationship(fs, qs) ==
  LET task == TaskMapping(fs, qs) IN
  IF neighborhood.status = "unavailable" \/ task.status = "unavailable" THEN "unknown"
  ELSE IF task.nodes \cap neighborhood.nodes # {} THEN "related"
  ELSE IF {seeds.status, neighborhood.status, task.status} = {"complete"} THEN "unrelated" ELSE "unknown"

-----------------------------------------------------------------------------
TypeOK ==
  /\ owner \in [Symbols -> Files] /\ name \in [Symbols -> Names] /\ edges \subseteq Nodes \X Nodes
  /\ node \in [Nodes -> NodeEntries] /\ record \in [Symbols -> RecordEntries]
  /\ badEdges \subseteq edges /\ unlisted \subseteq Files
  /\ phase \in {"indexing", "captured", "prepared", "compared"}
  /\ files \in [Files -> {"unchanged", "modified", "missing"}] /\ snapshot \subseteq Files
  /\ read \subseteq {"symbols", "graph"}
  /\ seen \in [Files -> {"skipped", "unresolved", "unchanged", "modified", "missing"}]
  /\ \A f \in Files \ snapshot : seen[f] = "skipped"
  /\ listed \subseteq Files
  /\ {seeds, neighborhood} \subseteq [status : {"complete", "partial", "unavailable"}, nodes : SUBSET Nodes]
  /\ faults \in 0..MaxFaults

\* What is so, whatever became of it on the way here: the files that have changed,
\* their symbols, and what the tool found one hop away.
TrulyChanged == {f \in Files : files[f] # "unchanged"} \cup {s \in Symbols : files[owner[s]] # "unchanged"}
TrulyAffected == TrulyChanged \cup {x \in Nodes : \E e \in edges : Touches(e, TrulyChanged) /\ x \in {e[1], e[2]}}
Meant(fs, qs) == {s \in Symbols : owner[s] \in fs /\ (s \in qs \/ name[s] \in qs)}
\* The symbols meant whose node the graph does not have as something else. A namesake whose node
\* has another kind or file is no candidate, and the code takes the other one for what is meant.
Certain(fs, qs) == {s \in Meant(fs, qs) : node[s] \notin {"other kind", "other file"}}

\* The evidence never shows what is not so: a task is related only if something it may mean is
\* affected by what has changed, and unrelated only if none of its files and certain symbols is.
\* (AmbiguousNotUnrelated shows that this cannot be said of all the symbols it may mean.)
NeverWrong ==
  phase = "compared" =>
    \A task \in Tasks :
      LET fs == task[1]  qs == task[2]  answer == Relationship(fs, qs) IN
      /\ answer = "related" => (fs \cup Meant(fs, qs)) \cap TrulyAffected # {}
      /\ answer = "unrelated" => fs \subseteq Files /\ (fs \cup Certain(fs, qs)) \cap TrulyAffected = {}

\* With nothing amiss, the answer is exact: what a task surely means is affected or it is not,
\* and only a task that expects nothing, or something unindexed or ambiguous, gets none.
Intact ==
  /\ NoWarning /\ Usable /\ listed = Changed(seen)
  /\ \A x \in Nodes : node[x] = "good"
  /\ \A f \in Files : seen[f] \notin {"skipped", "unresolved"}
Sure(fs, qs) == {s \in Symbols : \E q \in qs : Meant(fs, {q}) = {s}}
ExactWhenIntact ==
  phase = "compared" /\ Intact =>
    \A task \in Tasks :
      LET fs == task[1]  qs == task[2] IN
      Relationship(fs, qs) =
        IF (fs \cup Sure(fs, qs)) \cap TrulyAffected # {} THEN "related"
        ELSE IF fs \cup qs # {} /\ fs \subseteq Files /\ \A q \in qs : \E s \in Symbols : Meant(fs, {q}) = {s}
             THEN "unrelated" ELSE "unknown"

\* What the report of an experiment concludes from it.
RelationshipTruthful == NeverWrong /\ ExactWhenIntact

\* An expected symbol resolves "only when exactly one matching identity exists", several are
\* ambiguous (affectedNeighborhood.ts, lines 967-970; docs/METRICS.md, line 584), and an ambiguous
\* symbol is no evidence for "unrelated": so a task that may mean any of several symbols of one
\* name, one of them affected, is not called unrelated.
AmbiguousNotUnrelated ==
  phase = "compared" =>
    \A task \in Tasks :
      LET fs == task[1]  qs == task[2] IN
      (\E q \in qs : Cardinality(Meant(fs, {q})) > 1 /\ Meant(fs, {q}) \cap TrulyAffected # {})
        => Relationship(fs, qs) # "unrelated"
=============================================================================
