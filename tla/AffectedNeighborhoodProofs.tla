---------------------- MODULE AffectedNeighborhoodProofs ----------------------
(***************************************************************************)
(* AffectedNeighborhood for any files, symbols, graphs and tasks, and any  *)
(* number of faults.  A comparison is of the files as they are until the   *)
(* next edit (AsCompared); the rest is about one state: the seeds and      *)
(* their neighborhood are never more than what is so (SeedsTrue,           *)
(* NeighborhoodTrue), and all of it when the evidence is complete          *)
(* (NeighborhoodWhole).  A namesake whose node the graph has as something  *)
(* else is left out of what is proved (Certain, AmbiguousNotUnrelated).    *)
(***************************************************************************)
EXTENDS AffectedNeighborhood, FiniteSetTheorems, TLAPS

\* What a comparison left, until a file is edited.
AsCompared ==
  IF phase # "compared" THEN seen = Unseen ELSE
    /\ \A f \in Files : seen[f] = (IF f \notin snapshot THEN "skipped" ELSE files[f]) \/ seen[f] = "unresolved"
    /\ listed \subseteq Changed(seen)
    /\ seeds = [status |-> SeedStatus(seen, listed), nodes |-> IF Usable THEN SeedNodes(listed) ELSE {}]
    /\ neighborhood = Neighborhood(seeds)

Statuses == {"complete", "partial", "unavailable"}
Inductive == TypeOK /\ AsCompared

\* Mappings have the type of a mapping.
LEMMA MappingTyped ==
  ASSUME NEW now, NEW list, list \subseteq Files
  PROVE  /\ SeedStatus(now, list) \in Statuses
         /\ SeedNodes(list) \subseteq Nodes
         /\ \A from \in [status : Statuses, nodes : SUBSET Nodes] : Neighborhood(from) \in [status : Statuses, nodes : SUBSET Nodes]
<1>1. SeedStatus(now, list) \in Statuses
  BY DEF SeedStatus, Statuses
<1>2. SeedNodes(list) \subseteq Nodes
  BY DEF SeedNodes, Nodes
<1>3. ASSUME NEW from \in [status : Statuses, nodes : SUBSET Nodes]
      PROVE  Neighborhood(from) \in [status : Statuses, nodes : SUBSET Nodes]
  <2>1. Traverse(from.nodes) \subseteq Nodes
    BY DEF Traverse
  <2> QED
    BY <2>1 DEF Neighborhood, Unavailable, Statuses
<1> QED
  BY <1>1, <1>2, <1>3

\* The bound on faults is kept by as many as there are files.
LEMMA FaultCounted ==
  ASSUME NEW failed \in SUBSET Files, faults \in 0..MaxFaults, Fault(Cardinality(failed)), MaxFaults \in Nat
  PROVE  faults' \in 0..MaxFaults
<1>1. Cardinality(failed) \in Nat
  BY FilesFinite, FS_Subset, FS_CardinalityType
<1> QED
  BY <1>1 DEF Fault

\* What is made of a comparison depends on the index and the session alone.
LEMMA MappingKept ==
  ASSUME UNCHANGED <<found, entries, session>>
  PROVE  /\ SeedStatus(seen, listed)' = SeedStatus(seen', listed') /\ Usable' = Usable
         /\ SeedNodes(listed)' = SeedNodes(listed') /\ Neighborhood(seeds)' = Neighborhood(seeds')
<1>1. UNCHANGED <<owner, name, edges, node, record, badEdges, unlisted, read>>
  BY DEF found, entries, session
<1>2. Usable' = Usable /\ GraphStatus' = GraphStatus /\ GraphEdges' = GraphEdges
  BY <1>1 DEF Usable, GraphStatus, NoWarning, Within, GraphNodes, GraphEdges
<1>3. SeedNodes(listed)' = SeedNodes(listed') /\ Mapped(listed)' = Mapped(listed')
  BY <1>1 DEF SeedNodes, Mapped, FileFound, SymbolFound, Records
<1>4. Changed(seen)' = Changed(seen') /\ Freshness(seen)' = Freshness(seen')
  BY <1>1 DEF Changed, Freshness
<1>5. SeedStatus(seen, listed)' = SeedStatus(seen', listed')
  BY <1>2, <1>3, <1>4 DEF SeedStatus
<1>6. Neighborhood(seeds)' = Neighborhood(seeds')
  BY <1>2 DEF Neighborhood, Traverse, Unavailable
<1> QED
  BY <1>2, <1>3, <1>5, <1>6

\* A session that has not begun satisfies the inductive invariant.
LEMMA InitInductive == Init => Inductive
<1> SUFFICES ASSUME Init PROVE Inductive
  OBVIOUS
<1>1. TypeOK
  BY GraphsAssumption, BoundsNat DEF Init, TypeOK, NodeEntries, RecordEntries, Unseen, Unavailable
<1>2. AsCompared
  BY DEF Init, AsCompared
<1> QED
  BY <1>1, <1>2 DEF Inductive

\* Every step keeps it.
LEMMA NextInductive == Inductive /\ [Next]_vars => Inductive'
<1> SUFFICES ASSUME Inductive, [Next]_vars PROVE Inductive'
  OBVIOUS
<1> USE DEF Inductive
<1>0. TypeOK /\ AsCompared
  OBVIOUS
<1>1. CASE IndexBadly
  <2>1. phase = "indexing" /\ UNCHANGED <<found, phase, files, session, assessment>>
    BY <1>1 DEF IndexBadly
  <2>2. faults' \in 0..MaxFaults
    BY <1>1, <1>0, BoundsNat DEF IndexBadly, Fault, TypeOK
  <2>3. /\ node' \in [Nodes -> NodeEntries] /\ record' \in [Symbols -> RecordEntries]
        /\ badEdges' \subseteq edges /\ unlisted' \subseteq Files
    BY <1>1, <1>0 DEF IndexBadly, TypeOK
  <2>4. TypeOK'
    BY <2>1, <2>2, <2>3, <1>0 DEF TypeOK, found, session, assessment
  <2> QED
    BY <2>1, <2>4, <1>0 DEF AsCompared, assessment, Unseen
<1>2. CASE Capture
  <2>1. PICK failed \in SUBSET Files : Fault(Cardinality(failed)) /\ snapshot' = Files \ failed
    BY <1>2 DEF Capture
  <2>2. phase = "indexing" /\ phase' = "captured" /\ UNCHANGED <<found, entries, files, read, assessment>>
    BY <1>2 DEF Capture
  <2>3. faults' \in 0..MaxFaults
    BY <2>1, <1>0, BoundsNat, FaultCounted DEF TypeOK
  <2>4. seen = Unseen
    BY <2>2, <1>0 DEF AsCompared
  <2>5. TypeOK'
    BY <2>1, <2>2, <2>3, <2>4, <1>0 DEF TypeOK, found, entries, assessment, Unseen
  <2> QED
    BY <2>2, <2>4, <2>5 DEF AsCompared, assessment, Unseen
<1>3. CASE Load
  <2>1. /\ phase = "captured" /\ phase' = "prepared" /\ UNCHANGED <<found, entries, files, assessment>>
        /\ read' \subseteq {"symbols", "graph"} /\ snapshot' \in {snapshot, {}}
    BY <1>3 DEF Load
  <2>2. faults' \in 0..MaxFaults
    BY <1>3, <1>0, BoundsNat DEF Load, Fault, TypeOK
  <2>3. seen = Unseen
    BY <2>1, <1>0 DEF AsCompared
  <2>4. TypeOK'
    BY <2>1, <2>2, <2>3, <1>0 DEF TypeOK, found, entries, assessment, Unseen
  <2> QED
    BY <2>1, <2>3, <2>4 DEF AsCompared, assessment, Unseen
<1>4. ASSUME NEW f \in Files, Edit(f) PROVE Inductive'
  <2>1. /\ phase' \in {"captured", "prepared"}
        /\ files' \in [Files -> {"unchanged", "modified", "missing"}]
        /\ seen' = Unseen /\ listed' = {} /\ seeds' = Unavailable /\ neighborhood' = Unavailable
        /\ UNCHANGED <<found, entries, session, faults>>
    BY <1>4, <1>0 DEF Edit, TypeOK
  <2>2. TypeOK'
    BY <2>1, <1>0 DEF TypeOK, found, entries, session, Unseen, Unavailable
  <2> QED
    BY <2>1, <2>2 DEF AsCompared, Unseen
<1>5. CASE Compare
  <2>1. PICK failed \in SUBSET snapshot : Fault(Cardinality(failed)) /\ seen' = Assess(failed)
    BY <1>5 DEF Compare
  <2>2. /\ listed' \subseteq Changed(seen') /\ phase' = "compared"
        /\ seeds' = [status |-> SeedStatus(seen', listed'), nodes |-> IF Usable THEN SeedNodes(listed') ELSE {}]
        /\ neighborhood' = Neighborhood(seeds')
        /\ UNCHANGED <<found, entries, files, session>>
    BY <1>5 DEF Compare
  <2>3. faults' \in 0..MaxFaults
    BY <2>1, <1>0, BoundsNat, FaultCounted DEF TypeOK
  <2>4. listed' \subseteq Files
    BY <2>2 DEF Changed
  <2>5. /\ seeds' \in [status : Statuses, nodes : SUBSET Nodes]
        /\ neighborhood' \in [status : Statuses, nodes : SUBSET Nodes]
    BY <2>2, <2>4, MappingTyped
  <2>6. \A f \in Files : seen'[f] = (IF f \notin snapshot THEN "skipped" ELSE files[f]) \/ (seen'[f] = "unresolved" /\ f \in snapshot)
    BY <2>1, <1>0 DEF Assess, TypeOK
  <2>7. seen' \in [Files -> {"skipped", "unresolved", "unchanged", "modified", "missing"}]
    BY <2>1, <1>0 DEF Assess, TypeOK
  <2>8. TypeOK'
    BY <2>2, <2>3, <2>4, <2>5, <2>6, <2>7, <1>0 DEF TypeOK, found, entries, session, Statuses
  <2>9. /\ SeedStatus(seen, listed)' = SeedStatus(seen', listed') /\ Usable' = Usable
        /\ SeedNodes(listed)' = SeedNodes(listed') /\ Neighborhood(seeds)' = Neighborhood(seeds')
    BY <2>2, MappingKept
  <2>10. AsCompared'
    BY <2>2, <2>6, <2>9 DEF AsCompared, session, Changed
  <2> QED
    BY <2>8, <2>10
<1>6. CASE UNCHANGED vars
  <2>1. UNCHANGED <<found, entries, session, phase, files, assessment, faults>>
    BY <1>6 DEF vars
  <2>2. TypeOK'
    BY <2>1, <1>0 DEF TypeOK, found, entries, session, assessment
  <2>3. /\ SeedStatus(seen, listed)' = SeedStatus(seen', listed') /\ Usable' = Usable
        /\ SeedNodes(listed)' = SeedNodes(listed') /\ Neighborhood(seeds)' = Neighborhood(seeds')
    BY <2>1, MappingKept
  <2>4. AsCompared'
    BY <2>1, <2>3, <1>0 DEF AsCompared, session, assessment, Changed, Unseen
  <2> QED
    BY <2>2, <2>4
<1> QED
  BY <1>1, <1>2, <1>3, <1>4, <1>5, <1>6 DEF Next

-----------------------------------------------------------------------------
\* What is listed has changed: a file that could not be compared is not listed.
LEMMA ListedTrue ==
  ASSUME TypeOK, AsCompared, phase = "compared", NEW f \in listed
  PROVE  f \in Files /\ files[f] # "unchanged"
<1>1. f \in Files /\ seen[f] \in {"modified", "missing"}
  BY DEF AsCompared, Changed
<1> QED
  BY <1>1 DEF AsCompared

\* Seeds are files that have changed, and symbols of theirs.
LEMMA SeedsTrue ==
  ASSUME TypeOK, AsCompared, phase = "compared"
  PROVE  seeds.nodes \subseteq TrulyChanged
<1>1. SeedNodes(listed) \subseteq TrulyChanged
  BY ListedTrue DEF SeedNodes, Records, TrulyChanged
<1> QED
  BY <1>1 DEF AsCompared

\* A neighborhood is one hop from its seeds, along edges the tool found.
LEMMA NeighborhoodTrue ==
  ASSUME TypeOK, AsCompared, phase = "compared"
  PROVE  neighborhood.nodes \subseteq TrulyAffected
<1>1. seeds.nodes \subseteq TrulyChanged
  BY SeedsTrue
<1>2. Traverse(seeds.nodes) \subseteq TrulyAffected
  BY <1>1 DEF Traverse, GraphEdges, Touches, TrulyAffected
<1>3. neighborhood.nodes = {} \/ neighborhood.nodes = Traverse(seeds.nodes)
  BY DEF AsCompared, Neighborhood, Unavailable
<1> QED
  BY <1>2, <1>3

\* What is mapped for a task is expected by it, or meant.
LEMMA TaskTrue ==
  ASSUME NEW fs, NEW qs
  PROVE  TaskMapping(fs, qs).nodes \subseteq fs \cup Meant(fs, qs)
<1>1. ASSUME NEW q \in qs PROVE Candidates(fs, q) \subseteq Meant(fs, qs)
  BY DEF Candidates, Meant
<1>2. TaskMapping(fs, qs).nodes \subseteq
        {f \in fs : FileFound(f)} \cup UNION {Candidates(fs, q) : q \in {p \in qs : Resolved(fs, p)}}
  BY DEF TaskMapping, Unavailable
<1> QED
  BY <1>1, <1>2

\* Complete seeds: every file was compared, every change listed and mapped, nothing dropped.
LEMMA SeedsWhole ==
  ASSUME TypeOK, AsCompared, phase = "compared", seeds.status = "complete"
  PROVE  /\ Usable /\ NoWarning /\ Mapped(listed)
         /\ listed = Changed(files) /\ \A f \in Files : seen[f] = files[f]
         /\ seeds.nodes = TrulyChanged
<1>1. /\ Usable /\ GraphStatus = "complete" /\ Mapped(listed) /\ listed = Changed(seen)
      /\ Freshness(seen) \in {"fresh", "stale"}
  BY DEF AsCompared, SeedStatus
<1>2. NoWarning
  BY <1>1 DEF GraphStatus
<1>3. \A f \in Files : seen[f] = files[f]
  <2>1. \A f \in Files : seen[f] \notin {"skipped", "unresolved"}
    BY <1>1 DEF Freshness
  <2> QED
    BY <2>1 DEF AsCompared
<1>4. listed = Changed(files)
  BY <1>1, <1>3 DEF Changed
<1>5. listed = {f \in Files : files[f] # "unchanged"}
  BY <1>4 DEF Changed, TypeOK
<1>6. TrulyChanged \subseteq SeedNodes(listed)
  <2>1. ASSUME NEW f \in Files, files[f] # "unchanged" PROVE f \in SeedNodes(listed)
    BY <2>1, <1>1, <1>5 DEF Mapped, SeedNodes
  <2>2. ASSUME NEW s \in Symbols, files[owner[s]] # "unchanged" PROVE s \in SeedNodes(listed)
    <3>1. owner[s] \in listed
      BY <2>2, <1>5 DEF TypeOK
    <3>2. s \in Records(owner[s])
      BY <3>1, <1>2 DEF NoWarning, Records
    <3> QED
      BY <3>1, <3>2, <1>1 DEF Mapped, SeedNodes
  <2> QED
    BY <2>1, <2>2 DEF TrulyChanged
<1>7. seeds.nodes = SeedNodes(listed)
  BY <1>1 DEF AsCompared
<1> QED
  BY <1>1, <1>2, <1>3, <1>4, <1>6, <1>7, SeedsTrue

\* Then the neighborhood is all that is affected.
LEMMA NeighborhoodWhole ==
  ASSUME TypeOK, AsCompared, phase = "compared", seeds.status = "complete"
  PROVE  neighborhood = [status |-> "complete", nodes |-> TrulyAffected]
<1>1. Usable /\ NoWarning /\ seeds.nodes = TrulyChanged
  BY SeedsWhole
<1>2. GraphStatus = "complete"
  BY <1>1 DEF GraphStatus, Usable
<1>3. GraphEdges = edges
  BY <1>1 DEF GraphEdges, NoWarning
<1>4. Traverse(seeds.nodes) = TrulyAffected
  BY <1>1, <1>3 DEF Traverse, TrulyAffected
<1> QED
  BY <1>2, <1>4 DEF AsCompared, Neighborhood

-----------------------------------------------------------------------------
\* No answer is wrong, of the task's files and the symbols it certainly means.
LEMMA NeverWrongFollows == Inductive => NeverWrong
<1> SUFFICES ASSUME TypeOK, AsCompared, phase = "compared", NEW fs, NEW qs, <<fs, qs>> \in Tasks
             PROVE  /\ Relationship(fs, qs) = "related" => (fs \cup Meant(fs, qs)) \cap TrulyAffected # {}
                    /\ Relationship(fs, qs) = "unrelated" => fs \subseteq Files /\ (fs \cup Certain(fs, qs)) \cap TrulyAffected = {}
  <2> SUFFICES ASSUME Inductive, phase = "compared", NEW task \in Tasks
               PROVE  /\ Relationship(task[1], task[2]) = "related" =>
                           (task[1] \cup Meant(task[1], task[2])) \cap TrulyAffected # {}
                      /\ Relationship(task[1], task[2]) = "unrelated" =>
                           task[1] \subseteq Files /\ (task[1] \cup Certain(task[1], task[2])) \cap TrulyAffected = {}
    BY DEF NeverWrong
  <2>1. task = <<task[1], task[2]>>
    BY TasksAssumption
  <2> QED
    BY <2>1 DEF Inductive
<1>1. ASSUME Relationship(fs, qs) = "related" PROVE (fs \cup Meant(fs, qs)) \cap TrulyAffected # {}
  <2>1. TaskMapping(fs, qs).nodes \cap neighborhood.nodes # {}
    BY <1>1 DEF Relationship
  <2> QED
    BY <2>1, TaskTrue, NeighborhoodTrue
<1>2. ASSUME Relationship(fs, qs) = "unrelated"
      PROVE  fs \subseteq Files /\ (fs \cup Certain(fs, qs)) \cap TrulyAffected = {}
  <2>1. /\ seeds.status = "complete" /\ TaskMapping(fs, qs).status = "complete"
        /\ TaskMapping(fs, qs).nodes \cap neighborhood.nodes = {}
    BY <1>2 DEF Relationship
  <2>2. /\ NoWarning /\ Mapped(listed) /\ seeds.nodes = TrulyChanged
        /\ \A f \in Files : files[f] # "unchanged" => f \in listed
    BY <2>1, SeedsWhole DEF Changed, TypeOK
  <2>3. neighborhood.nodes = TrulyAffected
    BY <2>1, NeighborhoodWhole
  <2>4. (\A f \in fs : FileFound(f)) /\ (\A q \in qs : Resolved(fs, q))
    BY <2>1 DEF TaskMapping, Unavailable
  <2>5. TaskMapping(fs, qs).nodes = fs \cup UNION {Candidates(fs, q) : q \in qs}
    BY <2>1, <2>4 DEF TaskMapping, Unavailable
  <2>6. ASSUME NEW s \in Certain(fs, qs), s \in TrulyAffected PROVE FALSE
    <3>1. /\ s \in Symbols /\ s \in Nodes /\ owner[s] \in Files /\ owner[s] \in fs
          /\ node[s] \in {"good", "absent"} /\ record[s] = "good" /\ s \in Records(owner[s])
          /\ \E q \in qs : q \in {s, name[s]}
      BY <2>6, <2>2 DEF Certain, Meant, Nodes, TypeOK, NodeEntries, RecordEntries, NoWarning, Records
    <3>2. CASE node[s] = "good"
      <4>1. \E q \in qs : s \in Candidates(fs, q)
        BY <3>1, <3>2 DEF Candidates, SymbolFound
      <4> QED
        BY <4>1, <2>1, <2>3, <2>5, <2>6
    <3>3. CASE node[s] = "absent"
      <4>1. s \notin GraphNodes
        BY <3>3 DEF GraphNodes
      <4>2. ~SymbolFound(s)
        BY <3>3 DEF SymbolFound
      <4>3. s \notin TrulyChanged
        BY <4>2, <3>1, <2>2, IdentitiesDisjoint DEF TrulyChanged, Mapped
      <4>4. \A e \in edges : s \notin {e[1], e[2]}
        BY <4>1, <2>2 DEF NoWarning, Within
      <4> QED
        BY <4>3, <4>4, <2>6 DEF TrulyAffected
    <3> QED
      BY <3>1, <3>2, <3>3
  <2> QED
    BY <2>1, <2>3, <2>4, <2>5, <2>6 DEF FileFound
<1> QED
  BY <1>1, <1>2

\* With nothing amiss the lookups are exact.
LEMMA LookupsExact ==
  ASSUME TypeOK, Intact, NEW fs
  PROVE  /\ \A f : FileFound(f) <=> f \in Files
         /\ \A s \in Symbols : SymbolFound(s) /\ s \in Records(owner[s])
         /\ \A q : Candidates(fs, q) = Meant(fs, {q}) /\ (Resolved(fs, q) <=> \E s \in Symbols : Meant(fs, {q}) = {s})
<1>1. /\ \A x \in Nodes : node[x] = "good"
      /\ \A s \in Symbols : record[s] = "good"
      /\ unlisted = {}
  BY DEF Intact, NoWarning
<1>2. \A f : FileFound(f) <=> f \in Files
  BY <1>1 DEF FileFound, Nodes
<1>3. \A s \in Symbols : SymbolFound(s) /\ s \in Records(owner[s])
  BY <1>1 DEF SymbolFound, Nodes, Records
<1>4. ASSUME NEW q PROVE Candidates(fs, q) = Meant(fs, {q}) /\ ~Unidentified(fs, q)
  BY <1>1, <1>3 DEF Candidates, Meant, Unidentified, Records
<1> QED
  BY <1>2, <1>3, <1>4 DEF Resolved

\* And the evidence is complete.
LEMMA EvidenceWhole ==
  ASSUME TypeOK, AsCompared, phase = "compared", Intact
  PROVE  seeds.status = "complete" /\ GraphStatus = "complete"
<1>1. GraphStatus = "complete"
  BY DEF Intact, GraphStatus, Usable
<1>2. Freshness(seen) \in {"fresh", "stale"}
  BY DEF Intact, Freshness, Usable
<1>3. Mapped(listed)
  BY LookupsExact DEF Intact, Mapped, NoWarning, Records, AsCompared, TypeOK
<1>4. SeedStatus(seen, listed) = "complete"
  BY <1>1, <1>2, <1>3 DEF Intact, SeedStatus
<1> QED
  BY <1>1, <1>4 DEF AsCompared

\* With nothing amiss, the answer is exact.
LEMMA ExactFollows == Inductive => ExactWhenIntact
<1> SUFFICES ASSUME TypeOK, AsCompared, phase = "compared", Intact, NEW fs, NEW qs, <<fs, qs>> \in Tasks
             PROVE  Relationship(fs, qs) =
                      IF (fs \cup Sure(fs, qs)) \cap TrulyAffected # {} THEN "related"
                      ELSE IF fs \cup qs # {} /\ fs \subseteq Files /\ \A q \in qs : \E s \in Symbols : Meant(fs, {q}) = {s}
                           THEN "unrelated" ELSE "unknown"
  <2> SUFFICES ASSUME Inductive, phase = "compared", Intact, NEW task \in Tasks
               PROVE  Relationship(task[1], task[2]) =
                        IF (task[1] \cup Sure(task[1], task[2])) \cap TrulyAffected # {} THEN "related"
                        ELSE IF task[1] \cup task[2] # {} /\ task[1] \subseteq Files
                                /\ \A q \in task[2] : \E s \in Symbols : Meant(task[1], {q}) = {s}
                             THEN "unrelated" ELSE "unknown"
    BY DEF ExactWhenIntact
  <2>1. task = <<task[1], task[2]>>
    BY TasksAssumption
  <2> QED
    BY <2>1 DEF Inductive
<1> DEFINE nodes == (fs \cap Files) \cup Sure(fs, qs)
<1> DEFINE whole == fs \subseteq Files /\ \A q \in qs : \E s \in Symbols : Meant(fs, {q}) = {s}
<1>1. seeds.status = "complete" /\ GraphStatus = "complete" /\ Usable
  BY EvidenceWhole DEF Intact
<1>2. neighborhood = [status |-> "complete", nodes |-> TrulyAffected]
  BY <1>1, NeighborhoodWhole
<1>3. {f \in fs : FileFound(f)} = fs \cap Files
  BY LookupsExact
<1>4. UNION {Candidates(fs, q) : q \in {p \in qs : Resolved(fs, p)}} = Sure(fs, qs)
  <2>1. \A q : Candidates(fs, q) = Meant(fs, {q}) /\ (Resolved(fs, q) <=> \E s \in Symbols : Meant(fs, {q}) = {s})
    BY LookupsExact
  <2>2. ASSUME NEW q \in qs, Resolved(fs, q) PROVE Candidates(fs, q) \subseteq Sure(fs, qs)
    <3>1. PICK s \in Symbols : Candidates(fs, q) = {s} /\ Meant(fs, {q}) = {s}
      BY <2>1, <2>2
    <3>2. s \in Sure(fs, qs)
      BY <3>1 DEF Sure
    <3> QED
      BY <3>1, <3>2
  <2>3. ASSUME NEW s \in Sure(fs, qs) PROVE \E q \in qs : Resolved(fs, q) /\ s \in Candidates(fs, q)
    BY <2>1 DEF Sure
  <2> QED
    BY <2>2, <2>3
<1>5. ((\A f \in fs : FileFound(f)) /\ (\A q \in qs : Resolved(fs, q))) <=> whole
  BY LookupsExact
<1>6. TaskMapping(fs, qs) =
        IF nodes = {} THEN Unavailable ELSE [status |-> IF whole THEN "complete" ELSE "partial", nodes |-> nodes]
  BY <1>1, <1>3, <1>4, <1>5 DEF TaskMapping
<1>7. TrulyAffected \subseteq Nodes
  BY DEF TrulyAffected, TrulyChanged, Nodes
<1>8. fs \subseteq Files \cup Unindexed
  BY TasksAssumption
<1>9. (fs \cup Sure(fs, qs)) \cap TrulyAffected = nodes \cap TrulyAffected
  BY <1>7, <1>8, IdentitiesDisjoint DEF Nodes
<1>10. whole => (nodes = {} <=> fs \cup qs = {})
  BY DEF Sure
<1>11. CASE nodes = {}
  <2>1. Relationship(fs, qs) = "unknown"
    BY <1>6, <1>11 DEF Relationship, Unavailable
  <2> QED
    BY <2>1, <1>9, <1>10, <1>11
<1>12. CASE nodes # {}
  <2>1. Relationship(fs, qs) = IF nodes \cap TrulyAffected # {} THEN "related" ELSE IF whole THEN "unrelated" ELSE "unknown"
    BY <1>1, <1>2, <1>6, <1>12 DEF Relationship
  <2> QED
    BY <2>1, <1>9, <1>10, <1>12
<1> QED
  BY <1>11, <1>12

-----------------------------------------------------------------------------
\* A session satisfies the inductive invariant at all times.
LEMMA SpecInductive == Spec => []Inductive
<1> QED
  BY InitInductive, NextInductive, PTL DEF Spec

\* The state keeps its type: a file that is not in the snapshot is never compared, and
\* what is mapped is of the index.
THEOREM TypeCorrect == Spec => []TypeOK
<1>1. Inductive => TypeOK
  BY DEF Inductive
<1> QED
  BY <1>1, SpecInductive, PTL

\* Whatever is dropped, cut, unreadable or edited meanwhile, a task called related is related, and
\* one called unrelated has no affected file, nor an affected symbol but for those whose node the
\* graph has as something else, which the code overlooks (AmbiguousNotUnrelated); and an answer is
\* exact when nothing is amiss (assessAffectedNeighborhood).
THEOREM RelationshipTruthfulHolds == Spec => []RelationshipTruthful
<1>1. Inductive => RelationshipTruthful
  BY NeverWrongFollows, ExactFollows DEF RelationshipTruthful
<1> QED
  BY <1>1, SpecInductive, PTL
=============================================================================
