------------------------ MODULE MCAffectedNeighborhood ------------------------
(* Instances of AffectedNeighborhood for TLC. *)
EXTENDS AffectedNeighborhood, TLC

\* At most two edges, of which none leads back to where it begins.
SmallGraphs == {E \in SUBSET {e \in Nodes \X Nodes : e[1] # e[2]} : Cardinality(E) <= 2}

\* Any files, and at most one symbol.
AnyTask == (SUBSET (Files \cup Unindexed)) \X ({{}} \cup {{q} : q \in Symbols \cup Names})

\* Nothing tells files apart, or symbols, but their names.
Symmetry == Permutations(Files) \cup Permutations(Symbols)
=============================================================================
