----------------------------- MODULE MCIndexing -----------------------------
(* Model values and symmetry for the runs of the indexing manager.         *)
EXTENDS IndexingManager, TLC

Symmetry == Permutations(Workspaces)

=============================================================================
