--------------------------- MODULE MCRevisionFeed ---------------------------
(***************************************************************************)
(* Instances of RevisionFeed for TLC.                                      *)
(***************************************************************************)
EXTENDS RevisionFeed, TLC

Symmetry ==
  Permutations(Readers) \cup Permutations(Ops) \cup Permutations(Items)

=============================================================================
