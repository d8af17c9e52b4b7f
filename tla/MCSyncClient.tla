---------------------------- MODULE MCSyncClient ----------------------------
(***************************************************************************)
(* Instances of SyncClient for TLC.                                        *)
(***************************************************************************)
EXTENDS SyncClient, TLC

Symmetry ==
  Permutations(Devices) \cup Permutations(Slots) \cup Permutations(Ops)
    \cup Permutations(Items) \cup Permutations(LocalIds)

=============================================================================
