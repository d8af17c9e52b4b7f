-------------------------- MODULE MCClientCommands --------------------------
(***************************************************************************)
(* Instances of ClientCommands for TLC.                                    *)
(***************************************************************************)
EXTENDS ClientCommands, TLC

\* Operations are told apart by Large.
Symmetry ==
  Permutations(Users) \cup Permutations(Keys) \cup Permutations(Blobs)
    \cup Permutations(Slots)

=============================================================================
