---------------------------- MODULE MCBlobUpload ----------------------------
(***************************************************************************)
(* Instances of BlobUpload for TLC.                                        *)
(***************************************************************************)
EXTENDS BlobUpload, TLC

Symmetry == Permutations(Workers)

=============================================================================
