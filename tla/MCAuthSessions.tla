--------------------------- MODULE MCAuthSessions ---------------------------
(***************************************************************************)
(* Instances of AuthSessions for TLC.                                      *)
(***************************************************************************)
EXTENDS AuthSessions, TLC

Symmetry ==
  Permutations(Users) \cup Permutations(Devices) \cup Permutations(Tokens)
    \cup Permutations(Workers)

=============================================================================
