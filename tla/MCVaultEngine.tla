---------------------------- MODULE MCVaultEngine ---------------------------
(***************************************************************************)
(* Instances of VaultEngine for TLC.  Calls, operations and items are      *)
(* interchangeable: nothing orders them.  A run of safety properties says  *)
(* so with Symmetry.  A run that also checks liveness may not: there they  *)
(* are numbers, and PushSpec has the behaviours that use each kind of      *)
(* number in order, of which every behaviour is a renaming.                *)
(***************************************************************************)
EXTENDS VaultEngine, TLC

Symmetry ==
  Permutations(Calls) \cup Permutations(Ops) \cup Permutations(Items)

\* x is seen for the first time only after the smaller elements of S.
AfterSmaller(x, S, seen) == \A y \in S : y < x => y \in seen

InOrder ==
  \A r \in Calls :
    /\ pc[r] # pc'[r] => AfterSmaller(r, Calls, {s \in Calls : pc[s] # "idle"})
    /\ Op(r) # Op(r)' => AfterSmaller(Op(r)', Ops, {Op(s) : s \in Calls})
    /\ item'[r] \notin {item[r], NoItem} =>
         AfterSmaller(item'[r], Items, {item[s] : s \in Calls})

PushSpec ==
  Init /\ [][Next /\ InOrder]_vars /\ \A r \in Calls : WF_vars(Step(r))

=============================================================================
