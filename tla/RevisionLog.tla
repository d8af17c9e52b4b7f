---------------------------- MODULE RevisionLog -----------------------------
(***************************************************************************)
(* Reading the revision log: the queries of revision_list.go over one      *)
(* snapshot of the tables.                                                 *)
(***************************************************************************)
EXTENDS VaultTables, FiniteSets

\* WHERE revision_id > n
After(n) == {e \in log : e.rev > n}

\* ORDER BY revision_id ASC LIMIT n
FirstRows(s, n) ==
  {e \in s : Cardinality({f \in s : f.rev < e.rev}) < n}

\* The last of a non-empty set of rows.
Latest(s) == CHOOSE e \in s : \A f \in s : f.rev <= e.rev

\* Mutant: the revision to ask for next, one too far.
RevisionToAskFor == IF log = {} THEN 0 ELSE Latest(log).rev + 1

\* COALESCE(MAX(revision_id), 0)
UserMaxRevision == IF log = {} THEN 0 ELSE Latest(log).rev

\* Mutant: the tombstone of a delete event without its version.
TombstoneUnversioned(i) == [version |-> 0, content |-> NoOp, deleted |-> TRUE]

(***************************************************************************)
(* An event carries its item's row as it is now, not as the event left it; *)
(* the reader keeps the row, or a tombstone without content if the event   *)
(* is a delete.  So the last event of an item decides.                     *)
(***************************************************************************)
Tombstone(i) == [version |-> items[i].version, content |-> NoOp, deleted |-> TRUE]

=============================================================================
