----------------------------- MODULE VaultTables ----------------------------
(***************************************************************************)
(* One user's rows of the three vault tables and the rows the engine       *)
(* writes into them.  Every statement of the vault repositories is keyed   *)
(* by user_id, so users do not see each other's rows; the revision         *)
(* sequence alone is shared, and other users only open gaps in it.         *)
(***************************************************************************)
EXTENDS Integers

CONSTANTS Ops,       \* operation ids chosen by clients
          Items,     \* item ids: uuids generated by the server
          Versions,  \* the expected_version values a client may send
          NoOp,      \* the content of a row that was never written
          NoItem     \* no item named

ASSUME VaultAssumption ==
  /\ NoOp \notin Ops
  /\ NoItem \notin Items
  /\ Versions \subseteq Nat

VARIABLES
  items,      \* vault_items: item id -> row (version 0: no such row)
  log,        \* revision_log: the set of its rows
  processed,  \* processed_operations: operation id -> row (rev 0: no such row)
  seq         \* last value drawn from the revision_id sequence

\* expected_version of a request; a create carries none.
Expected == Versions \cup {0}

tables == <<items, log, processed, seq>>

Kinds == {"create", "update", "delete"}

\* The ciphertext of a row is named by the operation that wrote it.
ItemRows == [version : Nat, content : Ops \cup {NoOp}, deleted : BOOLEAN]

LogRows == [rev : Nat, op : Ops, item : Items, type : Kinds, version : Nat]

ProcessedRows == [item : Items \cup {NoItem}, rev : Nat]

NoRow       == [version |-> 0, content |-> NoOp, deleted |-> FALSE]
NoProcessed == [item |-> NoItem, rev |-> 0]

TablesInit ==
  /\ items = [i \in Items |-> NoRow]
  /\ log = {}
  /\ processed = [op \in Ops |-> NoProcessed]
  /\ seq = 0

TablesTypeOK ==
  /\ items \in [Items -> ItemRows]
  /\ log \subseteq LogRows
  /\ processed \in [Ops -> ProcessedRows]
  /\ seq \in Nat

Present(i) == items[i].version > 0

\* Mutant: the WHERE clause without deleted_at IS NULL.
MatchesTombstone(i, v) == Present(i) /\ items[i].version = v

\* WHERE item_id = i AND version = v AND deleted_at IS NULL
Matches(i, v) == Present(i) /\ items[i].version = v /\ ~items[i].deleted

\* The version an operation of this kind leaves on its item.
VersionAfter(kind, v) == IF kind = "create" THEN 1 ELSE v + 1

\* The row an operation of this kind leaves; a delete keeps the content.
RowAfter(kind, op, i, v) ==
  [version |-> VersionAfter(kind, v),
   content |-> IF kind = "delete" THEN items[i].content ELSE op,
   deleted |-> (kind = "delete")]

\* The revision_log row of an operation of this kind.
LogRow(kind, op, i, v, n) ==
  [rev |-> n, op |-> op, item |-> i, type |-> kind,
   version |-> VersionAfter(kind, v)]

=============================================================================
