---------------------------- MODULE RevisionFeed ----------------------------
(***************************************************************************)
(* The read side of the sync service: readers follow the revision log with *)
(* a cursor, by the bundle of Sync or by the pages of PullChanges, while   *)
(* writers push operations.                                                *)
(*                                                                         *)
(* The log is that of VaultStore, which the push path implements: revision *)
(* numbers are drawn when an operation runs and become visible when it     *)
(* commits, so with several writers they may appear out of order.  Each    *)
(* read is one step, because WithRevisionSnapshotRead runs its queries in  *)
(* one REPEATABLE READ snapshot.                                           *)
(***************************************************************************)
EXTENDS VaultStore, RevisionLog, ItemPaging

CONSTANTS Readers,  \* devices that follow the log
          Bundle,   \* MaxSyncBundleRevisionEvents
          Page,     \* the page size PullChanges settled on
          MaxOpen,  \* bound: push transactions open at the same time
          MaxRev    \* bound: revision numbers drawn

ASSUME FeedAssumption ==
  /\ Bundle \in Nat \ {0} /\ Page \in Nat \ {0}
  /\ MaxOpen \in Nat /\ MaxRev \in Nat

VARIABLES
  cursor,   \* the revision each reader asks from
  token,    \* the page token it holds, 0 for none
  replica   \* its copy of the items

readerVars == <<cursor, token, replica>>
feedVars   == <<storeVars, cursor, token, replica, listing>>

FeedInit ==
  /\ StoreInit
  /\ cursor = [d \in Readers |-> 0]
  /\ token = [d \in Readers |-> 0]
  /\ replica = [d \in Readers |-> [i \in Items |-> NoRow]]
  /\ listing = NoListing

-----------------------------------------------------------------------------
\* Mutant: events applied in any order, the earliest one last.
AppliedInReverse(copy, rows) ==
  [i \in Items |->
     LET mine  == {e \in rows : e.item = i}
         first == CHOOSE e \in mine : \A f \in mine : e.rev <= f.rev
     IN  IF mine = {} THEN copy[i]
         ELSE IF first.type = "delete" THEN Tombstone(i)
         ELSE [items[i] EXCEPT !.deleted = FALSE]]

Applied(copy, rows) ==
  [i \in Items |->
     LET mine == {e \in rows : e.item = i}
     IN  IF mine = {} THEN copy[i]
         ELSE IF Latest(mine).type = "delete" THEN Tombstone(i)
         ELSE [items[i] EXCEPT !.deleted = FALSE]]

-----------------------------------------------------------------------------
\* One Sync call: a bundle of at most Bundle events, and the newest revision.
Sync(d) ==
  /\ token[d] = 0
  /\ replica' = [replica EXCEPT ![d] =
                   Applied(@, FirstRows(After(cursor[d]), Bundle))]
  /\ cursor' = [cursor EXCEPT ![d] = UserMaxRevision]
  /\ UNCHANGED <<storeVars, token>>

pullAfterRevision(d) == IF token[d] > cursor[d] THEN token[d] ELSE cursor[d]

\* Mutant: the next page starts after the extra row, as in ListItems.
PullSkipsExtraRow(d) ==
  LET rows == After(pullAfterRevision(d))
      page == FirstRows(rows, Page)
  IN  /\ replica' = [replica EXCEPT ![d] = Applied(@, page)]
      /\ IF page # rows
         THEN /\ token' = [token EXCEPT ![d] =
                             Latest(FirstRows(rows, Page + 1)).rev]
              /\ UNCHANGED cursor
         ELSE /\ token' = [token EXCEPT ![d] = 0]
              /\ cursor' = [cursor EXCEPT ![d] = UserMaxRevision]
      /\ UNCHANGED storeVars

\* One page of PullChanges.  The row beyond the page only tells that there is
\* a next page; the cursor moves when there is none.
PullChanges(d) ==
  LET rows == After(pullAfterRevision(d))
      page == FirstRows(rows, Page)
  IN  /\ replica' = [replica EXCEPT ![d] = Applied(@, page)]
      /\ IF page # rows
         THEN /\ token' = [token EXCEPT ![d] = Latest(page).rev]
              /\ UNCHANGED cursor
         ELSE /\ token' = [token EXCEPT ![d] = 0]
              /\ cursor' = [cursor EXCEPT ![d] = UserMaxRevision]
      /\ UNCHANGED storeVars

\* The reader stops between two pages and starts over later.
AbandonPull(d) ==
  /\ token[d] # 0
  /\ token' = [token EXCEPT ![d] = 0]
  /\ UNCHANGED <<storeVars, cursor, replica>>

\* Writers.
Open ==
  /\ Cardinality(pending) < MaxOpen /\ seq < MaxRev
  /\ Reserve
  /\ UNCHANGED readerVars

Close ==
  /\ \/ \E n \in pending : Release(n)
     \/ \E op \in Ops, kind \in Kinds, i \in Items, v \in Expected,
          n \in pending : Apply(op, kind, i, v, n)
  /\ UNCHANGED readerVars

List == (StartListing \/ ListItems) /\ UNCHANGED <<storeVars, readerVars>>

FeedNext ==
  \/ UNCHANGED listing /\ (Open \/ Close)
  \/ \E d \in Readers :
       UNCHANGED listing /\ (Sync(d) \/ PullChanges(d) \/ AbandonPull(d))
  \/ List

FeedSpec == FeedInit /\ [][FeedNext]_feedVars

-----------------------------------------------------------------------------
(***************************************************************************)
(* Properties.                                                             *)
(***************************************************************************)

FeedTypeOK ==
  /\ StoreTypeOK
  /\ cursor \in [Readers -> 0..seq]
  /\ token \in [Readers -> 0..seq]
  /\ replica \in [Readers -> [Items -> ItemRows]]
  /\ listing.after \in 0..seq /\ listing.named \subseteq Items

\* How far a reader believes to have come.
Position(d) == pullAfterRevision(d)

\* A cursor is never ahead of the data: a reader that will only ask for what
\* comes after its cursor, or after its page token, has had everything up to
\* there.  The server hands out NewServerRevision, the reader trusts it.
NothingSkipped ==
  \A d \in Readers : \A e \in log :
    e.rev <= Position(d) => replica[d][e.item].version >= e.version

\* A reader that is up to date, and not between two pages, has the items as
\* they are, the deleted ones included, although events carry rows of a later
\* time and a page may end between the creation and the deletion of an item.
CaughtUpReaderAgrees ==
  \A d \in Readers : token[d] = 0 /\ cursor[d] = UserMaxRevision =>
    \A i \in Items :
      replica[d][i] = IF items[i].deleted THEN Tombstone(i) ELSE items[i]

\* A copy never runs ahead of its item, and never goes back to an older row.
ReplicaMovesForward ==
  [][\A d \in Readers : \A i \in Items :
       /\ replica'[d][i].version >= replica[d][i].version
       /\ replica'[d][i].version <= items'[i].version]_feedVars

=============================================================================
