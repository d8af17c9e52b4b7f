----------------------------- MODULE ItemPaging -----------------------------
(***************************************************************************)
(* Listing the items page by page (VaultService.ListItems) while they      *)
(* change.                                                                 *)
(*                                                                         *)
(* Rows are ordered by (updated_at, item_id), the newest first; a page     *)
(* token is the key of a row.  An item's key is the revision of its last   *)
(* change: pushes of a user that do not overlap stamp their rows in        *)
(* revision order, and the id makes the order total either way.            *)
(***************************************************************************)
EXTENDS RevisionLog

CONSTANT Limit   \* the page size

ASSUME PagingAssumption == Limit \in Nat \ {0}

VARIABLE listing  \* one client's listing

Key(i) == Latest({e \in log : e.item = i}).rev

\* from: the newest revision when the listing began.  after: the key its page
\* token holds, 0 for none.  got: how often each item was delivered.  named: the
\* rows its page tokens were made from.
NoListing == [on |-> FALSE, deleted |-> FALSE, from |-> 0, after |-> 0,
              got |-> [i \in Items |-> 0], named |-> {}]

StartListing ==
  /\ ~listing.on
  /\ \E includeDeleted \in BOOLEAN :
       listing' = [NoListing EXCEPT !.on = TRUE, !.deleted = includeDeleted,
                                    !.from = UserMaxRevision]

\* WHERE user_id = $1, AND deleted_at IS NULL
Listable == {i \in Items : Present(i) /\ (listing.deleted \/ ~items[i].deleted)}

\* Mutant: the row of the token is part of the next page.
FromToken == {i \in Listable : listing.after = 0 \/ Key(i) <= listing.after}

\* AND (updated_at, item_id) < the page token
Below == {i \in Listable : listing.after = 0 \/ Key(i) < listing.after}

\* ORDER BY updated_at DESC, item_id DESC LIMIT n
Newest(S, n) == {i \in S : Cardinality({j \in S : Key(j) > Key(i)}) < n}

\* One page.  One row more than the page is read, and if there is one the token
\* is made from it.
ListItems ==
  LET page  == Newest(Below, Limit)
      extra == Newest(Below, Limit + 1) \ page
  IN  /\ listing.on
      /\ listing' = [listing EXCEPT
           !.on = extra # {},
           !.got = [i \in Items |-> IF i \in page THEN @[i] + 1 ELSE @[i]],
           !.named = @ \cup extra,
           !.after = IF extra = {} THEN 0 ELSE Key(CHOOSE i \in extra : TRUE)]

-----------------------------------------------------------------------------
\* What a listing has delivered.  No item comes twice, whatever changes while the
\* client goes through the pages.  And of the items that have not changed since
\* it began, it has passed over none, except those that a page token was made
\* from: such a row ends no page, and the next page begins below it.
ListingAccountsForItems ==
  LET passed(i) == ~listing.on \/ (listing.after # 0 /\ Key(i) >= listing.after)
  IN  /\ \A i \in Items : listing.got[i] <= 1
      /\ listing # NoListing =>
           \A i \in Listable : Key(i) <= listing.from /\ passed(i) =>
             (listing.got[i] = 1 <=> i \notin listing.named)

=============================================================================
