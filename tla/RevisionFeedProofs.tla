------------------------- MODULE RevisionFeedProofs -------------------------
(***************************************************************************)
(* A reader that follows the revision log with a cursor ends up with the   *)
(* items as they are, for any number of readers, items and revisions, if   *)
(* pushes do not overlap and a Sync bundle holds the whole log: the two    *)
(* conditions that the runs FeedCommitOrder and FeedBundle show are        *)
(* needed.  Its copy never goes back, without either condition.  And a     *)
(* listing of the items accounts for each of them.                         *)
(***************************************************************************)
EXTENDS RevisionFeed, VaultStoreProofs, OrderFacts

\* Pushes do not overlap, and a Sync bundle holds the whole log.
SerialWriters == MaxOpen = 1 /\ MaxRev <= Bundle

\* An item as a reader sees it.
View(i) == IF items[i].deleted THEN Tombstone(i) ELSE items[i]

Listings == [on : BOOLEAN, deleted : BOOLEAN, from : Nat, after : Nat,
             got : [Items -> Nat], named : SUBSET Items]

\* True whatever the writers do.
FeedInv ==
  /\ StoreInv /\ FeedTypeOK /\ IsFiniteSet(log)
  /\ listing \in Listings /\ listing.from <= seq
  /\ \A d \in Readers : \A i \in Items :
       replica[d][i].version <= items[i].version

\* The number of the push that is open is later than all a reader has heard of.
OpenIsLast ==
  /\ \A m, n \in pending : m = n
  /\ \A n \in pending : /\ \A e \in log : e.rev < n
                        /\ \A d \in Readers : cursor[d] < n /\ token[d] < n
                        /\ listing.from < n

\* Of the items without a later change the reader has the present state.
Agrees ==
  \A d \in Readers : \A i \in Items :
    (\A e \in log : e.item = i => e.rev <= Position(d)) => replica[d][i] = View(i)

SerialInv ==
  /\ FeedInv /\ OpenIsLast /\ seq <= MaxRev
  /\ Agrees /\ NothingSkipped

\* The rows a listing has had lie at or above its page token, and are at most
\* once delivered; the rows it has passed over are those of its tokens.
Passed(i) == ~listing.on \/ (listing.after # 0 /\ Key(i) >= listing.after)
Had(i)    == listing.got[i] = 1 \/ i \in listing.named

ListingInv ==
  /\ \A i \in Items :
       /\ listing.got[i] <= 1
       /\ listing.got[i] = 1 => i \notin listing.named
       /\ listing.on /\ Had(i) =>
            Present(i) /\ listing.after # 0 /\ Key(i) >= listing.after
  /\ listing # NoListing =>
       \A i \in Listable : Key(i) <= listing.from /\ Passed(i) => Had(i)

-----------------------------------------------------------------------------
(***************************************************************************)
(* The queries of revision_list.go.                                        *)
(***************************************************************************)
LEMMA StoreFacts ==
  ASSUME StoreInv
  PROVE  /\ seq \in Nat /\ log \subseteq LogRows
         /\ items \in [Items -> ItemRows]
         /\ \A e \in log : /\ e.rev \in Nat /\ e.rev \in 1..seq /\ e.item \in Items
                           /\ e.version \in Nat
         /\ \A i \in Items : items[i] \in ItemRows /\ items[i].version \in Nat
  BY DEF StoreInv, StoreTypeOK, TablesTypeOK, RevisionsUnique, LogRows, ItemRows

\* Latest is what ORDER BY revision_id DESC LIMIT 1 returns.
LEMMA LatestRow ==
  ASSUME StoreInv, NEW s \in SUBSET log, s # {}
  PROVE  Latest(s) \in s /\ \A f \in s : f.rev <= Latest(s).rev
  <1> DEFINE T == {e.rev : e \in s}
  <1>1. T \in SUBSET Nat /\ T # {} /\ seq \in Nat /\ \A y \in T : y <= seq
    BY StoreFacts
  <1>2. PICK x \in T : \A y \in T : y <= x
    <2> HIDE DEF T
    <2>1. QED
      BY <1>1, GreatestNumber
  <1>3. PICK e \in s : x = e.rev
    OBVIOUS
  <1>4. \A f \in s : f.rev <= e.rev
    BY <1>2, <1>3
  <1>5. QED
    BY <1>3, <1>4 DEF Latest

LEMMA NewestRevision ==
  ASSUME StoreInv
  PROVE  /\ UserMaxRevision \in 0..seq /\ \A e \in log : e.rev <= UserMaxRevision
         /\ UserMaxRevision = 0 \/ \E e \in log : e.rev = UserMaxRevision
  <1>1. CASE log = {}
    BY <1>1, StoreFacts DEF UserMaxRevision
  <1>2. CASE log # {}
    <2>1. Latest(log) \in log /\ \A f \in log : f.rev <= Latest(log).rev
      BY <1>2, LatestRow
    <2>2. QED
      BY <1>2, <2>1, StoreFacts DEF UserMaxRevision
  <1>3. QED
    BY <1>1, <1>2

\* A page holds the rows up to its last one, and is not empty without need.
LEMMA PageOfRows ==
  ASSUME StoreInv, IsFiniteSet(log), NEW s \in SUBSET log, NEW n \in Nat \ {0}
  PROVE  /\ FirstRows(s, n) \subseteq s
         /\ \A e \in FirstRows(s, n) : \A f \in s : f.rev <= e.rev => f \in FirstRows(s, n)
         /\ s # {} => FirstRows(s, n) # {}
         /\ Cardinality(s) <= n => FirstRows(s, n) = s
  <1> DEFINE key == [e \in s |-> e.rev]
  <1>1. key \in [s -> Nat] /\ IsFiniteSet(s) /\ n \in Nat
    BY StoreFacts, FS_Subset
  <1>2. FirstRows(s, n) = First(s, key, n)
    <2>1. ASSUME NEW e \in s PROVE {f \in s : f.rev < e.rev} = Lower(s, key, e)
      BY DEF Lower
    <2>2. QED
      BY <2>1 DEF FirstRows, First
  <1>3. \A e \in s : key[e] = e.rev
    OBVIOUS
  <1> HIDE DEF key
  <1>4. ASSUME NEW e \in First(s, key, n), NEW f \in s, f.rev <= e.rev
        PROVE  f \in First(s, key, n)
    <2>1. e \in s
      BY DEF First
    <2>2. QED
      BY <1>1, <1>3, <1>4, <2>1, FirstIsClosed
  <1>5. s # {} => First(s, key, n) # {}
    BY <1>1, FirstNotEmpty
  <1>6. Cardinality(s) <= n => First(s, key, n) = s
    BY <1>1, FirstIsAll
  <1>7. QED
    BY <1>2, <1>4, <1>5, <1>6 DEF FirstRows

\* The last log row of an item tells its state.
LEMMA LastRow ==
  ASSUME StoreInv, NEW e \in log, \A f \in log : f.item = e.item => f.rev <= e.rev
  PROVE  /\ e.version = items[e.item].version
         /\ items[e.item].deleted <=> e.type = "delete"
  <1>1. /\ e.item \in Items /\ e.version \in Nat /\ items[e.item].version \in Nat
        /\ e.version \in 1..items[e.item].version
    BY StoreFacts DEF StoreInv, LogIsHistory
  <1>2. PICK f \in log : f.item = e.item /\ f.version = items[e.item].version
    BY <1>1 DEF StoreInv, LogIsHistory
  <1>3. ~(e.version < f.version)
    <2>1. e.rev \in Nat /\ f.rev \in Nat /\ ~(e.rev < f.rev)
      BY <1>2, StoreFacts
    <2>2. QED
      BY <1>2, <2>1 DEF StoreInv, LogIsHistory
  <1>4. e.version = items[e.item].version
    BY <1>1, <1>2, <1>3
  <1>5. QED
    BY <1>4 DEF StoreInv, RowIsLastChange

\* No row is logged for an item that was never written.
LEMMA PresentIsLogged ==
  ASSUME StoreInv, NEW i \in Items
  PROVE  Present(i) <=> \E e \in log : e.item = i
  <1>1. items[i].version \in Nat
    BY StoreFacts
  <1>2. ASSUME Present(i) PROVE \E e \in log : e.item = i
    <2>1. items[i].version \in 1..items[i].version
      BY <1>1, <1>2 DEF Present
    <2>2. QED
      BY <2>1 DEF StoreInv, LogIsHistory
  <1>3. ASSUME NEW e \in log, e.item = i PROVE Present(i)
    BY <1>1, <1>3 DEF StoreInv, LogIsHistory, Present
  <1>4. QED
    BY <1>2, <1>3

\* What a reader makes of a set of rows: nothing of an item without one, the
\* present version of an item with one, and the present state if they are all
\* the rows of the item after some point.
LEMMA AppliedRows ==
  ASSUME StoreInv, NEW copy \in [Items -> ItemRows], NEW rows \in SUBSET log,
         NEW i \in Items
  PROVE  /\ Applied(copy, rows)[i] \in ItemRows
         /\ (\A e \in rows : e.item # i) => Applied(copy, rows)[i] = copy[i]
         /\ (\E e \in rows : e.item = i) =>
              Applied(copy, rows)[i].version = items[i].version
         /\ \A p \in Nat :
              (/\ \E e \in rows : e.item = i /\ e.rev > p
               /\ \A f \in log : f.item = i /\ f.rev > p => f \in rows)
                 => Applied(copy, rows)[i] = View(i)
  <1> DEFINE mine == {e \in rows : e.item = i}
             new == Applied(copy, rows)[i]
  <1>1. items[i] \in ItemRows /\ items[i].version \in Nat
    BY StoreFacts
  <1>2. new = IF mine = {} THEN copy[i]
              ELSE IF Latest(mine).type = "delete" THEN Tombstone(i)
              ELSE [items[i] EXCEPT !.deleted = FALSE]
    BY DEF Applied
  <1> HIDE DEF new
  <1>3. Tombstone(i) \in ItemRows /\ Tombstone(i).version = items[i].version
    BY <1>1 DEF Tombstone, ItemRows
  <1>4. /\ [items[i] EXCEPT !.deleted = FALSE] \in ItemRows
        /\ [items[i] EXCEPT !.deleted = FALSE].version = items[i].version
        /\ ~items[i].deleted => [items[i] EXCEPT !.deleted = FALSE] = items[i]
    BY <1>1 DEF ItemRows
  <1>5. ASSUME NEW p \in Nat, NEW e \in rows, e.item = i, e.rev > p,
               \A f \in log : f.item = i /\ f.rev > p => f \in rows
        PROVE  new = View(i)
    <2> DEFINE last == Latest(mine)
    <2>1. last \in mine /\ \A f \in mine : f.rev <= last.rev
      <3>1. mine \in SUBSET log /\ mine # {}
        BY <1>5
      <3>2. QED
        BY <3>1, LatestRow
    <2> HIDE DEF last
    <2>2. last \in log /\ last.item = i /\ e \in mine /\ e.rev <= last.rev
      BY <1>5, <2>1
    <2>3. ASSUME NEW f \in log, f.item = i PROVE f.rev <= last.rev
      <3>1. f.rev \in Nat /\ e.rev \in Nat /\ last.rev \in Nat
        BY <2>2, StoreFacts
      <3>2. CASE f.rev > p
        BY <1>5, <2>1, <2>3, <3>2
      <3>3. CASE ~(f.rev > p)
        BY <1>5, <2>2, <3>1, <3>3
      <3>4. QED
        BY <3>2, <3>3
    <2>4. items[i].deleted <=> last.type = "delete"
      BY <2>2, <2>3, LastRow
    <2>5. QED
      BY <1>2, <1>4, <2>2, <2>4 DEF View, last
  <1>6. copy[i] \in ItemRows
    OBVIOUS
  <1>7. /\ new \in ItemRows
        /\ (\A e \in rows : e.item # i) => new = copy[i]
        /\ (\E e \in rows : e.item = i) => new.version = items[i].version
    BY <1>2, <1>3, <1>4, <1>6
  <1>8. QED
    BY <1>5, <1>7 DEF new

-----------------------------------------------------------------------------
(***************************************************************************)
(* Whatever the writers do.                                                *)
(***************************************************************************)

\* The present rows, and a listing's rows, have a key.
LEMMA KeyFacts ==
  ASSUME StoreInv, NEW i \in Items, Present(i)
  PROVE  /\ Key(i) \in Nat /\ Key(i) \in 1..seq
         /\ \A f \in log : f.item = i => f.rev <= Key(i)
         /\ \E e \in log : e.item = i /\ e.rev = Key(i)
  <1> DEFINE mine == {e \in log : e.item = i}
             last == Latest(mine)
  <1>1. mine \in SUBSET log /\ mine # {}
    BY PresentIsLogged
  <1>2. last \in mine /\ \A f \in mine : f.rev <= last.rev
    <2> HIDE DEF mine
    <2>1. QED
      BY <1>1, LatestRow
  <1>3. Key(i) = last.rev
    BY DEF Key
  <1> HIDE DEF last
  <1>4. last \in log /\ last.item = i /\ \A f \in log : f.item = i => f.rev <= last.rev
    BY <1>2
  <1>5. QED
    BY <1>3, <1>4, StoreFacts

LEMMA EmptyListing ==
  /\ NoListing \in Listings
  /\ ~NoListing.on /\ NoListing.from = 0 /\ NoListing.after = 0
  /\ NoListing.named = {} /\ \A i \in Items : NoListing.got[i] = 0
  BY DEF NoListing, Listings

\* The first request of a listing.
LEMMA StartFacts ==
  ASSUME StoreInv, StartListing
  PROVE  /\ listing' \in Listings /\ listing'.on
         /\ listing'.from = UserMaxRevision /\ listing'.after = 0
         /\ listing'.named = {} /\ \A i \in Items : listing'.got[i] = 0
  <1>1. PICK b \in BOOLEAN :
          listing' = [NoListing EXCEPT !.on = TRUE, !.deleted = b, !.from = UserMaxRevision]
    BY DEF StartListing
  <1>2. UserMaxRevision \in Nat
    BY NewestRevision, StoreFacts
  <1>3. QED
    BY <1>1, <1>2, EmptyListing DEF Listings

\* A further page, and what is read beyond it.
ListPage == Newest(Below, Limit)
Beyond   == Newest(Below, Limit + 1) \ ListPage

LEMMA PageFacts ==
  ASSUME StoreInv, listing \in Listings, ListItems
  PROVE  /\ listing' \in Listings /\ listing.on
         /\ listing'.on <=> Beyond # {}
         /\ listing'.deleted = listing.deleted /\ listing'.from = listing.from
         /\ listing'.named = listing.named \cup Beyond
         /\ \A i \in Items :
              listing'.got[i] = IF i \in ListPage THEN listing.got[i] + 1 ELSE listing.got[i]
         /\ Beyond = {} => listing'.after = 0
         /\ Beyond # {} => \E x \in Beyond : listing'.after = Key(x)
         /\ listing'.after \in 0..seq
         /\ ListPage \subseteq Below /\ Beyond \subseteq Below
         /\ \A i \in Below : i \in Items /\ Present(i)
  <1> DEFINE x == CHOOSE i \in Beyond : TRUE
             a == IF Beyond = {} THEN 0 ELSE Key(x)
             g == [i \in Items |-> IF i \in ListPage THEN listing.got[i] + 1
                                   ELSE listing.got[i]]
  <1>1. /\ listing.on
        /\ listing' = [listing EXCEPT !.on = (Beyond # {}), !.got = g,
                                      !.named = listing.named \cup Beyond, !.after = a]
    BY DEF ListItems, ListPage, Beyond
  <1>2. /\ ListPage \subseteq Below /\ Beyond \subseteq Below
        /\ \A i \in Below : i \in Items /\ Present(i)
    BY DEF Newest, Below, Listable, ListPage, Beyond
  <1>3. Beyond # {} => x \in Beyond
    OBVIOUS
  <1> HIDE DEF x
  <1>4. a \in 0..seq /\ a \in Nat
    BY <1>2, <1>3, KeyFacts, StoreFacts
  <1>5. g \in [Items -> Nat] /\ listing.got \in [Items -> Nat]
    BY DEF Listings
  <1>6. \A i \in Items : g[i] = IF i \in ListPage THEN listing.got[i] + 1 ELSE listing.got[i]
    OBVIOUS
  <1>7. (Beyond = {} => a = 0) /\ (Beyond # {} => a = Key(x))
    OBVIOUS
  <1> HIDE DEF a, g
  <1>8. /\ (listing'.on <=> Beyond # {}) /\ listing'.deleted = listing.deleted
        /\ listing'.from = listing.from /\ listing'.after = a
        /\ listing'.named = listing.named \cup Beyond /\ listing'.got = g
        /\ listing' \in Listings
    BY <1>1, <1>2, <1>4, <1>5 DEF Listings
  <1>9. QED
    BY <1>1, <1>2, <1>3, <1>4, <1>6, <1>7, <1>8

LEMMA StoreFrame ==
  StoreInv /\ UNCHANGED storeVars => StoreInv'
  BY DEF storeVars, StoreInv, StoreTypeOK, TablesTypeOK, RevisionsUnique,
         ProcessedMatchesLog, LogIsHistory, RowIsLastChange

\* A push adds at most a row to the log, and only moves versions up.
LEMMA WriterStep ==
  ASSUME StoreInv, IsFiniteSet(log), Open \/ Close
  PROVE  /\ StoreInv' /\ IsFiniteSet(log') /\ seq <= seq'
         /\ \A i \in Items : items[i].version <= items'[i].version
  <1>1. CASE Open
    <2>1. Reserve
      BY <1>1 DEF Open
    <2>2. StoreInv'
      BY <2>1, NumbersStoreInv
    <2>3. QED
      BY <2>1, <2>2, StoreFacts DEF Reserve
  <1>2. CASE \E n \in pending : Release(n)
    <2>1. StoreInv'
      BY <1>2, NumbersStoreInv
    <2>2. QED
      BY <1>2, <2>1, StoreFacts DEF Release
  <1>3. ASSUME NEW op \in Ops, NEW kind \in Kinds, NEW i \in Items, NEW v \in Expected,
               NEW n \in pending, Apply(op, kind, i, v, n)
        PROVE  /\ StoreInv' /\ IsFiniteSet(log') /\ seq <= seq'
               /\ \A j \in Items : items[j].version <= items'[j].version
    <2>1. StoreInv'
      BY <1>3, ApplyStoreInv
    <2>2. IsFiniteSet(log')
      BY <1>3, FS_AddElement DEF Apply
    <2>3. items'[i].version = VersionAfter(kind, v) /\ seq' = seq
      BY <1>3, StoreFacts DEF Apply, RowAfter
    <2>4. items[i].version <= VersionAfter(kind, v)
      BY <1>3, StoreFacts DEF Apply, VersionAfter, Present, Matches
    <2>5. ASSUME NEW j \in Items, j # i PROVE items'[j] = items[j]
      BY <1>3, <2>5, StoreFacts DEF Apply
    <2>6. QED
      BY <2>1, <2>2, <2>3, <2>4, <2>5, StoreFacts
  <1>4. QED
    BY <1>1, <1>2, <1>3 DEF Close

\* What a reader applies: rows of the log, and a new place in it.
LEMMA ReaderStep ==
  ASSUME FeedInv, NEW d \in Readers, Sync(d) \/ PullChanges(d) \/ AbandonPull(d)
  PROVE  /\ UNCHANGED storeVars
         /\ cursor' \in [Readers -> 0..seq] /\ token' \in [Readers -> 0..seq]
         /\ replica' \in [Readers -> [Items -> ItemRows]]
         /\ \A c \in Readers : \A i \in Items :
              \/ replica'[c][i] = replica[c][i]
              \/ replica'[c][i].version = items[i].version
  <1>1. /\ StoreInv /\ IsFiniteSet(log) /\ UserMaxRevision \in 0..seq
        /\ cursor \in [Readers -> 0..seq] /\ token \in [Readers -> 0..seq]
        /\ replica \in [Readers -> [Items -> ItemRows]]
        /\ seq \in Nat
    BY NewestRevision, StoreFacts DEF FeedInv, FeedTypeOK
  <1>2. ASSUME NEW rows \in SUBSET log,
               replica' = [replica EXCEPT ![d] = Applied(replica[d], rows)]
        PROVE  /\ replica' \in [Readers -> [Items -> ItemRows]]
               /\ \A c \in Readers : \A i \in Items :
                    \/ replica'[c][i] = replica[c][i]
                    \/ replica'[c][i].version = items[i].version
    <2> DEFINE new == Applied(replica[d], rows)
    <2>1. replica[d] \in [Items -> ItemRows]
      BY <1>1
    <2>2. ASSUME NEW i \in Items
          PROVE  /\ new[i] \in ItemRows
                 /\ new[i] = replica[d][i] \/ new[i].version = items[i].version
      BY <1>1, <2>1, AppliedRows
    <2>3. new \in [Items -> ItemRows]
      <3>1. new = [i \in Items |-> new[i]]
        BY DEF Applied
      <3>2. QED
        BY <2>2, <3>1
    <2> HIDE DEF new
    <2>4. replica' = [replica EXCEPT ![d] = new]
      BY <1>2 DEF new
    <2>5. QED
      BY <1>1, <2>2, <2>3, <2>4
  <1>3. ASSUME NEW s \in SUBSET log, NEW n \in Nat PROVE FirstRows(s, n) \in SUBSET log
    BY DEF FirstRows
  <1>4. CASE Sync(d)
    <2>1. FirstRows(After(cursor[d]), Bundle) \in SUBSET log
      BY <1>3, FeedAssumption DEF After
    <2>2. QED
      BY <1>1, <1>2, <1>4, <2>1 DEF Sync
  <1>5. CASE PullChanges(d)
    <2> DEFINE rows == After(pullAfterRevision(d))
               page == FirstRows(rows, Page)
    <2>1. rows \in SUBSET log /\ page \in SUBSET log
      BY <1>3, FeedAssumption DEF After
    <2>2. page # rows => page # {}
      <3>1. rows # {} => page # {}
        <4> HIDE DEF rows
        <4>1. QED
          BY <1>1, <2>1, PageOfRows, FeedAssumption
      <3>2. QED
        BY <3>1
    <2>3. page # {} => Latest(page).rev \in 0..seq
      <3> HIDE DEF page
      <3>1. page # {} => Latest(page) \in log
        BY <1>1, <2>1, LatestRow
      <3>2. QED
        BY <1>1, <3>1, StoreFacts
    <2>4. /\ replica' = [replica EXCEPT ![d] = Applied(replica[d], page)]
          /\ UNCHANGED storeVars
          /\ page # rows => token' = [token EXCEPT ![d] = Latest(page).rev] /\ cursor' = cursor
          /\ page = rows => /\ token' = [token EXCEPT ![d] = 0]
                            /\ cursor' = [cursor EXCEPT ![d] = UserMaxRevision]
      BY <1>5 DEF PullChanges
    <2> HIDE DEF page, rows
    <2>5. cursor' \in [Readers -> 0..seq] /\ token' \in [Readers -> 0..seq]
      BY <1>1, <2>2, <2>3, <2>4
    <2>6. QED
      BY <1>2, <2>1, <2>4, <2>5
  <1>6. CASE AbandonPull(d)
    BY <1>1, <1>6 DEF AbandonPull
  <1>7. QED
    BY <1>4, <1>5, <1>6

LEMMA InitFeedInv == FeedInit => FeedInv
  <1> SUFFICES ASSUME FeedInit PROVE FeedInv
    OBVIOUS
  <1>1. StoreInv /\ seq = 0 /\ log = {} /\ items = [i \in Items |-> NoRow]
    BY InitStoreInv DEF FeedInit, StoreInit, TablesInit
  <1>2. IsFiniteSet(log)
    BY <1>1, FS_EmptySet
  <1>3. NoRow \in ItemRows /\ NoRow.version = 0
    BY DEF NoRow, ItemRows
  <1>4. FeedTypeOK
    BY <1>1, <1>3, EmptyListing DEF FeedInit, FeedTypeOK, StoreInv
  <1>5. QED
    BY <1>1, <1>2, <1>3, <1>4, EmptyListing DEF FeedInit, FeedInv

\* Any step keeps FeedInv and moves no copy back or past its item.
LEMMA NextFeedInv ==
  ASSUME FeedInv, [FeedNext]_feedVars
  PROVE  /\ FeedInv'
         /\ \A d \in Readers : \A i \in Items :
              /\ replica'[d][i].version >= replica[d][i].version
              /\ replica'[d][i].version <= items'[i].version
  <1>1. /\ StoreInv /\ IsFiniteSet(log) /\ listing \in Listings /\ listing.from <= seq
        /\ cursor \in [Readers -> 0..seq] /\ token \in [Readers -> 0..seq]
        /\ replica \in [Readers -> [Items -> ItemRows]]
        /\ listing.after \in 0..seq /\ listing.named \subseteq Items
        /\ \A d \in Readers : \A i \in Items : replica[d][i].version <= items[i].version
        /\ seq \in Nat
    BY StoreFacts DEF FeedInv, FeedTypeOK
  <1>2. \A d \in Readers : \A i \in Items :
          replica[d][i].version \in Nat /\ items[i].version \in Nat
    BY <1>1, StoreFacts DEF ItemRows
  <1>3. SUFFICES /\ StoreInv' /\ IsFiniteSet(log') /\ seq' \in Nat
                 /\ listing' \in Listings /\ listing'.from <= seq'
                 /\ cursor' \in [Readers -> 0..seq'] /\ token' \in [Readers -> 0..seq']
                 /\ replica' \in [Readers -> [Items -> ItemRows]]
                 /\ listing'.after \in 0..seq'
                 /\ \A d \in Readers : \A i \in Items :
                      /\ replica'[d][i].version >= replica[d][i].version
                      /\ replica'[d][i].version <= items'[i].version
    <2>1. listing' \in Listings => listing'.named \subseteq Items
      BY DEF Listings
    <2>2. QED
      BY <1>3, <2>1 DEF FeedInv, FeedTypeOK, StoreInv
  <1>4. CASE UNCHANGED listing /\ (Open \/ Close)
    <2>1. /\ StoreInv' /\ IsFiniteSet(log') /\ seq <= seq'
          /\ \A i \in Items : items[i].version <= items'[i].version
      BY <1>1, <1>4, WriterStep
    <2>2. cursor' = cursor /\ token' = token /\ replica' = replica
      BY <1>4 DEF Open, Close, readerVars
    <2>3. seq' \in Nat /\ \A i \in Items : items'[i].version \in Nat
      BY <2>1 DEF StoreInv, StoreTypeOK, TablesTypeOK, ItemRows
    <2>4. /\ \A n \in 0..seq : n \in 0..seq'
          /\ listing.from \in Nat
      BY <1>1, <2>1, <2>3 DEF Listings
    <2>5. cursor' \in [Readers -> 0..seq'] /\ token' \in [Readers -> 0..seq']
      BY <1>1, <2>2, <2>4
    <2>6. listing' = listing
      BY <1>4
    <2>7. listing'.from <= seq' /\ listing'.after \in 0..seq'
      BY <1>1, <2>1, <2>3, <2>4, <2>6
    <2>8. \A d \in Readers : \A i \in Items :
            /\ replica'[d][i].version >= replica[d][i].version
            /\ replica'[d][i].version <= items'[i].version
      BY <1>1, <1>2, <2>1, <2>2, <2>3
    <2>9. QED
      BY <1>1, <2>1, <2>2, <2>3, <2>5, <2>6, <2>7, <2>8
  <1>5. CASE \E d \in Readers : UNCHANGED listing
                                 /\ (Sync(d) \/ PullChanges(d) \/ AbandonPull(d))
    <2>1. PICK d \in Readers : UNCHANGED listing
                               /\ (Sync(d) \/ PullChanges(d) \/ AbandonPull(d))
      BY <1>5
    <2>2. /\ UNCHANGED storeVars
          /\ cursor' \in [Readers -> 0..seq] /\ token' \in [Readers -> 0..seq]
          /\ replica' \in [Readers -> [Items -> ItemRows]]
          /\ \A c \in Readers : \A i \in Items :
               \/ replica'[c][i] = replica[c][i]
               \/ replica'[c][i].version = items[i].version
      BY <2>1, ReaderStep
    <2>3. StoreInv' /\ seq' = seq /\ log' = log /\ items' = items
      BY <1>1, <2>2, StoreFrame DEF storeVars
    <2>4. \A c \in Readers : \A i \in Items :
            /\ replica'[c][i].version >= replica[c][i].version
            /\ replica'[c][i].version <= items'[i].version
      <3> SUFFICES ASSUME NEW c \in Readers, NEW i \in Items
                   PROVE  /\ replica'[c][i].version >= replica[c][i].version
                          /\ replica'[c][i].version <= items'[i].version
        OBVIOUS
      <3>1. /\ replica[c][i].version \in Nat /\ items[i].version \in Nat
            /\ replica[c][i].version <= items[i].version /\ items' = items
        BY <1>1, <1>2, <2>3
      <3>2. CASE replica'[c][i] = replica[c][i]
        BY <3>1, <3>2
      <3>3. CASE replica'[c][i].version = items[i].version
        BY <3>1, <3>3
      <3>4. QED
        BY <2>2, <3>2, <3>3
    <2>5. QED
      BY <1>1, <2>1, <2>2, <2>3, <2>4
  <1>6. CASE List
    <2>1. StoreInv' /\ seq' = seq /\ log' = log /\ items' = items
      BY <1>1, <1>6, StoreFrame DEF List, storeVars
    <2>2. cursor' = cursor /\ token' = token /\ replica' = replica
      BY <1>6 DEF List, readerVars
    <2>3. listing' \in Listings /\ listing'.from <= seq /\ listing'.after \in 0..seq
      <3>1. CASE StartListing
        BY <1>1, <3>1, StartFacts, NewestRevision
      <3>2. CASE ListItems
        BY <1>1, <3>2, PageFacts
      <3>3. QED
        BY <1>6, <3>1, <3>2 DEF List
    <2>4. QED
      BY <1>1, <1>2, <2>1, <2>2, <2>3
  <1>7. CASE UNCHANGED feedVars
    <2>1. StoreInv' /\ seq' = seq /\ log' = log /\ items' = items
      BY <1>1, <1>7, StoreFrame DEF feedVars, storeVars
    <2>2. cursor' = cursor /\ token' = token /\ replica' = replica /\ listing' = listing
      BY <1>7 DEF feedVars
    <2>3. QED
      BY <1>1, <1>2, <2>1, <2>2
  <1>8. QED
    BY <1>4, <1>5, <1>6, <1>7 DEF FeedNext

\* What holds whatever the writers do: no copy of a reader is ahead of its item, and no
\* cursor or page token is ahead of the numbers drawn.
THEOREM FeedInvariant == FeedSpec => []FeedInv
  BY InitFeedInv, NextFeedInv, PTL DEF FeedSpec

\* The variables of readers and listings keep their types: cursors and page tokens
\* are revisions that were drawn.
THEOREM FeedTypes == FeedSpec => []FeedTypeOK
  <1>1. FeedInv => FeedTypeOK
    BY DEF FeedInv
  <1>2. QED
    BY <1>1, FeedInvariant, PTL

\* However Sync and PullChanges are interleaved with each other and with pushes
\* that commit out of order, a reader's copy of an item never goes back to an
\* older version and never runs ahead of the item.
THEOREM CopyMovesForward == FeedSpec => ReplicaMovesForward
  <1>1. FeedInv /\ [FeedNext]_feedVars =>
          [\A d \in Readers : \A i \in Items :
             /\ replica'[d][i].version >= replica[d][i].version
             /\ replica'[d][i].version <= items'[i].version]_feedVars
    BY NextFeedInv
  <1>2. QED
    BY <1>1, FeedInvariant, PTL DEF FeedSpec, ReplicaMovesForward

-----------------------------------------------------------------------------
(***************************************************************************)
(* When pushes do not overlap.                                             *)
(***************************************************************************)

\* The log has no more rows than numbers were drawn.
LEMMA LogIsSmall ==
  ASSUME StoreInv, IsFiniteSet(log)
  PROVE  Cardinality(log) <= seq /\ Cardinality(log) \in Nat
  <1> DEFINE rev == [e \in log |-> e.rev]
  <1>1. seq \in Nat /\ \A e \in log : e.rev \in 1..seq
    BY StoreFacts
  <1>2. rev \in Injection(log, 1..seq)
    <2>1. rev \in [log -> 1..seq]
      BY <1>1
    <2>2. \A e, f \in log : rev[e] = rev[f] => e = f
      BY DEF StoreInv, RevisionsUnique
    <2>3. QED
      BY <2>1, <2>2 DEF Injection, IsInjective
  <1>3. IsFiniteSet(1..seq) /\ Cardinality(1..seq) = seq
    BY <1>1, FS_Interval
  <1> HIDE DEF rev
  <1>4. Cardinality(log) <= seq
    BY <1>2, <1>3, FS_Injection
  <1>5. QED
    BY <1>4, FS_CardinalityType

\* A copy that is right up to revision p, and is given the rows between p and q,
\* is right up to q.
LEMMA CatchUp ==
  ASSUME StoreInv, NEW copy \in [Items -> ItemRows], NEW rows \in SUBSET log,
         NEW p \in Nat, NEW q \in Nat,
         \A i \in Items :
           (\A e \in log : e.item = i => e.rev <= p) => copy[i] = View(i),
         \A e \in log : e.rev <= p => copy[e.item].version >= e.version,
         \A e \in rows : e.rev > p,
         \A e \in log : e.rev > p /\ e.rev <= q => e \in rows
  PROVE  /\ \A i \in Items :
              (\A e \in log : e.item = i => e.rev <= q) => Applied(copy, rows)[i] = View(i)
         /\ \A e \in log : e.rev <= q => Applied(copy, rows)[e.item].version >= e.version
  <1>1. ASSUME NEW i \in Items, \A e \in log : e.item = i => e.rev <= q
        PROVE  Applied(copy, rows)[i] = View(i)
    <2>1. CASE \E e \in rows : e.item = i
      <3>1. PICK e \in rows : e.item = i
        BY <2>1
      <3>2. e.rev > p /\ \A f \in log : f.item = i /\ f.rev > p => f \in rows
        BY <1>1
      <3>3. QED
        BY <3>1, <3>2, AppliedRows
    <2>2. CASE \A e \in rows : e.item # i
      <3>1. ASSUME NEW e \in log, e.item = i PROVE e.rev <= p
        <4>1. e.rev \in Nat /\ e.rev <= q /\ e \notin rows
          BY <1>1, <2>2, <3>1, StoreFacts
        <4>2. QED
          BY <4>1
      <3>2. copy[i] = View(i)
        BY <3>1
      <3>3. QED
        BY <2>2, <3>2, AppliedRows
    <2>3. QED
      BY <2>1, <2>2
  <1>2. ASSUME NEW e \in log, e.rev <= q
        PROVE  Applied(copy, rows)[e.item].version >= e.version
    <2> DEFINE i == e.item
    <2>1. i \in Items /\ e.rev \in Nat /\ e.version \in Nat /\ items[i].version \in Nat
      BY StoreFacts
    <2>2. e.version <= items[i].version
      BY <2>1 DEF StoreInv, LogIsHistory
    <2>3. CASE \E f \in rows : f.item = i
      BY <2>1, <2>2, <2>3, AppliedRows
    <2>4. CASE \A f \in rows : f.item # i
      <3>1. e.rev <= p
        BY <1>2, <2>1, <2>4
      <3>2. QED
        BY <2>1, <2>4, <3>1, AppliedRows
    <2>5. QED
      BY <2>3, <2>4
  <1>3. QED
    BY <1>1, <1>2

\* A reader that applies the rows between its position and its new one.
LEMMA ReaderAdvances ==
  ASSUME SerialInv, NEW d \in Readers, NEW rows \in SUBSET log, NEW q \in Nat,
         UNCHANGED storeVars,
         replica' = [replica EXCEPT ![d] = Applied(replica[d], rows)],
         \A c \in Readers : c # d => cursor'[c] = cursor[c] /\ token'[c] = token[c],
         Position(d)' = q,
         \A e \in rows : e.rev > Position(d),
         \A e \in log : e.rev > Position(d) /\ e.rev <= q => e \in rows
  PROVE  Agrees' /\ NothingSkipped'
  <1>1. /\ StoreInv /\ replica \in [Readers -> [Items -> ItemRows]]
        /\ items' = items /\ log' = log
        /\ cursor \in [Readers -> 0..seq] /\ token \in [Readers -> 0..seq] /\ seq \in Nat
    BY StoreFacts DEF SerialInv, FeedInv, FeedTypeOK, storeVars
  <1>2. Position(d) \in Nat
    BY <1>1 DEF Position, pullAfterRevision
  <1>3. /\ \A i \in Items :
             (\A e \in log : e.item = i => e.rev <= q)
               => Applied(replica[d], rows)[i] = View(i)
        /\ \A e \in log : e.rev <= q =>
             Applied(replica[d], rows)[e.item].version >= e.version
    <2>1. replica[d] \in [Items -> ItemRows]
      BY <1>1
    <2>2. /\ \A i \in Items :
               (\A e \in log : e.item = i => e.rev <= Position(d)) => replica[d][i] = View(i)
          /\ \A e \in log : e.rev <= Position(d) => replica[d][e.item].version >= e.version
      BY DEF SerialInv, Agrees, NothingSkipped
    <2> DEFINE copy == replica[d]
               p == Position(d)
    <2>3. /\ StoreInv /\ copy \in [Items -> ItemRows] /\ p \in Nat
          /\ \A i \in Items :
               (\A e \in log : e.item = i => e.rev <= p) => copy[i] = View(i)
          /\ \A e \in log : e.rev <= p => copy[e.item].version >= e.version
          /\ \A e \in rows : e.rev > p
          /\ \A e \in log : e.rev > p /\ e.rev <= q => e \in rows
      BY <1>1, <1>2, <2>1, <2>2
    <2> HIDE DEF copy, p
    <2>4. /\ \A i \in Items :
               (\A e \in log : e.item = i => e.rev <= q) => Applied(copy, rows)[i] = View(i)
          /\ \A e \in log : e.rev <= q => Applied(copy, rows)[e.item].version >= e.version
      BY ONLY <2>3, rows \in SUBSET log, q \in Nat, CatchUp, SMT
    <2>5. QED
      BY <2>4 DEF copy
  <1>4. replica'[d] = Applied(replica[d], rows)
    BY <1>1
  <1>5. ASSUME NEW c \in Readers, c # d
        PROVE  replica'[c] = replica[c] /\ Position(c)' = Position(c)
    BY <1>1, <1>5 DEF Position, pullAfterRevision
  <1>6. \A i \in Items : View(i)' = View(i)
    BY <1>1 DEF View, Tombstone
  <1>7. ASSUME NEW c \in Readers
        PROVE  /\ \A i \in Items :
                    (\A e \in log : e.item = i => e.rev <= Position(c)')
                      => replica'[c][i] = View(i)
               /\ \A e \in log : e.rev <= Position(c)' =>
                    replica'[c][e.item].version >= e.version
    <2>1. CASE c = d
      BY <1>3, <1>4, <2>1
    <2>2. CASE c # d
      BY <1>5, <2>2 DEF SerialInv, Agrees, NothingSkipped
    <2>3. QED
      BY <2>1, <2>2
  <1>8. Agrees'
    BY <1>1, <1>6, <1>7 DEF Agrees
  <1>9. NothingSkipped'
    BY <1>1, <1>7 DEF NothingSkipped
  <1>10. QED
    BY <1>8, <1>9

\* What a reader is told of the newest revision is not the number of an open push.
LEMMA OpenIsNewer ==
  ASSUME SerialInv, NEW n \in pending
  PROVE  UserMaxRevision < n /\ \A e \in log : e.rev < n
  <1>1. StoreInv /\ pending \subseteq 1..seq /\ seq \in Nat /\ \A e \in log : e.rev < n
    BY StoreFacts DEF SerialInv, FeedInv, StoreInv, StoreTypeOK, OpenIsLast
  <1>2. CASE UserMaxRevision = 0
    BY <1>1, <1>2
  <1>3. CASE \E e \in log : e.rev = UserMaxRevision
    BY <1>1, <1>3
  <1>4. QED
    BY <1>1, <1>2, <1>3, NewestRevision

\* The reader's steps.
LEMMA ReaderSerial ==
  ASSUME SerialWriters, SerialInv, NEW d \in Readers,
         Sync(d) \/ PullChanges(d) \/ AbandonPull(d)
  PROVE  /\ Agrees' /\ NothingSkipped'
         /\ \A c \in Readers : \A n \in pending : cursor'[c] < n /\ token'[c] < n
  <1>1. /\ StoreInv /\ IsFiniteSet(log) /\ seq \in Nat /\ seq <= MaxRev
        /\ replica \in [Readers -> [Items -> ItemRows]]
        /\ cursor \in [Readers -> 0..seq] /\ token \in [Readers -> 0..seq]
        /\ UserMaxRevision \in 0..seq /\ \A e \in log : e.rev <= UserMaxRevision
        /\ pending \subseteq 1..seq
        /\ \A n \in pending : UserMaxRevision < n /\ \A e \in log : e.rev < n
        /\ \A c \in Readers : \A n \in pending : cursor[c] < n /\ token[c] < n
    <2>1. StoreInv
      BY DEF SerialInv, FeedInv
    <2>2. QED
      BY <2>1, StoreFacts, NewestRevision, OpenIsNewer
         DEF SerialInv, FeedInv, FeedTypeOK, StoreInv, StoreTypeOK, OpenIsLast
  <1>2. CASE Sync(d)
    <2> DEFINE rows == After(cursor[d])
    <2>1. rows \in SUBSET log
      BY DEF After
    <2>2. FirstRows(rows, Bundle) = rows
      <3>1. Cardinality(rows) <= Cardinality(log) /\ IsFiniteSet(rows)
        <4> HIDE DEF rows
        <4>1. QED
          BY <1>1, <2>1, FS_Subset
      <3>2. Cardinality(rows) \in Nat
        BY <3>1, FS_CardinalityType
      <3>3. Cardinality(rows) <= Bundle /\ Bundle \in Nat \ {0}
        BY <1>1, <3>1, <3>2, LogIsSmall, FeedAssumption DEF SerialWriters
      <3> HIDE DEF rows
      <3>4. QED
        BY <1>1, <2>1, <3>3, PageOfRows
    <2>3. /\ token[d] = 0 /\ UNCHANGED storeVars /\ token' = token
          /\ replica' = [replica EXCEPT ![d] = Applied(replica[d], rows)]
          /\ cursor' = [cursor EXCEPT ![d] = UserMaxRevision]
      BY <1>2, <2>2 DEF Sync
    <2>4. Position(d) = cursor[d] /\ Position(d)' = UserMaxRevision
      BY <1>1, <2>3 DEF Position, pullAfterRevision
    <2>5. /\ \A e \in rows : e.rev > Position(d)
          /\ \A e \in log : e.rev > Position(d) /\ e.rev <= UserMaxRevision => e \in rows
      BY <2>4 DEF After
    <2> HIDE DEF rows
    <2>6. UserMaxRevision \in Nat
      BY <1>1
    <2>7. \A c \in Readers : c # d => cursor'[c] = cursor[c] /\ token'[c] = token[c]
      BY <1>1, <2>3
    <2>8. Agrees' /\ NothingSkipped'
      BY <2>1, <2>3, <2>4, <2>5, <2>6, <2>7, ReaderAdvances
    <2>9. \A c \in Readers : \A n \in pending : cursor'[c] < n /\ token'[c] < n
      BY <1>1, <2>3
    <2>10. QED
      BY <2>8, <2>9
  <1>3. CASE PullChanges(d)
    <2> DEFINE p    == pullAfterRevision(d)
               rows == After(p)
               page == FirstRows(rows, Page)
               last == Latest(page).rev
    <2>1. p \in Nat /\ cursor[d] <= p
      BY <1>1 DEF pullAfterRevision
    <2>2. rows \in SUBSET log
      BY DEF After
    <2>3. /\ page \in SUBSET log /\ page \in SUBSET rows
          /\ \A e \in page : \A f \in rows : f.rev <= e.rev => f \in page
          /\ rows # {} => page # {}
      <3> HIDE DEF rows
      <3>1. QED
        BY <1>1, <2>2, PageOfRows, FeedAssumption
    <2>4. /\ replica' = [replica EXCEPT ![d] = Applied(replica[d], page)]
          /\ UNCHANGED storeVars
          /\ page # rows => token' = [token EXCEPT ![d] = last] /\ cursor' = cursor
          /\ page = rows => /\ token' = [token EXCEPT ![d] = 0]
                            /\ cursor' = [cursor EXCEPT ![d] = UserMaxRevision]
      BY <1>3 DEF PullChanges
    <2>5. \A e \in log : e \in rows <=> e.rev > p
      BY DEF After
    <2>6. p = Position(d)
      BY DEF Position
    <2>7. page # {} => Latest(page) \in page
      <3> HIDE DEF page
      <3>1. QED
        BY <1>1, <2>3, LatestRow
    <2>8. page # {} => last \in Nat /\ last \in 0..seq /\ last > p
                        /\ \E e \in page : last = e.rev
      BY <2>3, <2>5, <2>7, <1>1, StoreFacts
    <2> HIDE DEF p, rows, page, last
    <2>9. \A c \in Readers : c # d => cursor'[c] = cursor[c] /\ token'[c] = token[c]
      BY <1>1, <2>4
    <2>10. \A e \in page : e.rev > Position(d)
      BY <2>3, <2>5, <2>6
    <2>11. CASE page # rows
      <3>1. page # {} /\ token'[d] = last /\ cursor'[d] = cursor[d]
        BY <1>1, <2>3, <2>4, <2>11
      <3>2. Position(d)' = last
        BY <1>1, <2>1, <2>8, <3>1 DEF Position, pullAfterRevision
      <3>3. \A e \in log : e.rev > Position(d) /\ e.rev <= last => e \in page
        BY <2>3, <2>5, <2>6, <2>8, <3>1
      <3>4. Agrees' /\ NothingSkipped'
        BY <2>3, <2>4, <2>8, <2>9, <2>10, <3>1, <3>2, <3>3, ReaderAdvances
      <3>5. \A n \in pending : last < n
        BY <1>1, <2>3, <2>8, <3>1
      <3>6. \A c \in Readers : \A n \in pending : cursor'[c] < n /\ token'[c] < n
        BY <1>1, <2>9, <3>1, <3>5
      <3>7. QED
        BY <3>4, <3>6
    <2>12. CASE page = rows
      <3>1. token'[d] = 0 /\ cursor'[d] = UserMaxRevision
        BY <1>1, <2>4, <2>12
      <3>2. Position(d)' = UserMaxRevision
        BY <1>1, <3>1 DEF Position, pullAfterRevision
      <3>3. \A e \in log : e.rev > Position(d) /\ e.rev <= UserMaxRevision => e \in page
        BY <2>5, <2>6, <2>12
      <3>4. Agrees' /\ NothingSkipped'
        <4>1. UserMaxRevision \in Nat /\ page \in SUBSET log
          BY <1>1, <2>3
        <4>2. QED
          BY <2>4, <2>9, <2>10, <3>2, <3>3, <4>1, ReaderAdvances
      <3>5. \A c \in Readers : \A n \in pending : cursor'[c] < n /\ token'[c] < n
        <4>1. \A n \in pending : UserMaxRevision < n /\ 0 < n
          BY <1>1
        <4>2. \A c \in Readers : \A n \in pending : cursor[c] < n /\ token[c] < n
          BY <1>1
        <4>3. QED
          BY <2>9, <3>1, <4>1, <4>2
      <3>6. QED
        BY <3>4, <3>5
    <2>13. QED
      BY <2>11, <2>12
  <1>4. CASE AbandonPull(d)
    <2>1. /\ items' = items /\ log' = log /\ cursor' = cursor /\ replica' = replica
          /\ token' = [token EXCEPT ![d] = 0]
      BY <1>4 DEF AbandonPull, storeVars
    <2>2. ASSUME NEW c \in Readers
          PROVE  Position(c)' \in Nat /\ Position(c) \in Nat /\ Position(c)' <= Position(c)
      BY <1>1, <2>1 DEF Position, pullAfterRevision
    <2>3. \A i \in Items : View(i)' = View(i)
      BY <2>1 DEF View, Tombstone
    <2>4. \A e \in log : e.rev \in Nat
      BY <1>1, StoreFacts
    <2>5. \A c \in Readers : \A e \in log : e.rev <= Position(c)' => e.rev <= Position(c)
      BY <2>2, <2>4
    <2>6. Agrees'
      BY <2>1, <2>3, <2>5 DEF SerialInv, Agrees
    <2>7. NothingSkipped'
      BY <2>1, <2>5 DEF SerialInv, NothingSkipped
    <2>8. QED
      BY <1>1, <2>1, <2>6, <2>7
  <1>5. QED
    BY <1>2, <1>3, <1>4

LEMMA InitSerialInv == ASSUME SerialWriters PROVE FeedInit => SerialInv
  <1> SUFFICES ASSUME FeedInit PROVE SerialInv
    OBVIOUS
  <1>1. /\ log = {} /\ pending = {} /\ seq = 0 /\ items = [i \in Items |-> NoRow]
        /\ replica = [d \in Readers |-> [i \in Items |-> NoRow]]
    BY DEF FeedInit, StoreInit, TablesInit
  <1>2. FeedInv /\ OpenIsLast /\ seq <= MaxRev /\ NothingSkipped
    BY <1>1, InitFeedInv, FeedAssumption DEF OpenIsLast, NothingSkipped
  <1>3. ~NoRow.deleted
    BY DEF NoRow
  <1>4. Agrees
    BY <1>1, <1>3 DEF Agrees, View
  <1>5. QED
    BY <1>2, <1>4 DEF SerialInv

LEMMA NextSerialInv ==
  ASSUME SerialWriters, SerialInv, [FeedNext]_feedVars
  PROVE  SerialInv'
  <1>1. /\ FeedInv /\ StoreInv /\ seq \in Nat /\ seq <= MaxRev /\ pending \subseteq 1..seq
        /\ cursor \in [Readers -> 0..seq] /\ token \in [Readers -> 0..seq]
        /\ listing \in Listings /\ listing.from <= seq /\ listing.from \in Nat
        /\ OpenIsLast /\ Agrees /\ NothingSkipped
    <2>1. StoreInv
      BY DEF SerialInv, FeedInv
    <2>2. QED
      BY <2>1, StoreFacts
         DEF SerialInv, FeedInv, FeedTypeOK, StoreInv, StoreTypeOK, Listings
  <1>2. FeedInv'
    BY <1>1, NextFeedInv
  <1>3. SUFFICES OpenIsLast' /\ seq' <= MaxRev /\ Agrees' /\ NothingSkipped'
    BY <1>2 DEF SerialInv
  <1>4. ASSUME items' = items, log' = log, cursor' = cursor, token' = token,
               replica' = replica
        PROVE  Agrees' /\ NothingSkipped'
    <2>1. \A d \in Readers : Position(d)' = Position(d)
      BY <1>4 DEF Position, pullAfterRevision
    <2>2. \A i \in Items : View(i)' = View(i)
      BY <1>4 DEF View, Tombstone
    <2>3. Agrees'
      BY <1>1, <1>4, <2>1, <2>2 DEF Agrees
    <2>4. NothingSkipped'
      BY <1>1, <1>4, <2>1 DEF NothingSkipped
    <2>5. QED
      BY <2>3, <2>4
  <1>5. CASE UNCHANGED listing /\ Open
    <2>1. /\ Cardinality(pending) < MaxOpen /\ seq < MaxRev
          /\ seq' = seq + 1 /\ pending' = pending \cup {seq + 1}
          /\ items' = items /\ log' = log /\ cursor' = cursor /\ token' = token
          /\ replica' = replica /\ listing' = listing
      BY <1>5 DEF Open, Reserve, readerVars
    <2>2. pending = {}
      <3>1. IsFiniteSet(1..seq)
        BY <1>1, FS_Interval
      <3>2. IsFiniteSet(pending)
        BY <1>1, <3>1, FS_Subset
      <3>3. Cardinality(pending) \in Nat
        BY <3>2, FS_CardinalityType
      <3>4. Cardinality(pending) = 0
        BY <2>1, <3>3 DEF SerialWriters
      <3>5. QED
        BY <3>2, <3>4, FS_EmptySet
    <2>3. pending' = {seq + 1} /\ seq' <= MaxRev
      BY <1>1, <2>1, <2>2, FeedAssumption
    <2>4. /\ \A e \in log : e.rev < seq + 1
          /\ \A d \in Readers : cursor[d] < seq + 1 /\ token[d] < seq + 1
          /\ listing.from < seq + 1
      BY <1>1, StoreFacts
    <2>5. OpenIsLast'
      BY <2>1, <2>3, <2>4 DEF OpenIsLast
    <2>6. QED
      BY <1>4, <2>1, <2>3, <2>5
  <1>6. CASE UNCHANGED listing /\ Close /\ \E n \in pending : Release(n)
    <2>1. /\ pending' \subseteq pending /\ seq' = seq
          /\ items' = items /\ log' = log /\ cursor' = cursor /\ token' = token
          /\ replica' = replica /\ listing' = listing
      BY <1>6 DEF Close, Release, readerVars
    <2>2. OpenIsLast'
      BY <1>1, <2>1 DEF OpenIsLast
    <2>3. QED
      BY <1>1, <1>4, <2>1, <2>2
  <1>7. CASE UNCHANGED listing /\ Close
             /\ \E op \in Ops, kind \in Kinds, i \in Items, v \in Expected, n \in pending :
                  Apply(op, kind, i, v, n)
    <2>1. PICK op \in Ops, kind \in Kinds, i \in Items, v \in Expected, n \in pending :
                  Apply(op, kind, i, v, n)
      BY <1>7
    <2> DEFINE new == LogRow(kind, op, i, v, n)
    <2>2. /\ pending' = pending \ {n} /\ seq' = seq /\ log' = log \cup {new}
          /\ cursor' = cursor /\ token' = token /\ replica' = replica
          /\ items' = [items EXCEPT ![i] = RowAfter(kind, op, i, v)]
      BY <1>7, <2>1 DEF Close, Apply, readerVars
    <2>3. new.rev = n /\ new.item = i
      BY DEF LogRow
    <2> HIDE DEF new
    <2>4. pending' = {}
      BY <1>1, <2>2 DEF OpenIsLast
    <2>5. OpenIsLast'
      BY <2>4 DEF OpenIsLast
    <2>6. \A d \in Readers : Position(d)' = Position(d) /\ Position(d) \in Nat
                             /\ ~(n <= Position(d))
      BY <1>1, <2>2 DEF OpenIsLast, Position, pullAfterRevision
    <2>7. \A j \in Items : j # i => View(j)' = View(j)
      BY <1>1, <2>2, StoreFacts DEF View, Tombstone
    <2>8. Agrees'
      <3> SUFFICES ASSUME NEW d \in Readers, NEW j \in Items,
                          \A e \in log' : e.item = j => e.rev <= Position(d)'
                   PROVE  replica'[d][j] = View(j)'
        BY DEF Agrees
      <3>1. j # i /\ \A e \in log : e.item = j => e.rev <= Position(d)
        BY <2>2, <2>3, <2>6
      <3>2. QED
        BY <1>1, <2>2, <2>7, <3>1 DEF Agrees
    <2>9. NothingSkipped'
      BY <1>1, <2>2, <2>3, <2>6 DEF NothingSkipped
    <2>10. QED
      BY <1>1, <2>2, <2>5, <2>8, <2>9
  <1>8. CASE \E d \in Readers : UNCHANGED listing
                                 /\ (Sync(d) \/ PullChanges(d) \/ AbandonPull(d))
    <2>1. PICK d \in Readers : UNCHANGED listing
                               /\ (Sync(d) \/ PullChanges(d) \/ AbandonPull(d))
      BY <1>8
    <2>2. /\ Agrees' /\ NothingSkipped'
          /\ \A c \in Readers : \A n \in pending : cursor'[c] < n /\ token'[c] < n
      BY <2>1, ReaderSerial
    <2>3. pending' = pending /\ seq' = seq /\ log' = log /\ listing' = listing
      BY <1>1, <2>1, ReaderStep DEF storeVars
    <2>4. OpenIsLast'
      BY <1>1, <2>2, <2>3 DEF OpenIsLast
    <2>5. QED
      BY <1>1, <2>2, <2>3, <2>4
  <1>9. CASE List
    <2>1. /\ pending' = pending /\ seq' = seq /\ items' = items /\ log' = log
          /\ cursor' = cursor /\ token' = token /\ replica' = replica
      BY <1>9 DEF List, storeVars, readerVars
    <2>2. \A n \in pending : listing'.from < n
      <3>1. CASE StartListing
        BY <1>1, <3>1, StartFacts, OpenIsNewer
      <3>2. CASE ListItems
        <4>1. listing'.from = listing.from
          BY <1>1, <3>2, PageFacts
        <4>2. QED
          BY <1>1, <4>1 DEF OpenIsLast
      <3>3. QED
        BY <1>9, <3>1, <3>2 DEF List
    <2>3. OpenIsLast'
      BY <1>1, <2>1, <2>2 DEF OpenIsLast
    <2>4. QED
      BY <1>1, <1>4, <2>1, <2>3
  <1>10. CASE UNCHANGED feedVars
    <2>1. /\ pending' = pending /\ seq' = seq /\ items' = items /\ log' = log
          /\ cursor' = cursor /\ token' = token /\ replica' = replica /\ listing' = listing
      BY <1>10 DEF feedVars, storeVars
    <2>2. OpenIsLast'
      BY <1>1, <2>1 DEF OpenIsLast
    <2>3. QED
      BY <1>1, <1>4, <2>1, <2>2
  <1>11. QED
    BY <1>5, <1>6, <1>7, <1>8, <1>9, <1>10 DEF FeedNext, Close

\* If pushes do not overlap and a Sync bundle holds the whole log, the number an open push
\* has drawn is later than the log, and a reader has every item as it is unless an event
\* of it is still to come.
THEOREM SerialInvariant == ASSUME SerialWriters PROVE FeedSpec => []SerialInv
  BY InitSerialInv, NextSerialInv, PTL DEF FeedSpec

\* If pushes of a user do not overlap and a Sync bundle holds the whole log, then
\* NewServerRevision and the page tokens of PullChanges are never ahead of what the
\* reader was given, for any page size and any mix of the two calls.
THEOREM CursorNotAhead == ASSUME SerialWriters PROVE FeedSpec => []NothingSkipped
  <1>1. SerialInv => NothingSkipped
    BY DEF SerialInv
  <1>2. QED
    BY <1>1, SerialInvariant, PTL

\* Under the same conditions a reader whose cursor is the newest revision has every
\* item as it is, the deleted ones included, although an event carries its item's
\* present row and a page may end between two events of one item.
THEOREM CaughtUpAgrees == ASSUME SerialWriters PROVE FeedSpec => []CaughtUpReaderAgrees
  <1>1. SerialInv => CaughtUpReaderAgrees
    <2> SUFFICES ASSUME SerialInv, NEW d \in Readers, token[d] = 0,
                        cursor[d] = UserMaxRevision, NEW i \in Items
                 PROVE  replica[d][i] = View(i)
      BY DEF CaughtUpReaderAgrees, View
    <2>1. StoreInv
      BY DEF SerialInv, FeedInv
    <2>2. UserMaxRevision \in Nat /\ \A e \in log : e.rev <= UserMaxRevision
      BY <2>1, NewestRevision, StoreFacts
    <2>3. Position(d) = UserMaxRevision
      BY <2>2 DEF Position, pullAfterRevision
    <2>4. QED
      BY <2>2, <2>3 DEF SerialInv, Agrees
  <1>2. QED
    BY <1>1, SerialInvariant, PTL

-----------------------------------------------------------------------------
(***************************************************************************)
(* Listing the items.                                                      *)
(***************************************************************************)
LEMMA LatestNumber ==
  ASSUME NEW s, NEW x \in s, \A f \in s : f.rev \in Nat /\ f.rev <= x.rev
  PROVE  Latest(s).rev = x.rev
  <1>1. Latest(s) \in s /\ \A f \in s : f.rev <= Latest(s).rev
    BY DEF Latest
  <1>2. QED
    BY <1>1

LEMMA KeysDistinct ==
  ASSUME StoreInv, NEW i \in Items, NEW j \in Items, Present(i), Present(j), Key(i) = Key(j)
  PROVE  i = j
  <1>1. PICK e \in log : e.item = i /\ e.rev = Key(i)
    BY KeyFacts
  <1>2. PICK f \in log : f.item = j /\ f.rev = Key(j)
    BY KeyFacts
  <1>3. QED
    BY <1>1, <1>2 DEF StoreInv, RevisionsUnique

\* The page of ListItems and the row read beyond it.
LEMMA PageOfItems ==
  ASSUME StoreInv
  PROVE  /\ \A x \in Beyond : \A y \in Below : Key(y) > Key(x) => y \in ListPage
         /\ \A x \in Beyond : \A y \in ListPage : Key(y) >= Key(x)
         /\ \A x, y \in Beyond : Key(x) = Key(y)
         /\ Beyond = {} => ListPage = Below
  <1> DEFINE key == [i \in Below |-> seq - Key(i)]
             at  == [i \in Below |-> Key(i)]
  <1>1. \A i \in Below : i \in Items /\ Present(i) /\ Key(i) \in 1..seq /\ Key(i) \in Nat
    BY KeyFacts DEF Below, Listable
  <1>2. seq \in Nat /\ Limit \in Nat \ {0} /\ Limit \in Nat
    BY StoreFacts, PagingAssumption
  <1>3. key \in [Below -> Nat]
    BY <1>1, <1>2
  <1>4. \A i \in Below : key[i] = seq - Key(i)
    OBVIOUS
  <1>5. IsFiniteSet(Below)
    <2>1. at \in [Below -> 1..seq] /\ \A i, j \in Below : at[i] = at[j] => i = j
      BY <1>1, KeysDistinct
    <2>2. at \in Injection(Below, 1..seq)
      BY <2>1 DEF Injection, IsInjective
    <2>3. IsFiniteSet(1..seq)
      BY <1>2, FS_Interval
    <2> HIDE DEF at
    <2>4. QED
      BY <2>2, <2>3, FS_Injection
  <1> HIDE DEF key
  <1>6. \A i, j \in Below : key[j] < key[i] <=> Key(j) > Key(i)
    BY <1>1, <1>2, <1>4
  <1>7. \A i, j \in Below : key[i] = key[j] => i = j
    <2>1. \A i, j \in Below : key[i] = key[j] => Key(i) = Key(j)
      BY <1>1, <1>2, <1>4
    <2>2. QED
      BY <1>1, <2>1, KeysDistinct
  <1>8. ASSUME NEW n PROVE Newest(Below, n) = First(Below, key, n)
    <2>1. ASSUME NEW i \in Below
          PROVE  {j \in Below : Key(j) > Key(i)} = Lower(Below, key, i)
      BY <1>6 DEF Lower
    <2>2. QED
      BY <2>1 DEF Newest, First
  <1>9. ListPage = First(Below, key, Limit) /\ Beyond = First(Below, key, Limit + 1) \ ListPage
    BY <1>8 DEF ListPage, Beyond
  <1>10. ListPage \subseteq Below /\ Beyond \subseteq Below
    BY <1>9 DEF First
  <1>11. ASSUME NEW x \in Beyond, NEW y \in Below, Key(y) > Key(x) PROVE y \in ListPage
    <2>1. x \in Below /\ x \in First(Below, key, Limit + 1) /\ key[y] < key[x]
      BY <1>6, <1>9, <1>10, <1>11
    <2>2. QED
      BY <1>2, <1>3, <1>5, <1>9, <2>1, FirstBeforeNext
  <1>12. ASSUME NEW x \in Beyond, NEW y \in ListPage PROVE Key(y) >= Key(x)
    <2>1. x \in Below /\ y \in Below /\ x \notin ListPage
      BY <1>9, <1>10
    <2>2. ~(key[x] <= key[y])
      <3>1. y \in First(Below, key, Limit)
        BY <1>9
      <3>2. key[x] <= key[y] => x \in First(Below, key, Limit)
        BY <1>2, <1>3, <1>5, <2>1, <3>1, FirstIsClosed
      <3>3. QED
        BY <1>9, <2>1, <3>2
    <2>3. QED
      BY <1>1, <1>2, <1>4, <2>1, <2>2
  <1>13. ASSUME NEW x \in Beyond, NEW y \in Beyond PROVE Key(x) = Key(y)
    <2>1. x \in Below /\ y \in Below /\ x \notin ListPage /\ y \notin ListPage
      BY <1>9, <1>10
    <2>2. ~(Key(x) > Key(y)) /\ ~(Key(y) > Key(x))
      BY <1>11, <2>1
    <2>3. QED
      BY <1>1, <2>1, <2>2
  <1>14. Beyond = {} => ListPage = Below
    <2>1. SUFFICES ASSUME Beyond = {} PROVE ListPage = Below
      OBVIOUS
    <2>2. First(Below, key, Limit + 1) \subseteq First(Below, key, Limit)
      BY <1>9, <2>1
    <2>3. QED
      BY <1>2, <1>3, <1>5, <1>7, <1>9, <2>2, FirstWithoutNext
  <1>15. QED
    BY <1>11, <1>12, <1>13, <1>14

\* A page of ListItems.
LEMMA PageListingInv ==
  ASSUME SerialInv, ListingInv, ListItems, items' = items, log' = log
  PROVE  ListingInv'
  <1>1. StoreInv /\ listing \in Listings
    BY DEF SerialInv, FeedInv
  <1>2. /\ listing' \in Listings /\ listing.on
        /\ listing'.on <=> Beyond # {}
        /\ listing'.deleted = listing.deleted /\ listing'.from = listing.from
        /\ listing'.named = listing.named \cup Beyond
        /\ \A i \in Items :
             listing'.got[i] = IF i \in ListPage THEN listing.got[i] + 1 ELSE listing.got[i]
        /\ Beyond = {} => listing'.after = 0
        /\ Beyond # {} => \E x \in Beyond : listing'.after = Key(x)
        /\ listing'.after \in 0..seq
        /\ ListPage \subseteq Below /\ Beyond \subseteq Below
        /\ \A i \in Below : i \in Items /\ Present(i)
    BY <1>1, PageFacts
  <1>3. /\ \A x \in Beyond : \A y \in Below : Key(y) > Key(x) => y \in ListPage
        /\ \A x \in Beyond : \A y \in ListPage : Key(y) >= Key(x)
        /\ \A x, y \in Beyond : Key(x) = Key(y)
        /\ Beyond = {} => ListPage = Below
    BY <1>1, PageOfItems
  <1>4. ListPage \cap Beyond = {}
    BY DEF Beyond
  <1>5. \A i \in Items : Key(i)' = Key(i) /\ (Present(i)' <=> Present(i))
    BY DEF Key, Present
  <1>6. \A i \in Items : Present(i) => Key(i) \in Nat /\ Key(i) # 0
    BY <1>1, KeyFacts
  <1>7. listing.after \in Nat /\ listing.got \in [Items -> Nat]
    BY <1>1 DEF Listings
  <1>8. ASSUME NEW i \in Below PROVE listing.got[i] = 0 /\ i \notin listing.named
    <2>1. i \in Items /\ Present(i) /\ (listing.after = 0 \/ Key(i) < listing.after)
      BY <1>2 DEF Below
    <2>2. ~Had(i)
      BY <1>2, <1>6, <1>7, <2>1 DEF ListingInv
    <2>3. listing.got[i] \in Nat /\ listing.got[i] <= 1
      BY <1>7, <2>1 DEF ListingInv
    <2>4. QED
      BY <2>2, <2>3 DEF Had
  <1>9. ASSUME NEW i \in Items
        PROVE  /\ listing'.got[i] <= 1
               /\ listing'.got[i] = 1 => i \notin listing'.named
               /\ Had(i)' <=> Had(i) \/ i \in ListPage \/ i \in Beyond
    <2>1. listing.got[i] \in Nat /\ listing.got[i] <= 1
          /\ (listing.got[i] = 1 => i \notin listing.named)
      BY <1>7 DEF ListingInv
    <2>2. CASE i \in ListPage
      BY <1>2, <1>4, <1>8, <2>2 DEF Had
    <2>3. CASE i \notin ListPage
      <3>1. listing'.got[i] = listing.got[i]
        BY <1>2, <2>3
      <3>2. i \in Beyond => listing.got[i] = 0
        BY <1>2, <1>8
      <3>3. QED
        BY <1>2, <2>1, <2>3, <3>1, <3>2 DEF Had
    <2>4. QED
      BY <2>2, <2>3
  <1>10. ASSUME NEW i \in Items, listing'.on, Had(i)'
         PROVE  Present(i) /\ listing'.after # 0 /\ Key(i) >= listing'.after
    <2>1. PICK x \in Beyond : listing'.after = Key(x)
      BY <1>2, <1>10
    <2>2. /\ x \in Below /\ x \in Items /\ Present(x) /\ Key(x) \in Nat /\ Key(x) # 0
          /\ listing.after = 0 \/ Key(x) < listing.after
      BY <1>2, <1>6 DEF Below
    <2>3. CASE Had(i)
      <3>1. Present(i) /\ listing.after # 0 /\ Key(i) >= listing.after
        BY <1>2, <2>3 DEF ListingInv
      <3>2. QED
        BY <1>6, <1>7, <2>1, <2>2, <3>1
    <2>4. CASE i \in ListPage
      BY <1>2, <1>3, <2>1, <2>2, <2>4
    <2>5. CASE i \in Beyond
      BY <1>2, <1>3, <1>6, <2>1, <2>2, <2>5
    <2>6. QED
      BY <1>9, <1>10, <2>3, <2>4, <2>5
  <1>11. ASSUME NEW i \in Listable, Key(i) <= listing.from, Passed(i)'
         PROVE  Had(i)'
    <2>1. i \in Items /\ Present(i) /\ Key(i) \in Nat
      BY <1>6 DEF Listable
    <2>2. listing # NoListing
      BY <1>2, EmptyListing
    <2>3. CASE i \notin Below
      <3>1. Passed(i)
        BY <1>2, <1>7, <2>1, <2>3 DEF Below, Passed
      <3>2. Had(i)
        BY <1>11, <2>2, <3>1 DEF ListingInv
      <3>3. QED
        BY <1>9, <2>1, <3>2
    <2>4. CASE i \in Below /\ Beyond = {}
      BY <1>3, <1>9, <2>1, <2>4
    <2>5. CASE i \in Below /\ Beyond # {}
      <3>1. PICK x \in Beyond : listing'.after = Key(x)
        BY <1>2, <2>5
      <3>2. x \in Items /\ Present(x) /\ Key(x) \in Nat
        BY <1>2, <1>6
      <3>3. Key(i) >= Key(x)
        BY <1>2, <1>5, <1>11, <2>1, <2>5, <3>1 DEF Passed
      <3>4. CASE Key(i) > Key(x)
        BY <1>3, <1>9, <2>1, <2>5, <3>4
      <3>5. CASE Key(i) = Key(x)
        <4>1. i = x
          BY <1>1, <2>1, <3>2, <3>5, KeysDistinct
        <4>2. QED
          BY <1>9, <2>1, <4>1
      <3>6. QED
        BY <2>1, <3>2, <3>3, <3>4, <3>5
    <2>6. QED
      BY <2>3, <2>4, <2>5
  <1>12. Listable' = Listable
    BY <1>2, <1>5 DEF Listable
  <1>13. Listable \subseteq Items
    BY DEF Listable
  <1>14. QED
    BY <1>2, <1>5, <1>9, <1>10, <1>11, <1>12, <1>13 DEF ListingInv

\* A push: an item that changes moves above everything a listing has seen.
LEMMA PushListingInv ==
  ASSUME SerialInv, ListingInv, listing' = listing,
         NEW op \in Ops, NEW kind \in Kinds, NEW i \in Items, NEW v \in Expected,
         NEW n \in pending, Apply(op, kind, i, v, n)
  PROVE  ListingInv'
  <1> DEFINE new == LogRow(kind, op, i, v, n)
             mine(j) == {e \in log : e.item = j}
  <1>1. /\ StoreInv /\ n \in Nat /\ listing \in Listings
        /\ listing.from \in Nat /\ listing.after \in Nat
        /\ items \in [Items -> ItemRows] /\ listing.from < n
    <2>1. StoreInv /\ pending \subseteq 1..seq /\ seq \in Nat
      BY StoreFacts DEF SerialInv, FeedInv, StoreInv, StoreTypeOK
    <2>2. QED
      BY <2>1, StoreFacts DEF SerialInv, FeedInv, Listings, OpenIsLast
  <1>2. /\ log' = log \cup {new} /\ items' = [items EXCEPT ![i] = RowAfter(kind, op, i, v)]
        /\ \A e \in log : e.item = i => e.rev < n
    BY DEF Apply
  <1>3. new.rev = n /\ new.item = i
    BY DEF LogRow
  <1> HIDE DEF new
  <1>4. Key(i)' = n
    <2> DEFINE s == {e \in log' : e.item = i}
    <2>1. new \in s /\ \A f \in s : f.rev \in Nat /\ f.rev <= new.rev
      BY <1>1, <1>2, <1>3, StoreFacts
    <2>2. Key(i)' = Latest(s).rev
      BY DEF Key
    <2> HIDE DEF s
    <2>3. QED
      BY <1>3, <2>1, <2>2, LatestNumber
  <1>5. Present(i)'
    <2>1. items'[i].version = VersionAfter(kind, v)
      BY <1>1, <1>2 DEF RowAfter
    <2>2. VersionAfter(kind, v) > 0
      BY VaultAssumption DEF VersionAfter, Expected
    <2>3. QED
      BY <2>1, <2>2 DEF Present
  <1>6. ASSUME NEW j \in Items, j # i
        PROVE  /\ Key(j)' = Key(j) /\ (Present(j)' <=> Present(j))
               /\ j \in Listable' <=> j \in Listable
    <2>1. {e \in log' : e.item = j} = {e \in log : e.item = j}
      BY <1>2, <1>3, <1>6
    <2>2. items'[j] = items[j]
      BY <1>1, <1>2, <1>6
    <2>3. QED
      BY <2>1, <2>2 DEF Key, Present, Listable
  <1>7. ASSUME NEW j \in Items, listing.on, Had(j)
        PROVE  Present(j)' /\ listing.after # 0 /\ Key(j)' >= listing.after
    <2>1. Present(j) /\ listing.after # 0 /\ Key(j) >= listing.after
      BY <1>7 DEF ListingInv
    <2>2. CASE j # i
      BY <1>6, <2>1, <2>2
    <2>3. CASE j = i
      <3>1. Key(i) \in Nat /\ Key(i) < n
        BY <1>1, <1>2, <2>1, <2>3, KeyFacts
      <3>2. QED
        BY <1>1, <1>4, <1>5, <2>1, <2>3, <3>1
    <2>4. QED
      BY <2>2, <2>3
  <1>8. \A j \in Items : Had(j)' <=> Had(j)
    BY DEF Had
  <1>9. ASSUME listing # NoListing, NEW j \in Listable', Key(j)' <= listing.from, Passed(j)'
        PROVE  Had(j)
    <2>1. j \in Items /\ j # i
      BY <1>1, <1>4, <1>9 DEF Listable
    <2>2. j \in Listable /\ Key(j) <= listing.from /\ Passed(j)
      BY <1>6, <1>9, <2>1 DEF Passed
    <2>3. QED
      BY <1>9, <2>2 DEF ListingInv
  <1>10. Listable' \subseteq Items
    BY DEF Listable
  <1>11. NoListing' = NoListing
    BY DEF NoListing
  <1>12. QED
    BY <1>7, <1>8, <1>9, <1>10, <1>11 DEF ListingInv

\* Together the invariants are kept.
LEMMA NextListingInv ==
  ASSUME SerialWriters, SerialInv, ListingInv, [FeedNext]_feedVars
  PROVE  ListingInv'
  <1>1. StoreInv /\ FeedInv
    BY DEF SerialInv, FeedInv
  <1>2. ASSUME items' = items, log' = log, listing' = listing PROVE ListingInv'
    <2>1. \A i \in Items : Key(i)' = Key(i) /\ (Present(i)' <=> Present(i))
      BY <1>2 DEF Key, Present
    <2>2. Listable' = Listable /\ NoListing' = NoListing /\ Listable \subseteq Items
      BY <1>2, <2>1 DEF Listable, NoListing
    <2>3. \A i \in Items : (Had(i)' <=> Had(i)) /\ (Passed(i)' <=> Passed(i))
      BY <1>2, <2>1 DEF Had, Passed
    <2>4. QED
      BY <1>2, <2>1, <2>2, <2>3 DEF ListingInv
  <1>3. CASE UNCHANGED listing /\ (Open \/ (Close /\ \E n \in pending : Release(n)))
    BY <1>2, <1>3 DEF Open, Reserve, Release
  <1>4. CASE UNCHANGED listing
             /\ \E op \in Ops, kind \in Kinds, i \in Items, v \in Expected, n \in pending :
                  Apply(op, kind, i, v, n)
    BY <1>4, PushListingInv
  <1>5. CASE \E d \in Readers : UNCHANGED listing
                                 /\ (Sync(d) \/ PullChanges(d) \/ AbandonPull(d))
    BY <1>1, <1>2, <1>5, ReaderStep DEF storeVars
  <1>6. CASE List
    <2>1. items' = items /\ log' = log
      BY <1>6 DEF List, storeVars
    <2>2. CASE ListItems
      BY <2>1, <2>2, PageListingInv
    <2>3. CASE StartListing
      <3>1. /\ listing'.on /\ listing'.after = 0 /\ listing'.named = {}
            /\ \A i \in Items : listing'.got[i] = 0
        BY <1>1, <2>3, StartFacts
      <3>2. \A i \in Items : ~Had(i)' /\ ~Passed(i)'
        BY <3>1 DEF Had, Passed
      <3>3. Listable' \subseteq Items
        BY DEF Listable
      <3>4. QED
        BY <3>1, <3>2, <3>3 DEF ListingInv
    <2>4. QED
      BY <1>6, <2>2, <2>3 DEF List
  <1>7. CASE UNCHANGED feedVars
    BY <1>2, <1>7 DEF feedVars, storeVars
  <1>8. QED
    BY <1>3, <1>4, <1>5, <1>6, <1>7 DEF FeedNext, Close

\* Under the same conditions a listing of any page size delivers no item twice while
\* items change, and passes over no unchanged item except the rows that its page
\* tokens were made from, which it never delivers.
THEOREM ListingAccounts == ASSUME SerialWriters PROVE FeedSpec => []ListingAccountsForItems
  <1>1. FeedInit => ListingInv
    <2> SUFFICES ASSUME FeedInit PROVE ListingInv
      OBVIOUS
    <2>1. listing = NoListing
      BY DEF FeedInit
    <2>2. QED
      BY <2>1, EmptyListing DEF ListingInv, Had
  <1>2. ListingInv => ListingAccountsForItems
    <2> SUFFICES ASSUME ListingInv PROVE ListingAccountsForItems
      OBVIOUS
    <2>1. Listable \subseteq Items
      BY DEF Listable
    <2>2. QED
      BY <2>1 DEF ListingInv, ListingAccountsForItems, Had, Passed
  <1>3. QED
    BY <1>1, <1>2, SerialInvariant, NextListingInv, PTL DEF FeedSpec

=============================================================================
