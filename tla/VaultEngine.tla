----------------------------- MODULE VaultEngine ----------------------------
(***************************************************************************)
(* The vault engine (internal/server/vault/engine.go) over PostgreSQL, one *)
(* SQL statement per step, with any number of calls in flight.             *)
(*                                                                         *)
(* A call reaches the engine on one of two paths.  SyncService runs it     *)
(* inside WithVaultEngineTx ("push"): a READ COMMITTED transaction whose   *)
(* writes nobody sees before Commit and whose row locks others wait for.   *)
(* VaultService runs it on the connection pool ("direct"): every statement *)
(* commits by itself.                                                      *)
(*                                                                         *)
(* The writes a transaction holds back need no state of their own: they    *)
(* follow from how far the call got (HoldsRow, HoldsOp).  A call that      *)
(* fails, is cancelled, loses its connection, or dies with the server is   *)
(* one action, Abort: nothing a call keeps in memory outlives it, so a     *)
(* server crash is the Abort of every call in flight.  A client's retry is *)
(* another call with the same operation id.                                *)
(***************************************************************************)
EXTENDS VaultTables

CONSTANTS Calls,   \* RPC attempts; each is made at most once
          Paths    \* the paths calls may take: a subset of {"push", "direct"}

ASSUME PathsAssumption == Paths \subseteq {"push", "direct"}

VARIABLES
  pc,      \* how far each call got
  call,    \* the request: path, kind, operation id, item id, expected version
  item,    \* the item id the call works on (a create generates it)
  rev,     \* revision number drawn by the call, 0 before
  reply    \* what the call answered

vars == <<items, log, processed, seq, pc, call, item, rev, reply>>

PCs == {"idle", "lookup", "replay", "read", "write", "nextval", "append",
        "mark", "commit", "conflict", "done"}

Requests == [path : Paths, kind : Kinds, op : Ops,
             arg : Items \cup {NoItem}, exp : Expected]

Codes == {"none", "ok", "conflict", "notfound", "invalid", "error"}

Replies == [code : Codes, version : Nat, rev : Nat]

NoRequest == [path |-> "none", kind |-> "none", op |-> NoOp,
              arg |-> NoItem, exp |-> 0]

NoReply == [code |-> "none", version |-> 0, rev |-> 0]

Op(r)   == call[r].op
Kind(r) == call[r].kind
Exp(r)  == call[r].exp
Tx(r)   == call[r].path = "push"

-----------------------------------------------------------------------------
(***************************************************************************)
(* PostgreSQL, as far as the engine relies on it.                          *)
(***************************************************************************)

\* Mutant: no Rollback after an error, so the lock outlives the call.
HoldsRowAfterError(r) ==
  /\ Tx(r)
  /\ \/ pc[r] \in {"nextval", "append", "mark", "commit"}
     \/ pc[r] = "done" /\ reply[r].code = "error" /\ item[r] # NoItem

\* The uncommitted transaction of r has written its item's row.
HoldsRow(r) == Tx(r) /\ pc[r] \in {"nextval", "append", "mark", "commit"}

\* Mutant: an index that is not unique, which holds nobody up.
OpUnindexed(r) == Tx(r) /\ pc[r] \in {}

\* The uncommitted transaction of r has inserted the log row of its operation.
HoldsOp(r) == Tx(r) /\ pc[r] \in {"mark", "commit"}

\* An UPDATE waits for the transaction that wrote the row.
RowFree(r) == \A s \in Calls \ {r} : HoldsRow(s) => item[s] # item[r]

\* An INSERT waits for the transaction that inserted the same unique key.
OpFree(r) == \A s \in Calls \ {r} : HoldsOp(s) => Op(s) # Op(r)

\* uuid.NewString: an id no row, committed or not, has.
Fresh(i) == ~Present(i) /\ \A s \in Calls : HoldsRow(s) => item[s] # i

-----------------------------------------------------------------------------
Goto(r, l) == pc' = [pc EXCEPT ![r] = l]

Answer(r, code, version, n) ==
  /\ Goto(r, "done")
  /\ reply' = [reply EXCEPT ![r] =
                 [code |-> code, version |-> version, rev |-> n]]

Init ==
  /\ TablesInit
  /\ pc = [r \in Calls |-> "idle"]
  /\ call = [r \in Calls |-> NoRequest]
  /\ item = [r \in Calls |-> NoItem]
  /\ rev = [r \in Calls |-> 0]
  /\ reply = [r \in Calls |-> NoReply]

-----------------------------------------------------------------------------
(***************************************************************************)
(* The handlers: check the request, resolve its payload, and enter the     *)
(* engine, inside a transaction or on the pool.                            *)
(***************************************************************************)
Enter(r, path, kind, op, arg, exp) ==
  /\ pc[r] = "idle"
  /\ path \in Paths
  /\ Goto(r, "lookup")
  /\ call' = [call EXCEPT ![r] = [path |-> path, kind |-> kind, op |-> op,
                                  arg |-> arg, exp |-> exp]]
  /\ item' = [item EXCEPT ![r] = arg]
  /\ UNCHANGED <<tables, rev, reply>>

pushCreate(r) ==
  \E op \in Ops : Enter(r, "push", "create", op, NoItem, 0)

pushUpdate(r) ==
  \E op \in Ops, i \in Items, v \in Versions :
    Enter(r, "push", "update", op, i, v)

pushDelete(r) ==
  \E op \in Ops, i \in Items, v \in Versions :
    Enter(r, "push", "delete", op, i, v)

directCreate(r) ==
  \E op \in Ops : Enter(r, "direct", "create", op, NoItem, 0)

directUpdate(r) ==
  \E op \in Ops, i \in Items, v \in Versions :
    Enter(r, "direct", "update", op, i, v)

directDelete(r) ==
  \E op \in Ops, i \in Items, v \in Versions :
    Enter(r, "direct", "delete", op, i, v)

\* The request is malformed, or its payload cannot be stored.
Reject(r) ==
  /\ pc[r] = "idle"
  /\ Answer(r, "invalid", 0, 0)
  /\ UNCHANGED <<tables, call, item, rev>>

-----------------------------------------------------------------------------
(***************************************************************************)
(* The engine.                                                             *)
(***************************************************************************)

\* Mutant: the replay goes on with the request's item id, not the stored one.
LookupKeepsItem(r) ==
  /\ pc[r] = "lookup"
  /\ IF processed[Op(r)] = NoProcessed
     THEN Goto(r, IF Kind(r) = "update" THEN "read" ELSE "write")
     ELSE Goto(r, "replay")
  /\ UNCHANGED <<tables, call, item, rev, reply>>

\* processedOps.Lookup: a known operation is answered, never applied again.
Lookup(r) ==
  /\ pc[r] = "lookup"
  /\ \/ /\ processed[Op(r)] = NoProcessed
        /\ Goto(r, IF Kind(r) = "update" THEN "read" ELSE "write")
        /\ UNCHANGED <<item, reply>>
     \/ /\ processed[Op(r)] # NoProcessed
        /\ Kind(r) # "create" /\ processed[Op(r)].item # item[r]
        /\ Answer(r, "invalid", 0, 0)
        /\ UNCHANGED item
     \/ /\ processed[Op(r)] # NoProcessed
        /\ Kind(r) = "create" \/ processed[Op(r)].item = item[r]
        /\ Goto(r, "replay")
        /\ item' = [item EXCEPT ![r] = processed[Op(r)].item]
        /\ UNCHANGED reply
  /\ UNCHANGED <<tables, call, rev>>

\* The answer of a replay: the operation's revision, the item's version now.
Replay(r) ==
  /\ pc[r] = "replay"
  /\ IF Present(item[r])
     THEN Answer(r, "ok", items[item[r]].version, processed[Op(r)].rev)
     ELSE Answer(r, "notfound", 0, 0)
  /\ UNCHANGED <<tables, call, item, rev>>

\* A version conflict; a push reads the row again to describe it.
Conflict(r) ==
  IF Tx(r) THEN Goto(r, "conflict") /\ UNCHANGED reply
           ELSE Answer(r, "conflict", 0, 0)

\* Update reads the row and checks it before it writes.
GetItem(r) ==
  /\ pc[r] = "read"
  /\ \/ /\ ~Present(item[r]) \/ items[item[r]].deleted
        /\ Answer(r, "notfound", 0, 0)
     \/ /\ Present(item[r]) /\ ~items[item[r]].deleted
        /\ items[item[r]].version # Exp(r)
        /\ Conflict(r)
     \/ Matches(item[r], Exp(r)) /\ Goto(r, "write") /\ UNCHANGED reply
  /\ UNCHANGED <<tables, call, item, rev>>

\* A statement on the pool commits at once; one in a transaction waits.
WriteRow(r, i) ==
  /\ Goto(r, "nextval")
  /\ IF Tx(r) THEN UNCHANGED items
     ELSE items' = [items EXCEPT ![i] = RowAfter(Kind(r), Op(r), i, Exp(r))]

CreateItem(r) ==
  /\ pc[r] = "write" /\ Kind(r) = "create"
  /\ \E i \in Items :
       /\ Fresh(i)
       /\ item' = [item EXCEPT ![r] = i]
       /\ WriteRow(r, i)
  /\ UNCHANGED <<log, processed, seq, call, rev, reply>>

\* Mutant: the WHERE clause without version = $n.
UnguardedWrite(r) ==
  /\ RowFree(r)
  /\ \/ /\ Present(item[r]) /\ ~items[item[r]].deleted
        /\ WriteRow(r, item[r])
        /\ UNCHANGED reply
     \/ /\ ~Present(item[r]) \/ items[item[r]].deleted
        /\ Conflict(r)
        /\ UNCHANGED items
  /\ UNCHANGED <<log, processed, seq, call, item, rev>>

\* The guarded UPDATE, judged on the row as it is once the lock is granted.
GuardedWrite(r) ==
  /\ RowFree(r)
  /\ \/ /\ Matches(item[r], Exp(r))
        /\ WriteRow(r, item[r])
        /\ UNCHANGED reply
     \/ /\ ~Matches(item[r], Exp(r))
        /\ Conflict(r)
        /\ UNCHANGED items
  /\ UNCHANGED <<log, processed, seq, call, item, rev>>

UpdateItem(r) == pc[r] = "write" /\ Kind(r) = "update" /\ GuardedWrite(r)

DeleteItem(r) == pc[r] = "write" /\ Kind(r) = "delete" /\ GuardedWrite(r)

\* nextval of revision_id, taken before the unique index is consulted.
NextRevision(r) ==
  /\ pc[r] = "nextval"
  /\ seq' = seq + 1
  /\ rev' = [rev EXCEPT ![r] = seq + 1]
  /\ Goto(r, "append")
  /\ UNCHANGED <<items, log, processed, call, item, reply>>

\* Mutant: revision_log without its unique index.
AppendAgain(r) ==
  /\ pc[r] = "append"
  /\ Goto(r, "mark")
  /\ IF Tx(r) THEN UNCHANGED log
     ELSE log' = log \cup {LogRow(Kind(r), Op(r), item[r], Exp(r), rev[r])}
  /\ UNCHANGED <<items, processed, seq, call, item, rev, reply>>

\* The insert into revision_log, unique on (user_id, operation_id).
AppendRevision(r) ==
  /\ pc[r] = "append"
  /\ OpFree(r)
  /\ \/ /\ \E e \in log : e.op = Op(r)
        /\ Answer(r, "error", 0, 0)
        /\ UNCHANGED log
     \/ /\ ~\E e \in log : e.op = Op(r)
        /\ Goto(r, "mark")
        /\ IF Tx(r) THEN UNCHANGED log
           ELSE log' = log \cup
                  {LogRow(Kind(r), Op(r), item[r], Exp(r), rev[r])}
        /\ UNCHANGED reply
  /\ UNCHANGED <<items, processed, seq, call, item, rev>>

\* Mutant: marked before AppendRevision has filled the entry's RevisionID.
MarkedTooEarly(r) ==
  IF processed[Op(r)] = NoProcessed
  THEN [processed EXCEPT ![Op(r)] = [item |-> item[r], rev |-> 0]]
  ELSE processed

\* processed_operations after the insert, ON CONFLICT DO NOTHING.
Marked(r) ==
  IF processed[Op(r)] = NoProcessed
  THEN [processed EXCEPT ![Op(r)] = [item |-> item[r], rev |-> rev[r]]]
  ELSE processed

MarkProcessed(r) ==
  /\ pc[r] = "mark"
  /\ IF Tx(r)
     THEN Goto(r, "commit") /\ UNCHANGED <<processed, reply>>
     ELSE /\ processed' = Marked(r)
          /\ Answer(r, "ok", VersionAfter(Kind(r), Exp(r)), rev[r])
  /\ UNCHANGED <<items, log, seq, call, item, rev>>

\* Mutant: the operation is not marked in the transaction that applies it.
CommitUnmarked(r) ==
  /\ pc[r] = "commit"
  /\ items' = [items EXCEPT ![item[r]] =
                 RowAfter(Kind(r), Op(r), item[r], Exp(r))]
  /\ log' = log \cup {LogRow(Kind(r), Op(r), item[r], Exp(r), rev[r])}
  /\ Answer(r, "ok", VersionAfter(Kind(r), Exp(r)), rev[r])
  /\ UNCHANGED <<processed, seq, call, item, rev>>

\* tx.Commit: all or nothing, even when its acknowledgement is lost.
Commit(r) ==
  /\ pc[r] = "commit"
  /\ items' = [items EXCEPT ![item[r]] =
                 RowAfter(Kind(r), Op(r), item[r], Exp(r))]
  /\ log' = log \cup {LogRow(Kind(r), Op(r), item[r], Exp(r), rev[r])}
  /\ processed' = Marked(r)
  /\ \/ Answer(r, "ok", VersionAfter(Kind(r), Exp(r)), rev[r])
     \/ Answer(r, "error", 0, 0)
  /\ UNCHANGED <<seq, call, item, rev>>

\* versionConflict: the row is read again, outside the transaction; a read
\* that fails leaves the actual version out of the answer.
versionConflict(r) ==
  /\ pc[r] = "conflict"
  /\ \/ Answer(r, "conflict", items[item[r]].version, 0)
     \/ Answer(r, "conflict", 0, 0)
  /\ UNCHANGED <<tables, call, item, rev>>

\* Failure, cancellation or crash: Rollback of a transaction, and on the pool
\* whatever the statements so far have done.
Abort(r) ==
  /\ pc[r] \notin {"idle", "done"}
  /\ Answer(r, "error", 0, 0)
  /\ UNCHANGED <<tables, call, item, rev>>

-----------------------------------------------------------------------------
\* The steps a call takes by itself once it is in the engine.
Step(r) ==
  \/ Lookup(r) \/ Replay(r) \/ GetItem(r)
  \/ CreateItem(r) \/ UpdateItem(r) \/ DeleteItem(r)
  \/ NextRevision(r) \/ AppendRevision(r) \/ MarkProcessed(r) \/ Commit(r)
  \/ versionConflict(r)

Next == \E r \in Calls :
  \/ pushCreate(r) \/ pushUpdate(r) \/ pushDelete(r)
  \/ directCreate(r) \/ directUpdate(r) \/ directDelete(r)
  \/ Reject(r) \/ Abort(r)
  \/ Step(r)

Spec == Init /\ [][Next]_vars

\* The server keeps running the calls it has accepted; nothing makes a client
\* call, and nothing makes a call fail.
FairSpec == Spec /\ \A r \in Calls : WF_vars(Step(r))

-----------------------------------------------------------------------------
(***************************************************************************)
(* Properties.                                                             *)
(***************************************************************************)

TypeOK ==
  /\ TablesTypeOK
  /\ pc \in [Calls -> PCs]
  /\ call \in [Calls -> Requests \cup {NoRequest}]
  /\ item \in [Calls -> Items \cup {NoItem}]
  /\ rev \in [Calls -> Nat]
  /\ reply \in [Calls -> Replies]

\* A call inside the engine carries a well-formed request, and names an item
\* unless it is a create that has not generated one yet.
CallsTyped ==
  \A r \in Calls : pc[r] \notin {"idle", "done"} =>
    /\ call[r] \in Requests
    /\ Kind(r) # "create" \/ pc[r] \notin {"lookup", "write"} =>
         item[r] \in Items

\* A processed operation names an item.
ProcessedTyped ==
  \A op \in Ops : processed[op] # NoProcessed => processed[op].item \in Items

\* The type invariant.  An operation a retry is answered from names the item it
\* was applied to, and a call that left Lookup knows its item, whatever the
\* request said (engine.Create answers a replay with the stored item id).
TypeInv == TypeOK /\ CallsTyped /\ ProcessedTyped

\* r has drawn a revision number inside a transaction still open.
Drawn(r) == Tx(r) /\ pc[r] \in {"append", "mark", "commit"}

PendingRevs == {rev[r] : r \in {s \in Calls : Drawn(s)}}

Store == INSTANCE VaultStore WITH pending <- PendingRevs

\* Whatever the interleaving of transactions, retries and failures, the push
\* path (WithVaultEngineTx around the engine) behaves as the atomic store.
Refines == Store!StoreSpec

\* The revision log is a faithful history: each version of an item has one
\* log row, in revision order, the row is what the last of them left, and the
\* processed operations are the logged ones.  Sync pulls replay this log, and
\* retries are answered from processed_operations.
HistoryExplainsItems ==
  /\ Store!LogIsHistory /\ Store!RowIsLastChange
  /\ Store!ProcessedMatchesLog /\ Store!RevisionsUnique

\* The row an open transaction has written is as it found it, and only its own.
RowsIsolated ==
  \A r \in Calls : HoldsRow(r) =>
    /\ IF Kind(r) = "create" THEN ~Present(item[r]) ELSE Matches(item[r], Exp(r))
    /\ \A s \in Calls : HoldsRow(s) /\ item[s] = item[r] => s = r

\* Nobody has logged, or is about to log, the operation it has logged.
OpsIsolated ==
  \A r \in Calls : HoldsOp(r) =>
    /\ \A e \in log : e.op # Op(r)
    /\ \A s \in Calls : HoldsOp(s) /\ Op(s) = Op(r) => s = r

\* Its revision is its own, and later than every logged revision of its item.
RevsIsolated ==
  \A r \in Calls : Drawn(r) =>
    /\ rev[r] \in 1..seq
    /\ \A e \in log : e.item = item[r] => e.rev < rev[r]
    /\ \A s \in Calls : Drawn(s) /\ rev[s] = rev[r] => s = r

\* What an open transaction relies on stays true until it ends, whatever the
\* other transactions do: the row lock of UpdateItem and DeleteItem and the
\* unique index of revision_log carry the whole push path.
TxIsolated == RowsIsolated /\ OpsIsolated /\ RevsIsolated

\* Idempotency: however often an operation is retried, and whichever of its
\* attempts fail half way, its content ends up in one item (engine.Create and
\* Update look the operation id up before they write).
OpMutatesOneItem ==
  \A i, j \in Items :
    Present(i) /\ Present(j) /\ items[i].content = items[j].content => i = j

\* Optimistic concurrency: a committed row moves to the next version or stays,
\* and a tombstone stays for good, so no writer overwrites a version that its
\* client has not seen (the WHERE clauses of UpdateItem and DeleteItem).
NoLostUpdate ==
  [][\A i \in Items :
       items'[i] # items[i] => /\ items'[i].version = items[i].version + 1
                               /\ ~items[i].deleted]_vars

\* An acknowledged operation is in the revision log under the revision the
\* client was given, on the item the client was told, for good; the version
\* it was told is the operation's or, on a replay, a later one.
AckIsLogged ==
  \A r \in Calls : reply[r].code = "ok" =>
    \E e \in log : /\ e.op = Op(r) /\ e.rev = reply[r].rev
                   /\ e.item = item[r] /\ e.version <= reply[r].version

\* Two writers that expected the same version of an item never both succeed:
\* the log has one row per version of an item, and one per operation.
OneWinnerPerVersion ==
  \A e, f \in log :
    (e.op = f.op \/ (e.item = f.item /\ e.version = f.version)) => e = f

\* The model's finite pool of uuids is used up (the generator never is).
OutOfIds(r) ==
  pc[r] = "write" /\ Kind(r) = "create" /\ \A i \in Items : ~Fresh(i)

\* No call waits for ever on a row lock or on the unique index: the engine
\* takes the item's row before the operation's log row, so waits have no cycle.
Terminates ==
  \A r \in Calls : pc[r] # "idle" ~> (pc[r] = "done" \/ OutOfIds(r))

=============================================================================
