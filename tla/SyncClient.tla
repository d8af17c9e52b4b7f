----------------------------- MODULE SyncClient -----------------------------
(***************************************************************************)
(* The command line client: its SQLite tables, its queue of pending        *)
(* operations, and the sync call that drains it, for several devices of    *)
(* one user.                                                               *)
(*                                                                         *)
(* Every command is a process of its own: it loads the sync state, works   *)
(* on the copy in memory and saves it at the end.  A process is a device   *)
(* and a slot; with several slots, commands of one device overlap.         *)
(* Whatever cuts a command short (a crash, the 5 s timeout, a lost answer, *)
(* an error of the server) is one action, Fail.  Each SQLite statement and *)
(* the SaveSync transaction are steps.  The server applies one queued      *)
(* operation in one step, which VaultEngine implements on the push path.   *)
(***************************************************************************)
EXTENDS RevisionLog, Sequences

CONSTANTS Devices,   \* one SQLite data directory each
          Slots,     \* commands of one device that may overlap
          LocalIds,  \* item ids generated by the clients: generateID("item")
          Bundle     \* MaxSyncBundleRevisionEvents

ASSUME ClientAssumption ==
  /\ LocalIds \cap (Items \cup {NoItem}) = {}
  /\ Bundle \in Nat \ {0}

VARIABLES
  rows,      \* vault_items of each device
  queue,     \* pending_operations of each device
  lastRev,   \* sync_state.last_revision of each device
  pc,        \* the command a process is running
  mem,       \* its SyncState in memory
  next,      \* index of the operation the server applies next
  conflict,  \* the answer will list a conflict
  inbox,     \* events of the answer not applied yet
  used,      \* operation ids generated so far
  base,      \* the content each edit was made on
  torn       \* items of a device edited without a queued operation

server   == <<items, log, processed, seq>>
database == <<rows, queue, lastRev>>
process  == <<pc, mem, next, conflict, inbox>>
history  == <<used, base, torn>>
vars     == <<server, database, process, history>>

Processes == Devices \X Slots
Dev(p)    == p[1]

Ids == Items \cup LocalIds

PendingOps == [op : Ops, kind : Kinds, id : Ids, exp : Nat]
Events     == [rev : Nat, item : Items, row : ItemRows]

NoState == [queue |-> <<>>, rev |-> 0]

Init ==
  /\ TablesInit
  /\ rows = [d \in Devices |-> [i \in Ids |-> NoRow]]
  /\ queue = [d \in Devices |-> <<>>]
  /\ lastRev = [d \in Devices |-> 0]
  /\ pc = [p \in Processes |-> "idle"]
  /\ mem = [p \in Processes |-> NoState]
  /\ next = [p \in Processes |-> 1]
  /\ conflict = [p \in Processes |-> FALSE]
  /\ inbox = [p \in Processes |-> {}]
  /\ used = {}
  /\ base = [op \in Ops |-> NoOp]
  /\ torn = [d \in Devices |-> {}]

Has(d, i) == rows[d][i].version > 0

\* LoadSync, when a command starts.  Its two SELECTs are one step: nothing comes in
\* between while the commands of a device do not overlap.  ClientCommands, where
\* they do, has them apart.
LoadSync(d) == [queue |-> queue[d], rev |-> lastRev[d]]

OpsOf(q) == {q[k].op : k \in DOMAIN q}
IdsOf(q) == {q[k].id : k \in DOMAIN q}

-----------------------------------------------------------------------------
(***************************************************************************)
(* Local edits: the row first, then the queue.                             *)
(***************************************************************************)

\* generateID: an id in no row and in no queue.
FreshId(i) ==
  \A d \in Devices : ~Has(d, i) /\ i \notin IdsOf(queue[d]) \cup torn[d]

\* The row of item i becomes row, and operation op joins the queue in memory.
Edit(p, op, kind, i, exp, row) ==
  /\ pc[p] = "idle"
  /\ op \notin used
  /\ used' = used \cup {op}
  /\ base' = [base EXCEPT ![op] = rows[Dev(p)][i].content]
  /\ torn' = [torn EXCEPT ![Dev(p)] = @ \cup {i}]
  /\ rows' = [rows EXCEPT ![Dev(p)][i] = row]
  /\ mem' = [mem EXCEPT ![p] = [LoadSync(Dev(p)) EXCEPT !.queue =
               Append(@, [op |-> op, kind |-> kind, id |-> i, exp |-> exp])]]
  /\ pc' = [pc EXCEPT ![p] = "save"]
  /\ UNCHANGED <<server, queue, lastRev, next, conflict, inbox>>

AddItem(p) ==
  \E op \in Ops, i \in LocalIds :
    /\ FreshId(i)
    /\ Edit(p, op, "create", i, 0,
            [version |-> 1, content |-> op, deleted |-> FALSE])

\* The expected version is that of the local row, edits not synced included.
UpdateItem(p) ==
  \E op \in Ops, i \in Ids :
    LET row == rows[Dev(p)][i]
    IN  /\ Has(Dev(p), i)
        /\ Edit(p, op, "update", i, row.version,
                [row EXCEPT !.version = @ + 1, !.content = op])

DeleteItem(p) ==
  \E op \in Ops, i \in Ids :
    /\ Has(Dev(p), i)
    /\ Edit(p, op, "delete", i, rows[Dev(p)][i].version, NoRow)

-----------------------------------------------------------------------------
(***************************************************************************)
(* Sync.                                                                   *)
(***************************************************************************)
Sync(p) ==
  /\ pc[p] = "idle"
  /\ pc' = [pc EXCEPT ![p] = "push"]
  /\ mem' = [mem EXCEPT ![p] = LoadSync(Dev(p))]
  /\ UNCHANGED <<server, database, next, conflict, inbox, history>>

\* The server applies o to item i.
Accept(o, i) ==
  /\ items' = [items EXCEPT ![i] = RowAfter(o.kind, o.op, i, o.exp)]
  /\ seq' = seq + 1
  /\ log' = log \cup {LogRow(o.kind, o.op, i, o.exp, seq + 1)}
  /\ processed' = [processed EXCEPT ![o.op] = [item |-> i, rev |-> seq + 1]]

\* engine.Update answers ErrNotFound; a delete only ever answers a conflict.
NotFound(o) ==
  /\ processed[o.op] = NoProcessed /\ o.kind = "update"
  /\ ~(o.id \in Items /\ Present(o.id) /\ ~items[o.id].deleted)

Fits(o) == o.id \in Items /\ Matches(o.id, o.exp)

\* Mutant: no lookup of the operation id.
PushAgain(p) ==
  /\ pc[p] = "push" /\ next[p] \in DOMAIN mem[p].queue
  /\ LET o == mem[p].queue[next[p]]
     IN  \/ /\ o.kind = "create"
            /\ \E i \in Items : ~Present(i) /\ Accept(o, i)
            /\ UNCHANGED conflict
         \/ /\ o.kind # "create" /\ Fits(o)
            /\ Accept(o, o.id)
            /\ UNCHANGED conflict
         \/ /\ o.kind # "create" /\ ~Fits(o) /\ ~NotFound(o)
            /\ conflict' = [conflict EXCEPT ![p] = TRUE]
            /\ UNCHANGED server
  /\ next' = [next EXCEPT ![p] = @ + 1]
  /\ UNCHANGED <<database, pc, mem, inbox, history>>

\* One operation of runPushOperations: applied before, applied now, or in
\* conflict.  A create gets an item id of the server's own.
PushOperation(p) ==
  /\ pc[p] = "push" /\ next[p] \in DOMAIN mem[p].queue
  /\ LET o == mem[p].queue[next[p]]
     IN  \/ /\ processed[o.op] # NoProcessed
            /\ UNCHANGED <<server, conflict>>
         \/ /\ processed[o.op] = NoProcessed /\ o.kind = "create"
            /\ \E i \in Items : ~Present(i) /\ Accept(o, i)
            /\ UNCHANGED conflict
         \/ /\ processed[o.op] = NoProcessed /\ o.kind # "create" /\ Fits(o)
            /\ Accept(o, o.id)
            /\ UNCHANGED conflict
         \/ /\ processed[o.op] = NoProcessed /\ o.kind # "create" /\ ~Fits(o)
            /\ ~NotFound(o)
            /\ conflict' = [conflict EXCEPT ![p] = TRUE]
            /\ UNCHANGED server
  /\ next' = [next EXCEPT ![p] = @ + 1]
  /\ UNCHANGED <<database, pc, mem, inbox, history>>

\* Mutant: an event of a deleted item is stored like any other.
EventRowUndeleted(e) == [items[e.item] EXCEPT !.deleted = FALSE]

\* What the client keeps of an event.  The content of a row stands for the write that
\* left it there, not for its bytes: a payload above InlineThresholdBytes does not
\* come with the event.  That is in ClientCommands (EventRow).
EventRow(e) == IF e.type = "delete" THEN Tombstone(e.item)
               ELSE [items[e.item] EXCEPT !.deleted = FALSE]

\* Mutant: the queue is cleared whatever the server said.
AnswerClearsQueue(p) ==
  /\ pc[p] = "push" /\ next[p] \notin DOMAIN mem[p].queue
  /\ inbox' = [inbox EXCEPT ![p] =
       {[rev |-> e.rev, item |-> e.item, row |-> EventRow(e)] :
          e \in FirstRows(After(mem[p].rev), Bundle)}]
  /\ mem' = [mem EXCEPT ![p] = [queue |-> <<>>, rev |-> UserMaxRevision]]
  /\ pc' = [pc EXCEPT ![p] = "apply"]
  /\ UNCHANGED <<server, database, next, conflict, history>>

\* The rest of the handler, and what the client makes of the answer: events to
\* apply, the newest revision, and an empty queue unless there is a conflict.
Answer(p) ==
  /\ pc[p] = "push" /\ next[p] \notin DOMAIN mem[p].queue
  /\ inbox' = [inbox EXCEPT ![p] =
       {[rev |-> e.rev, item |-> e.item, row |-> EventRow(e)] :
          e \in FirstRows(After(mem[p].rev), Bundle)}]
  /\ mem' = [mem EXCEPT ![p] =
       [queue |-> IF conflict[p] THEN @.queue ELSE <<>>,
        rev   |-> UserMaxRevision]]
  /\ pc' = [pc EXCEPT ![p] = "apply"]
  /\ UNCHANGED <<server, database, next, conflict, history>>

\* applyEvent, for the events in revision order.
applyEvent(p) ==
  /\ pc[p] = "apply"
  /\ \E e \in inbox[p] :
       /\ \A f \in inbox[p] : e.rev <= f.rev
       /\ rows' = [rows EXCEPT ![Dev(p)][e.item] = e.row]
       /\ torn' = [torn EXCEPT ![Dev(p)] = @ \ {e.item}]
       /\ inbox' = [inbox EXCEPT ![p] = @ \ {e}]
  /\ UNCHANGED <<server, queue, lastRev, pc, mem, next, conflict, used, base>>

-----------------------------------------------------------------------------
\* The command is over, and its process forgets.
End(p) ==
  /\ pc' = [pc EXCEPT ![p] = "idle"]
  /\ mem' = [mem EXCEPT ![p] = NoState]
  /\ next' = [next EXCEPT ![p] = 1]
  /\ conflict' = [conflict EXCEPT ![p] = FALSE]
  /\ inbox' = [inbox EXCEPT ![p] = {}]

\* SaveSync: the revision and the whole queue, in one transaction.
SaveSync(p) ==
  /\ pc[p] = "save" \/ (pc[p] = "apply" /\ inbox[p] = {})
  /\ queue' = [queue EXCEPT ![Dev(p)] = mem[p].queue]
  /\ lastRev' = [lastRev EXCEPT ![Dev(p)] = mem[p].rev]
  /\ torn' = [torn EXCEPT ![Dev(p)] =
                IF pc[p] = "save"
                THEN @ \ {mem[p].queue[Len(mem[p].queue)].id} ELSE @]
  /\ End(p)
  /\ UNCHANGED <<server, rows, used, base>>

\* An operation on an item the server does not have fails the whole call.
RejectCall(p) ==
  /\ pc[p] = "push" /\ next[p] \in DOMAIN mem[p].queue
  /\ NotFound(mem[p].queue[next[p]])
  /\ End(p)
  /\ UNCHANGED <<server, database, history>>

\* The command stops where it is; what it wrote so far stays.
Fail(p) ==
  /\ pc[p] # "idle"
  /\ End(p)
  /\ UNCHANGED <<server, database, history>>

Step(p) ==
  PushOperation(p) \/ Answer(p) \/ applyEvent(p) \/ SaveSync(p) \/ RejectCall(p)

Next == \E p \in Processes :
  \/ AddItem(p) \/ UpdateItem(p) \/ DeleteItem(p)
  \/ Sync(p) \/ Fail(p) \/ Step(p)

Spec == Init /\ [][Next]_vars

\* Failures come to an end: a command then stops only when it is done, or when
\* the server rejects its call.
Calm ==
  <>[][\A p \in Processes : Fail(p) => RejectCall(p) \/ SaveSync(p)]_vars

\* The user keeps calling sync, and commands keep running.
FairSpec ==
  Spec /\ Calm /\ \A p \in Processes : WF_vars(Sync(p)) /\ WF_vars(Step(p))

-----------------------------------------------------------------------------
(***************************************************************************)
(* Properties.                                                             *)
(***************************************************************************)

\* The type invariant; ids of server items never reach a queue as creates.
TypeOK ==
  /\ TablesTypeOK
  /\ rows \in [Devices -> [Ids -> ItemRows]]
  /\ queue \in [Devices -> Seq(PendingOps)]
  /\ lastRev \in [Devices -> 0..seq]
  /\ pc \in [Processes -> {"idle", "save", "push", "apply"}]
  /\ mem \in [Processes -> [queue : Seq(PendingOps), rev : 0..seq]]
  /\ next \in [Processes -> Nat]
  /\ conflict \in [Processes -> BOOLEAN]
  /\ inbox \in [Processes -> SUBSET Events]
  /\ used \subseteq Ops /\ base \in [Ops -> Ops \cup {NoOp}]
  /\ torn \in [Devices -> SUBSET Ids]

\* An operation that was saved as pending leaves the queue only once the server
\* has applied it, whatever fails between AddItem and the end of a Sync.
NoOperationLost ==
  [][\A d \in Devices : \A op \in OpsOf(queue[d]) \ OpsOf(queue'[d]) :
       processed'[op] # NoProcessed]_vars

\* A device at the newest revision with nothing pending has every item of the
\* server as it is, after any mix of lost answers, retried pushes and events
\* applied twice; only rows whose edit was cut short before it was queued may
\* differ.
SyncedDeviceAgrees ==
  \A p \in Processes :
    LET d == Dev(p)
    IN  pc[p] = "idle" /\ queue[d] = <<>> /\ lastRev[d] = UserMaxRevision =>
          \A i \in Items \ torn[d] :
            rows[d][i] = IF items[i].deleted THEN Tombstone(i) ELSE items[i]

\* A queue is sent again after every failure, yet each of its operations takes
\* effect once: one log row, and one item with its content.
RetriesApplyOnce ==
  /\ \A e, f \in log : e.op = f.op => e = f
  /\ \A i, j \in Items :
       Present(i) /\ Present(j) /\ items[i].content = items[j].content => i = j

\* The expected version detects conflicts: an edit replaces only the content
\* its author saw when making it.
NoBlindOverwrite ==
  [][\A e \in log' \ log :
       e.type # "create" => base[e.op] = items[e.item].content]_vars

\* A Sync clears the list of operations: a pending operation does not stay
\* pending for ever, if the user keeps syncing.
QueueDrains ==
  \A d \in Devices : \A op \in Ops :
    op \in OpsOf(queue[d]) ~> op \notin OpsOf(queue[d])

=============================================================================
