-------------------------- MODULE SyncClientProofs --------------------------
(***************************************************************************)
(* Every operation a client queues takes effect at most once, however      *)
(* commands overlap, fail and are repeated; and if the commands of one     *)
(* device do not overlap, no queued operation is lost, and a device that   *)
(* is up to date has the items of the server if a Sync answer holds the    *)
(* whole log.                                                              *)
(***************************************************************************)
EXTENDS SyncClient, OrderFacts

\* The commands of one device run one after the other.
OneCommand == \A p, q \in Processes : Dev(p) = Dev(q) => p = q

\* A Sync answer is not cut off by the limit of the bundle.
BundleHoldsLog == IsFiniteSet(Ops) /\ Cardinality(Ops) <= Bundle

Done(op) == processed[op] # NoProcessed

\* The server's tables: the log has one row per applied operation, and its last row
\* of an item tells whether the item is deleted.
ServerInv ==
  /\ \A e \in log : e.rev \in 1..seq /\ Done(e.op)
  /\ \A e, f \in log : e.op = f.op \/ e.rev = f.rev => e = f
  /\ \A e \in log : (\A f \in log : f.item = e.item => f.rev <= e.rev) =>
       (items[e.item].deleted <=> e.type = "delete")
  /\ \A i \in Items : Present(i) =>
       /\ items[i].content \in Ops /\ Done(items[i].content)
       /\ processed[items[i].content].item = i

BaseInv == TypeOK /\ ServerInv /\ \A p \in Processes : next[p] # 0

-----------------------------------------------------------------------------
\* A create carries an id of the client's own.
OwnIds(q) == \A k \in DOMAIN q : q[k].kind = "create" => q[k].id \notin Items

\* The operation that a local edit is about to save.
Saving(p) == mem[p].queue[Len(mem[p].queue)]

\* The queues: an operation is in one place of one queue.
QueueInv ==
  /\ \A op \in Ops : Done(op) => op \in used
  /\ \A d \in Devices : OwnIds(queue[d]) /\ OpsOf(queue[d]) \subseteq used
  /\ \A c, d \in Devices : \A k \in DOMAIN queue[c], l \in DOMAIN queue[d] :
       queue[c][k].op = queue[d][l].op => c = d /\ k = l

\* The copy of the queue that a command works on: while it saves an edit,
SaveKept(p) ==
  pc[p] = "save" =>
    /\ mem[p].queue = Append(queue[Dev(p)], Saving(p)) /\ mem[p].rev = lastRev[Dev(p)]
    /\ OwnIds(mem[p].queue) /\ Saving(p) \in PendingOps
    /\ Saving(p).op \in used /\ ~Done(Saving(p).op)
    /\ \A d \in Devices : Saving(p).op \notin OpsOf(queue[d])
    /\ \A q \in Processes : pc[q] = "save" /\ Saving(q).op = Saving(p).op => p = q

\* while the server goes through it,
PushKept(p) ==
  pc[p] = "push" =>
    /\ mem[p].queue = queue[Dev(p)] /\ mem[p].rev = lastRev[Dev(p)]
    /\ ~conflict[p] =>
         \A k \in DOMAIN queue[Dev(p)] : k < next[p] => Done(queue[Dev(p)][k].op)

\* and while it applies the answer.
ApplyKept(p) ==
  pc[p] = "apply" =>
    \/ mem[p].queue = queue[Dev(p)]
    \/ /\ mem[p].queue = <<>>
       /\ \A k \in DOMAIN queue[Dev(p)] : Done(queue[Dev(p)][k].op)

ProcessInv ==
  \A p \in Processes : /\ pc[p] = "idle" => next[p] = 1
                       /\ SaveKept(p) /\ PushKept(p) /\ ApplyKept(p)

KeptInv == BaseInv /\ QueueInv /\ ProcessInv

-----------------------------------------------------------------------------
\* An item as a device should have it.
View(i) == IF items[i].deleted THEN Tombstone(i) ELSE items[i]

Changed(i, n) == \E e \in log : e.item = i /\ e.rev > n

\* A row that differs from the item is an edit cut short or one still to be pushed.
Covered(d, i) ==
  \/ i \in torn[d]
  \/ rows[d][i] = View(i)
  \/ \E k \in DOMAIN queue[d] : queue[d][k].id = i /\ ~Done(queue[d][k].op)

\* The last event of an item, of those not applied yet, brings it up to date.
Coming(p, i) ==
  \E e \in inbox[p] : /\ e.item = i /\ e.row = View(i)
                      /\ \A f \in inbox[p] : f.item = i => f.rev <= e.rev

CopyInv == \A d \in Devices : \A i \in Items : Changed(i, lastRev[d]) \/ Covered(d, i)

InboxInv ==
  \A p \in Processes :
    /\ \A e, f \in inbox[p] : e.rev = f.rev => e = f
    /\ \A e \in inbox[p] : Changed(e.item, lastRev[Dev(p)])
    /\ pc[p] = "apply" =>
         \A i \in Items :
           \/ Changed(i, mem[p].rev)
           \/ IF \E e \in inbox[p] : e.item = i THEN Coming(p, i) ELSE Covered(Dev(p), i)

AgreeInv == KeptInv /\ CopyInv /\ InboxInv

-----------------------------------------------------------------------------
(***************************************************************************)
(* Facts about a state.                                                    *)
(***************************************************************************)
LEMMA DevType == \A p \in Processes : Dev(p) \in Devices
  BY DEF Processes, Dev

LEMMA ServerFacts ==
  ASSUME BaseInv
  PROVE  /\ seq \in Nat /\ log \subseteq LogRows /\ items \in [Items -> ItemRows]
         /\ processed \in [Ops -> ProcessedRows]
         /\ \A e \in log : /\ e.rev \in Nat /\ e.rev \in 1..seq /\ e.op \in Ops
                           /\ e.item \in Items
         /\ \A i \in Items : items[i] \in ItemRows /\ items[i].version \in Nat
  BY DEF BaseInv, TypeOK, TablesTypeOK, ServerInv, LogRows, ItemRows

LEMMA LatestRow ==
  ASSUME BaseInv, NEW s \in SUBSET log, s # {}
  PROVE  Latest(s) \in s /\ \A f \in s : f.rev <= Latest(s).rev
  <1> DEFINE T == {e.rev : e \in s}
  <1>1. T \in SUBSET Nat /\ T # {} /\ seq \in Nat /\ \A y \in T : y <= seq
    BY ServerFacts
  <1>2. PICK x \in T : \A y \in T : y <= x
    <2> HIDE DEF T
    <2>1. QED
      BY <1>1, GreatestNumber
  <1>3. PICK e \in s : x = e.rev
    OBVIOUS
  <1>4. \A f \in s : f.rev <= e.rev
    BY <1>2, <1>3
  <1>5. QED
    BY <1>3, <1>4 DEF Latest

LEMMA NewestRevision ==
  ASSUME BaseInv
  PROVE  UserMaxRevision \in 0..seq /\ \A e \in log : e.rev <= UserMaxRevision
  <1>1. CASE log = {}
    BY <1>1, ServerFacts DEF UserMaxRevision
  <1>2. CASE log # {}
    <2>1. Latest(log) \in log /\ \A f \in log : f.rev <= Latest(log).rev
      BY <1>2, LatestRow
    <2>2. QED
      BY <1>2, <2>1, ServerFacts DEF UserMaxRevision
  <1>3. QED
    BY <1>1, <1>2

LEMMA EventRowType == ASSUME BaseInv, NEW e \in log PROVE EventRow(e) \in ItemRows
  <1>1. items[e.item] \in ItemRows
    BY ServerFacts
  <1>2. QED
    BY <1>1 DEF EventRow, Tombstone, ItemRows

-----------------------------------------------------------------------------
(***************************************************************************)
(* The operation of a queue that the server applies.                       *)
(***************************************************************************)
Queued(p) == mem[p].queue[next[p]]

LEMMA QueuedType ==
  ASSUME BaseInv, NEW p \in Processes, next[p] \in DOMAIN mem[p].queue
  PROVE  /\ Queued(p) \in PendingOps /\ Queued(p).op \in Ops /\ Queued(p).kind \in Kinds
         /\ Queued(p).id \in Ids /\ Queued(p).exp \in Nat
  <1>1. mem[p].queue \in Seq(PendingOps)
    BY DEF BaseInv, TypeOK
  <1>2. Queued(p) \in PendingOps
    BY <1>1 DEF Queued
  <1>3. QED
    BY <1>2 DEF PendingOps

\* An operation that was not applied before takes effect on the item it names, or on a
\* new one.
LEMMA AcceptServer ==
  ASSUME BaseInv, NEW o \in PendingOps, NEW i \in Items, ~Done(o.op), Accept(o, i),
         IF o.kind = "create" THEN ~Present(i) ELSE Present(i)
  PROVE  /\ TablesTypeOK' /\ ServerInv' /\ seq' = seq + 1
         /\ \A op \in Ops : Done(op)' <=> Done(op) \/ op = o.op
         /\ \E e \in log' : e.item = i /\ e.rev = seq + 1
         /\ log \subseteq log'
         /\ \A j \in Items : j # i => items'[j] = items[j]
  <1> DEFINE row == RowAfter(o.kind, o.op, i, o.exp)
             new == LogRow(o.kind, o.op, i, o.exp, seq + 1)
             rec == [item |-> i, rev |-> seq + 1]
  <1>1. /\ o.op \in Ops /\ o.kind \in Kinds /\ o.exp \in Nat
        /\ seq \in Nat /\ log \subseteq LogRows /\ items \in [Items -> ItemRows]
        /\ processed \in [Ops -> ProcessedRows]
        /\ items[i] \in ItemRows
        /\ \A e \in log : e.rev \in 1..seq /\ e.rev \in Nat /\ e.op \in Ops /\ e.item \in Items
    BY ServerFacts DEF PendingOps
  <1>2. /\ items' = [items EXCEPT ![i] = row] /\ seq' = seq + 1
        /\ log' = log \cup {new} /\ processed' = [processed EXCEPT ![o.op] = rec]
    BY DEF Accept
  <1>3. /\ VersionAfter(o.kind, o.exp) \in Nat
        /\ items[i].content \in Ops \cup {NoOp}
    BY <1>1 DEF VersionAfter, ItemRows
  <1>4. /\ row \in ItemRows
        /\ row.content = IF o.kind = "delete" THEN items[i].content ELSE o.op
        /\ row.deleted <=> o.kind = "delete"
    BY <1>1, <1>3 DEF RowAfter, ItemRows
  <1>5. new \in LogRows /\ new.rev = seq + 1 /\ new.op = o.op /\ new.item = i
        /\ new.type = o.kind
    BY <1>1, <1>3 DEF LogRow, LogRows
  <1>6. rec \in ProcessedRows /\ rec # NoProcessed /\ rec.item = i
    <2>1. rec \in ProcessedRows /\ rec.item = i /\ rec.rev = seq + 1
      BY <1>1 DEF ProcessedRows
    <2>2. NoProcessed.rev = 0
      BY DEF NoProcessed
    <2>3. QED
      BY <1>1, <2>1, <2>2
  <1> HIDE DEF row, new, rec
  <1>7. TablesTypeOK'
    BY <1>1, <1>2, <1>4, <1>5, <1>6 DEF TablesTypeOK
  <1>8. \A op \in Ops : Done(op)' <=> Done(op) \/ op = o.op
    BY <1>1, <1>2, <1>6 DEF Done
  <1>9. /\ \A e \in log : Done(e.op) /\ e.op # o.op /\ e.rev # seq + 1
        /\ \A e, f \in log : e.op = f.op \/ e.rev = f.rev => e = f
    BY <1>1 DEF BaseInv, ServerInv
  <1>10. /\ \A e \in log' : e.rev \in 1..seq' /\ Done(e.op)'
         /\ \A e, f \in log' : e.op = f.op \/ e.rev = f.rev => e = f
    BY <1>1, <1>2, <1>5, <1>8, <1>9
  <1>11. /\ items'[i] = row
         /\ \A j \in Items : j # i => items'[j] = items[j]
    BY <1>1, <1>2
  <1>12. ASSUME NEW e \in log', \A f \in log' : f.item = e.item => f.rev <= e.rev
         PROVE  items'[e.item].deleted <=> e.type = "delete"
    <2>1. CASE e = new
      BY <1>4, <1>5, <1>11, <2>1
    <2>2. CASE e \in log
      <3>1. e.item # i
        BY <1>1, <1>2, <1>5, <1>12, <2>2
      <3>2. QED
        BY <1>1, <1>2, <1>11, <1>12, <2>2, <3>1 DEF BaseInv, ServerInv
    <2>3. QED
      BY <1>2, <2>1, <2>2
  <1>13. ASSUME NEW j \in Items, Present(j)'
         PROVE  /\ items'[j].content \in Ops /\ processed'[items'[j].content] # NoProcessed
                /\ processed'[items'[j].content].item = j
    <2>1. ASSUME NEW h \in Items, Present(h)
          PROVE  /\ items[h].content \in Ops /\ processed'[items[h].content] # NoProcessed
                 /\ processed'[items[h].content].item = h
      <3>1. /\ items[h].content \in Ops /\ Done(items[h].content)
            /\ processed[items[h].content].item = h
        BY <2>1 DEF BaseInv, ServerInv
      <3>2. items[h].content # o.op
        BY <3>1
      <3>3. processed'[items[h].content] = processed[items[h].content]
        BY <1>1, <1>2, <3>1, <3>2
      <3>4. QED
        BY <3>1, <3>3 DEF Done
    <2>2. CASE j # i
      <3>1. Present(j) /\ items'[j] = items[j]
        BY <1>11, <1>13, <2>2 DEF Present
      <3>2. QED
        BY <2>1, <3>1
    <2>3. CASE j = i /\ o.kind # "delete"
      <3>1. items'[j].content = o.op /\ processed'[o.op] = rec
        BY <1>1, <1>2, <1>4, <1>11, <2>3
      <3>2. QED
        BY <1>1, <1>6, <1>8, <2>3, <3>1
    <2>4. CASE j = i /\ o.kind = "delete"
      <3>1. items'[j].content = items[i].content /\ Present(i)
        BY <1>4, <1>11, <2>4
      <3>2. QED
        BY <2>1, <2>4, <3>1
    <2>5. QED
      BY <2>2, <2>3, <2>4
  <1>14. ServerInv'
    BY <1>10, <1>12, <1>13 DEF ServerInv, Done
  <1>15. new \in log' /\ log \subseteq log'
    BY <1>2
  <1>16. QED
    BY <1>2, <1>5, <1>7, <1>8, <1>11, <1>14, <1>15

-----------------------------------------------------------------------------
(***************************************************************************)
(* The actions keep the types and the server's tables.                     *)
(***************************************************************************)
LEMMA ServerFrame ==
  ASSUME BaseInv, UNCHANGED server
  PROVE  /\ TablesTypeOK' /\ ServerInv' /\ seq' = seq
         /\ items' = items /\ log' = log /\ processed' = processed
         /\ \A op \in Ops : Done(op)' <=> Done(op)
         /\ \A i \in Items : View(i)' = View(i)
  BY DEF BaseInv, TypeOK, server, TablesTypeOK, ServerInv, Present, Done, View, Tombstone

LEMMA UpdatedRow ==
  ASSUME NEW r \in ItemRows, NEW op \in Ops
  PROVE  [r EXCEPT !.version = r.version + 1, !.content = op] \in ItemRows
  <1>1. r.version + 1 \in Nat
    BY DEF ItemRows
  <1>2. QED
    BY <1>1 DEF ItemRows

LEMMA LongerQueue ==
  ASSUME NEW l \in [queue : Seq(PendingOps), rev : 0..seq], NEW o \in PendingOps
  PROVE  /\ [l EXCEPT !.queue = Append(l.queue, o)] \in [queue : Seq(PendingOps), rev : 0..seq]
         /\ [l EXCEPT !.queue = Append(l.queue, o)].queue = Append(l.queue, o)
         /\ [l EXCEPT !.queue = Append(l.queue, o)].rev = l.rev
  <1>1. PICK q : q = Append(l.queue, o)
    OBVIOUS
  <1>2. q \in Seq(PendingOps)
    BY <1>1
  <1>3. /\ [l EXCEPT !.queue = q] \in [queue : Seq(PendingOps), rev : 0..seq]
        /\ [l EXCEPT !.queue = q].queue = q /\ [l EXCEPT !.queue = q].rev = l.rev
    BY <1>2
  <1>4. QED
    BY <1>1, <1>3

\* Every local edit is an Edit.
LEMMA EditCases ==
  ASSUME BaseInv, NEW p \in Processes, AddItem(p) \/ UpdateItem(p) \/ DeleteItem(p)
  PROVE  \E op \in Ops, kind \in Kinds, i \in Ids, exp \in Nat, row \in ItemRows :
           Edit(p, op, kind, i, exp, row) /\ (kind = "create" => i \notin Items)
  <1>1. rows[Dev(p)] \in [Ids -> ItemRows]
    BY DevType DEF BaseInv, TypeOK
  <1>2. CASE AddItem(p)
    <2>1. PICK op \in Ops, i \in LocalIds :
            Edit(p, op, "create", i, 0, [version |-> 1, content |-> op, deleted |-> FALSE])
      BY <1>2 DEF AddItem
    <2>2. /\ [version |-> 1, content |-> op, deleted |-> FALSE] \in ItemRows
          /\ i \in Ids /\ i \notin Items /\ "create" \in Kinds /\ 0 \in Nat
      BY ClientAssumption DEF ItemRows, Ids, Kinds
    <2>3. QED
      BY <2>1, <2>2
  <1>3. CASE UpdateItem(p)
    <2>1. PICK op \in Ops, i \in Ids :
            Edit(p, op, "update", i, rows[Dev(p)][i].version,
                 [rows[Dev(p)][i] EXCEPT !.version = rows[Dev(p)][i].version + 1,
                                         !.content = op])
      BY <1>3 DEF UpdateItem
    <2>2. rows[Dev(p)][i] \in ItemRows
      BY <1>1
    <2>3. /\ rows[Dev(p)][i].version \in Nat /\ "update" \in Kinds /\ "update" # "create"
          /\ [rows[Dev(p)][i] EXCEPT !.version = rows[Dev(p)][i].version + 1,
                                     !.content = op] \in ItemRows
      BY <2>2, UpdatedRow DEF ItemRows, Kinds
    <2>4. QED
      BY <2>1, <2>3
  <1>4. CASE DeleteItem(p)
    <2>1. PICK op \in Ops, i \in Ids :
            Edit(p, op, "delete", i, rows[Dev(p)][i].version, NoRow)
      BY <1>4 DEF DeleteItem
    <2>2. rows[Dev(p)][i] \in ItemRows /\ NoRow \in ItemRows
      BY <1>1 DEF NoRow, ItemRows
    <2>3. rows[Dev(p)][i].version \in Nat /\ "delete" \in Kinds /\ "delete" # "create"
      BY <2>2 DEF ItemRows, Kinds
    <2>4. QED
      BY <2>1, <2>2, <2>3
  <1>5. QED
    BY <1>2, <1>3, <1>4

LEMMA EditFacts ==
  ASSUME BaseInv, NEW p \in Processes, NEW op \in Ops, NEW kind \in Kinds, NEW i \in Ids,
         NEW exp \in Nat, NEW row \in ItemRows, Edit(p, op, kind, i, exp, row),
         NEW o, o = [op |-> op, kind |-> kind, id |-> i, exp |-> exp]
  PROVE  /\ BaseInv' /\ UNCHANGED <<server, queue, lastRev, next, conflict, inbox>>
         /\ o \in PendingOps /\ op \notin used /\ used' = used \cup {op}
         /\ pc[p] = "idle" /\ pc'[p] = "save"
         /\ mem'[p].queue = Append(queue[Dev(p)], o) /\ mem'[p].rev = lastRev[Dev(p)]
         /\ \A q \in Processes : q # p => pc'[q] = pc[q] /\ mem'[q] = mem[q]
         /\ torn'[Dev(p)] = torn[Dev(p)] \cup {i}
         /\ \A d \in Devices : d # Dev(p) => torn'[d] = torn[d]
         /\ \A d \in Devices : \A j \in Ids :
              d # Dev(p) \/ j # i => rows'[d][j] = rows[d][j]
  <1> DEFINE d == Dev(p)
             l == LoadSync(d)
             m == [l EXCEPT !.queue = Append(l.queue, o)]
  <1>1. /\ d \in Devices /\ TypeOK /\ ServerInv /\ \A q \in Processes : next[q] # 0
        /\ queue[d] \in Seq(PendingOps) /\ lastRev[d] \in 0..seq
        /\ rows \in [Devices -> [Ids -> ItemRows]] /\ rows[d] \in [Ids -> ItemRows]
        /\ torn \in [Devices -> SUBSET Ids] /\ base \in [Ops -> Ops \cup {NoOp}]
        /\ pc \in [Processes -> {"idle", "save", "push", "apply"}]
        /\ mem \in [Processes -> [queue : Seq(PendingOps), rev : 0..seq]]
    BY DevType DEF BaseInv, TypeOK
  <1>2. /\ pc[p] = "idle" /\ op \notin used /\ used' = used \cup {op}
        /\ base' = [base EXCEPT ![op] = rows[d][i].content]
        /\ torn' = [torn EXCEPT ![d] = torn[d] \cup {i}]
        /\ rows' = [rows EXCEPT ![d] = [rows[d] EXCEPT ![i] = row]]
        /\ mem' = [mem EXCEPT ![p] = m] /\ pc' = [pc EXCEPT ![p] = "save"]
        /\ UNCHANGED <<server, queue, lastRev, next, conflict, inbox>>
    BY DEF Edit
  <1>3. o \in PendingOps
    BY DEF PendingOps
  <1>4. /\ l \in [queue : Seq(PendingOps), rev : 0..seq]
        /\ l.queue = queue[d] /\ l.rev = lastRev[d]
    BY <1>1 DEF LoadSync
  <1> HIDE DEF l
  <1>5. /\ m \in [queue : Seq(PendingOps), rev : 0..seq]
        /\ m.queue = Append(queue[d], o) /\ m.rev = lastRev[d]
    BY <1>3, <1>4, LongerQueue
  <1> HIDE DEF m, d
  <1>6. rows[d][i].content \in Ops \cup {NoOp}
    BY <1>1 DEF ItemRows
  <1>7. TablesTypeOK' /\ ServerInv' /\ seq' = seq
    BY <1>2, ServerFrame
  <1>8. /\ rows' \in [Devices -> [Ids -> ItemRows]] /\ torn' \in [Devices -> SUBSET Ids]
        /\ base' \in [Ops -> Ops \cup {NoOp}] /\ used' \subseteq Ops
        /\ pc' \in [Processes -> {"idle", "save", "push", "apply"}]
        /\ mem' \in [Processes -> [queue : Seq(PendingOps), rev : 0..seq]]
    <2>1. [rows[d] EXCEPT ![i] = row] \in [Ids -> ItemRows]
      BY <1>1
    <2>2. used \subseteq Ops
      BY <1>1 DEF TypeOK
    <2>3. QED
      BY <1>1, <1>2, <1>5, <1>6, <2>1, <2>2
  <1>9. BaseInv'
    BY <1>1, <1>2, <1>7, <1>8 DEF BaseInv, TypeOK
  <1>10. /\ pc'[p] = "save" /\ mem'[p] = m
         /\ \A q \in Processes : q # p => pc'[q] = pc[q] /\ mem'[q] = mem[q]
         /\ torn'[d] = torn[d] \cup {i} /\ \A c \in Devices : c # d => torn'[c] = torn[c]
    BY <1>1, <1>2
  <1>11. \A c \in Devices : \A j \in Ids : c # d \/ j # i => rows'[c][j] = rows[c][j]
    BY <1>1, <1>2
  <1>12. QED
    BY <1>2, <1>3, <1>5, <1>9, <1>10, <1>11 DEF d

LEMMA SyncFacts ==
  ASSUME BaseInv, NEW p \in Processes, Sync(p)
  PROVE  /\ BaseInv' /\ UNCHANGED <<server, database, next, conflict, inbox, history>>
         /\ pc[p] = "idle" /\ pc'[p] = "push"
         /\ mem'[p].queue = queue[Dev(p)] /\ mem'[p].rev = lastRev[Dev(p)]
         /\ \A q \in Processes : q # p => pc'[q] = pc[q] /\ mem'[q] = mem[q]
  <1> DEFINE l == LoadSync(Dev(p))
  <1>1. /\ queue[Dev(p)] \in Seq(PendingOps) /\ lastRev[Dev(p)] \in 0..seq
        /\ pc \in [Processes -> {"idle", "save", "push", "apply"}]
        /\ mem \in [Processes -> [queue : Seq(PendingOps), rev : 0..seq]]
    BY DevType DEF BaseInv, TypeOK
  <1>2. /\ l \in [queue : Seq(PendingOps), rev : 0..seq]
        /\ l.queue = queue[Dev(p)] /\ l.rev = lastRev[Dev(p)]
    BY <1>1 DEF LoadSync
  <1>3. /\ pc[p] = "idle" /\ pc' = [pc EXCEPT ![p] = "push"]
        /\ mem' = [mem EXCEPT ![p] = l]
        /\ UNCHANGED <<server, database, next, conflict, inbox, history>>
    BY DEF Sync
  <1> HIDE DEF l
  <1>4. TablesTypeOK' /\ ServerInv' /\ seq' = seq
    BY <1>3, ServerFrame
  <1>5. /\ pc' \in [Processes -> {"idle", "save", "push", "apply"}]
        /\ mem' \in [Processes -> [queue : Seq(PendingOps), rev : 0..seq]]
        /\ pc'[p] = "push" /\ mem'[p] = l
        /\ \A q \in Processes : q # p => pc'[q] = pc[q] /\ mem'[q] = mem[q]
    BY <1>1, <1>2, <1>3
  <1>6. BaseInv'
    BY <1>3, <1>4, <1>5 DEF BaseInv, TypeOK, database, history
  <1>7. QED
    BY <1>2, <1>3, <1>5, <1>6

\* One operation of the queue: it is applied, now or before, or in conflict; and an item
\* changes only together with a row in the log.
LEMMA PushFacts ==
  ASSUME BaseInv, NEW p \in Processes, PushOperation(p)
  PROVE  /\ BaseInv' /\ UNCHANGED <<database, pc, mem, inbox, history>>
         /\ pc[p] = "push" /\ next[p] \in DOMAIN mem[p].queue
         /\ next'[p] = next[p] + 1
         /\ Done(Queued(p).op) \/ conflict'[p] \/ processed'[Queued(p).op] # NoProcessed
         /\ conflict[p] => conflict'[p]
         /\ \A q \in Processes : q # p => next'[q] = next[q] /\ conflict'[q] = conflict[q]
         /\ seq <= seq' /\ log \subseteq log'
         /\ \A op \in Ops : Done(op)' <=> Done(op) \/ (op = Queued(p).op /\ Done(op)')
         /\ \A i \in Items :
              View(i)' = View(i) \/ \E e \in log' : e.item = i /\ e.rev > seq
         /\ \A i \in Items :
              (/\ Queued(p).id = i /\ Queued(p).kind # "create"
               /\ ~Done(Queued(p).op) /\ processed'[Queued(p).op] # NoProcessed)
                 => \E e \in log' : e.item = i /\ e.rev > seq
  <1>1. PICK o : o = Queued(p)
    OBVIOUS
  <1>2. /\ pc[p] = "push" /\ next[p] \in DOMAIN mem[p].queue
        /\ next' = [next EXCEPT ![p] = next[p] + 1]
        /\ UNCHANGED <<database, pc, mem, inbox, history>>
    BY DEF PushOperation
  <1>3. /\ o \in PendingOps /\ o.op \in Ops /\ o.kind \in Kinds
        /\ o.id \in Ids /\ o.exp \in Nat
    BY <1>1, <1>2, QueuedType
  <1>4. /\ next \in [Processes -> Nat] /\ conflict \in [Processes -> BOOLEAN]
        /\ seq \in Nat
        /\ \A q \in Processes : next[q] # 0
    BY ServerFacts DEF BaseInv, TypeOK
  <1>5. /\ next' \in [Processes -> Nat] /\ next'[p] = next[p] + 1
        /\ \A q \in Processes : next'[q] # 0 /\ (q # p => next'[q] = next[q])
    BY <1>2, <1>4
  <1> DEFINE Effect ==
        /\ TablesTypeOK' /\ ServerInv' /\ seq <= seq' /\ seq' \in Nat /\ log \subseteq log'
        /\ conflict' \in [Processes -> BOOLEAN] /\ (conflict[p] => conflict'[p])
        /\ \A q \in Processes : q # p => conflict'[q] = conflict[q]
        /\ Done(o.op) \/ conflict'[p] \/ Done(o.op)'
        /\ \A op \in Ops : Done(op)' <=> Done(op) \/ (op = o.op /\ Done(op)')
        /\ \A i \in Items : View(i)' = View(i) \/ \E e \in log' : e.item = i /\ e.rev > seq
        /\ \A i \in Items : o.id = i /\ o.kind # "create" /\ ~Done(o.op) /\ Done(o.op)'
                              => \E e \in log' : e.item = i /\ e.rev > seq
  <1>6. ASSUME UNCHANGED server,
               \/ Done(o.op) /\ conflict' = conflict
               \/ conflict' = [conflict EXCEPT ![p] = TRUE]
        PROVE  Effect
    <2>1. /\ TablesTypeOK' /\ ServerInv' /\ seq' = seq /\ log' = log
          /\ \A op \in Ops : Done(op)' <=> Done(op)
          /\ \A i \in Items : View(i)' = View(i)
      BY <1>6, ServerFrame
    <2>2. /\ conflict' \in [Processes -> BOOLEAN] /\ (conflict[p] => conflict'[p])
          /\ Done(o.op) \/ conflict'[p]
          /\ \A q \in Processes : q # p => conflict'[q] = conflict[q]
      BY <1>4, <1>6
    <2>3. QED
      BY <1>3, <1>4, <2>1, <2>2
  <1>7. ASSUME NEW i \in Items, Accept(o, i), ~Done(o.op), conflict' = conflict,
               IF o.kind = "create" THEN ~Present(i) ELSE Present(i) /\ o.id = i
        PROVE  Effect
    <2>1. /\ TablesTypeOK' /\ ServerInv' /\ seq' = seq + 1
          /\ \A op \in Ops : Done(op)' <=> Done(op) \/ op = o.op
          /\ \E e \in log' : e.item = i /\ e.rev = seq + 1
          /\ log \subseteq log'
          /\ \A j \in Items : j # i => items'[j] = items[j]
      BY <1>3, <1>7, AcceptServer
    <2>2. \E e \in log' : e.item = i /\ e.rev > seq
      BY <1>4, <2>1
    <2>3. \A j \in Items : j # i => View(j)' = View(j)
      BY <2>1 DEF View, Tombstone
    <2>4. \A j \in Items : View(j)' = View(j) \/ \E e \in log' : e.item = j /\ e.rev > seq
      BY <2>2, <2>3
    <2>5. seq <= seq' /\ seq' \in Nat /\ Done(o.op)'
      BY <1>3, <1>4, <2>1
    <2>6. \A j \in Items : o.id = j /\ o.kind # "create" =>
            \E e \in log' : e.item = j /\ e.rev > seq
      BY <1>7, <2>2
    <2>7. QED
      BY <1>3, <1>4, <1>7, <2>1, <2>4, <2>5, <2>6
  <1>8. Effect
    <2>1. \/ UNCHANGED server /\ Done(o.op) /\ conflict' = conflict
          \/ UNCHANGED server /\ conflict' = [conflict EXCEPT ![p] = TRUE]
          \/ /\ ~Done(o.op) /\ conflict' = conflict
             /\ \/ o.kind = "create" /\ \E i \in Items : ~Present(i) /\ Accept(o, i)
                \/ o.kind # "create" /\ Fits(o) /\ Accept(o, o.id)
      BY <1>1 DEF PushOperation, Queued, Done
    <2>2. Fits(o) => o.id \in Items /\ Present(o.id)
      BY DEF Fits, Matches
    <2> HIDE DEF Effect
    <2>3. QED
      BY <1>6, <1>7, <2>1, <2>2
  <1>9. BaseInv'
    <2>1. \A n \in 0..seq : n \in 0..seq'
      BY <1>4, <1>8
    <2>2. mem' \in [Processes -> [queue : Seq(PendingOps), rev : 0..seq']]
      <3>1. \A q \in Processes : mem[q] \in [queue : Seq(PendingOps), rev : 0..seq]
        BY DEF BaseInv, TypeOK
      <3>2. \A q \in Processes : mem[q] \in [queue : Seq(PendingOps), rev : 0..seq']
        BY <2>1, <3>1
      <3>3. mem' = mem /\ mem = [q \in Processes |-> mem[q]]
        BY <1>2 DEF BaseInv, TypeOK
      <3>4. QED
        BY <3>2, <3>3
    <2>3. lastRev' \in [Devices -> 0..seq']
      BY <1>2, <2>1 DEF BaseInv, TypeOK, database
    <2>4. QED
      BY <1>2, <1>5, <1>8, <2>2, <2>3 DEF BaseInv, TypeOK, database, history
  <1>10. QED
    BY <1>1, <1>2, <1>5, <1>8, <1>9 DEF Done

\* The answer: the events after the revision the device asked from.
LEMMA AnswerFacts ==
  ASSUME BaseInv, NEW p \in Processes, Answer(p)
  PROVE  /\ BaseInv' /\ UNCHANGED <<server, database, next, conflict, history>>
         /\ pc[p] = "push" /\ pc'[p] = "apply" /\ next[p] \notin DOMAIN mem[p].queue
         /\ mem'[p].queue = IF conflict[p] THEN mem[p].queue ELSE <<>>
         /\ mem'[p].rev = UserMaxRevision
         /\ inbox'[p] = {[rev |-> e.rev, item |-> e.item, row |-> EventRow(e)] :
                           e \in FirstRows(After(mem[p].rev), Bundle)}
         /\ \A q \in Processes :
              q # p => pc'[q] = pc[q] /\ mem'[q] = mem[q] /\ inbox'[q] = inbox[q]
  <1> DEFINE m == [queue |-> IF conflict[p] THEN mem[p].queue ELSE <<>>,
                   rev   |-> UserMaxRevision]
             new == {[rev |-> e.rev, item |-> e.item, row |-> EventRow(e)] :
                       e \in FirstRows(After(mem[p].rev), Bundle)}
  <1>1. /\ pc \in [Processes -> {"idle", "save", "push", "apply"}]
        /\ mem \in [Processes -> [queue : Seq(PendingOps), rev : 0..seq]]
        /\ inbox \in [Processes -> SUBSET Events]
    BY DEF BaseInv, TypeOK
  <1>2. /\ m \in [queue : Seq(PendingOps), rev : 0..seq]
        /\ m.queue = IF conflict[p] THEN mem[p].queue ELSE <<>>
        /\ m.rev = UserMaxRevision
    BY <1>1, NewestRevision
  <1>3. new \in SUBSET Events
    <2>1. FirstRows(After(mem[p].rev), Bundle) \subseteq log
      BY DEF FirstRows, After
    <2>2. \A e \in log : /\ e.rev \in Nat /\ e.item \in Items
                         /\ EventRow(e) \in ItemRows
      BY ServerFacts, EventRowType
    <2>3. QED
      BY <2>1, <2>2 DEF Events
  <1>4. /\ pc[p] = "push" /\ next[p] \notin DOMAIN mem[p].queue
        /\ inbox' = [inbox EXCEPT ![p] = new] /\ mem' = [mem EXCEPT ![p] = m]
        /\ pc' = [pc EXCEPT ![p] = "apply"]
        /\ UNCHANGED <<server, database, next, conflict, history>>
    BY DEF Answer
  <1>5. TablesTypeOK' /\ ServerInv' /\ seq' = seq
    BY <1>4, ServerFrame
  <1> HIDE DEF m, new
  <1>6. /\ pc' \in [Processes -> {"idle", "save", "push", "apply"}]
        /\ mem' \in [Processes -> [queue : Seq(PendingOps), rev : 0..seq]]
        /\ inbox' \in [Processes -> SUBSET Events]
        /\ pc'[p] = "apply" /\ mem'[p] = m /\ inbox'[p] = new
        /\ \A q \in Processes :
             q # p => pc'[q] = pc[q] /\ mem'[q] = mem[q] /\ inbox'[q] = inbox[q]
    BY <1>1, <1>2, <1>3, <1>4
  <1>7. BaseInv'
    BY <1>4, <1>5, <1>6 DEF BaseInv, TypeOK, database, history
  <1>8. QED
    BY <1>2, <1>4, <1>6, <1>7 DEF new

\* One event is applied.
LEMMA ApplyFacts ==
  ASSUME BaseInv, NEW p \in Processes, pc[p] = "apply", NEW e \in inbox[p],
         rows' = [rows EXCEPT ![Dev(p)][e.item] = e.row],
         torn' = [torn EXCEPT ![Dev(p)] = @ \ {e.item}],
         inbox' = [inbox EXCEPT ![p] = @ \ {e}],
         UNCHANGED <<server, queue, lastRev, pc, mem, next, conflict, used, base>>
  PROVE  /\ BaseInv' /\ e.item \in Items /\ e.rev \in Nat
         /\ inbox'[p] = inbox[p] \ {e} /\ \A q \in Processes : q # p => inbox'[q] = inbox[q]
         /\ rows'[Dev(p)][e.item] = e.row
         /\ torn'[Dev(p)] = torn[Dev(p)] \ {e.item}
         /\ \A d \in Devices : d # Dev(p) => torn'[d] = torn[d]
         /\ \A d \in Devices : \A j \in Ids :
              d # Dev(p) \/ j # e.item => rows'[d][j] = rows[d][j]
  <1> DEFINE d == Dev(p)
  <1>1. /\ d \in Devices
        /\ rows \in [Devices -> [Ids -> ItemRows]] /\ rows[d] \in [Ids -> ItemRows]
        /\ torn \in [Devices -> SUBSET Ids] /\ inbox \in [Processes -> SUBSET Events]
    BY DevType DEF BaseInv, TypeOK
  <1>2. e.item \in Items /\ e.item \in Ids /\ e.rev \in Nat /\ e.row \in ItemRows
    <2>1. e \in Events
      BY <1>1
    <2>2. QED
      BY <2>1 DEF Events, Ids
  <1>3. /\ rows' = [rows EXCEPT ![d] = [rows[d] EXCEPT ![e.item] = e.row]]
        /\ torn' = [torn EXCEPT ![d] = torn[d] \ {e.item}]
        /\ inbox' = [inbox EXCEPT ![p] = inbox[p] \ {e}]
    OBVIOUS
  <1> HIDE DEF d
  <1>4. TablesTypeOK' /\ ServerInv' /\ seq' = seq
    BY ServerFrame
  <1>5. [rows[d] EXCEPT ![e.item] = e.row] \in [Ids -> ItemRows]
    BY <1>1, <1>2
  <1>6. /\ rows' \in [Devices -> [Ids -> ItemRows]] /\ torn' \in [Devices -> SUBSET Ids]
        /\ inbox' \in [Processes -> SUBSET Events]
    <2>1. rows' \in [Devices -> [Ids -> ItemRows]]
      BY <1>1, <1>3, <1>5
    <2>2. torn' \in [Devices -> SUBSET Ids]
      <3>1. torn[d] \ {e.item} \in SUBSET Ids
        BY <1>1
      <3>2. QED
        BY <1>1, <1>3, <3>1
    <2>3. inbox' \in [Processes -> SUBSET Events]
      BY <1>1, <1>3
    <2>4. QED
      BY <2>1, <2>2, <2>3
  <1>7. BaseInv'
    BY <1>4, <1>6 DEF BaseInv, TypeOK
  <1>8. /\ inbox'[p] = inbox[p] \ {e} /\ \A q \in Processes : q # p => inbox'[q] = inbox[q]
        /\ torn'[d] = torn[d] \ {e.item}
        /\ \A c \in Devices : c # d => torn'[c] = torn[c]
        /\ rows'[d][e.item] = e.row
        /\ \A c \in Devices : \A j \in Ids : c # d \/ j # e.item => rows'[c][j] = rows[c][j]
    BY <1>1, <1>2, <1>3
  <1>9. QED
    BY <1>2, <1>7, <1>8 DEF d

LEMMA EndFacts ==
  ASSUME BaseInv, NEW p \in Processes, End(p)
  PROVE  /\ pc' \in [Processes -> {"idle", "save", "push", "apply"}]
         /\ mem' \in [Processes -> [queue : Seq(PendingOps), rev : 0..seq]]
         /\ next' \in [Processes -> Nat] /\ conflict' \in [Processes -> BOOLEAN]
         /\ inbox' \in [Processes -> SUBSET Events] /\ \A q \in Processes : next'[q] # 0
         /\ pc'[p] = "idle" /\ inbox'[p] = {}
         /\ \A q \in Processes : q # p =>
              /\ pc'[q] = pc[q] /\ mem'[q] = mem[q] /\ next'[q] = next[q]
              /\ conflict'[q] = conflict[q] /\ inbox'[q] = inbox[q]
  <1>1. /\ pc \in [Processes -> {"idle", "save", "push", "apply"}]
        /\ mem \in [Processes -> [queue : Seq(PendingOps), rev : 0..seq]]
        /\ next \in [Processes -> Nat] /\ conflict \in [Processes -> BOOLEAN]
        /\ inbox \in [Processes -> SUBSET Events] /\ \A q \in Processes : next[q] # 0
    BY DEF BaseInv, TypeOK
  <1>2. NoState \in [queue : Seq(PendingOps), rev : 0..seq]
    BY ServerFacts DEF NoState
  <1>3. /\ pc' = [pc EXCEPT ![p] = "idle"] /\ mem' = [mem EXCEPT ![p] = NoState]
        /\ next' = [next EXCEPT ![p] = 1] /\ conflict' = [conflict EXCEPT ![p] = FALSE]
        /\ inbox' = [inbox EXCEPT ![p] = {}]
    BY DEF End
  <1>4. QED
    BY <1>1, <1>2, <1>3

LEMMA StopFacts ==
  ASSUME BaseInv, NEW p \in Processes, RejectCall(p) \/ Fail(p)
  PROVE  BaseInv' /\ End(p) /\ UNCHANGED <<server, database, history>>
  <1>1. End(p) /\ UNCHANGED <<server, database, history>>
    BY DEF RejectCall, Fail
  <1>2. TablesTypeOK' /\ ServerInv' /\ seq' = seq
    BY <1>1, ServerFrame
  <1>3. QED
    BY <1>1, <1>2, EndFacts DEF BaseInv, TypeOK, database, history

LEMMA SaveFacts ==
  ASSUME BaseInv, NEW p \in Processes, SaveSync(p)
  PROVE  /\ BaseInv' /\ End(p) /\ UNCHANGED <<server, rows, used, base>>
         /\ pc[p] = "save" \/ (pc[p] = "apply" /\ inbox[p] = {})
         /\ queue'[Dev(p)] = mem[p].queue /\ lastRev'[Dev(p)] = mem[p].rev
         /\ \A d \in Devices : d # Dev(p) => /\ queue'[d] = queue[d] /\ lastRev'[d] = lastRev[d]
                                             /\ torn'[d] = torn[d]
         /\ pc[p] = "save" => torn'[Dev(p)] = torn[Dev(p)] \ {Saving(p).id}
         /\ pc[p] = "apply" => torn'[Dev(p)] = torn[Dev(p)]
  <1> DEFINE d == Dev(p)
             t == IF pc[p] = "save" THEN torn[d] \ {Saving(p).id} ELSE torn[d]
  <1>1. /\ d \in Devices /\ queue \in [Devices -> Seq(PendingOps)]
        /\ lastRev \in [Devices -> 0..seq] /\ torn \in [Devices -> SUBSET Ids]
        /\ mem[p].queue \in Seq(PendingOps) /\ mem[p].rev \in 0..seq
    BY DevType DEF BaseInv, TypeOK
  <1>2. /\ End(p) /\ UNCHANGED <<server, rows, used, base>>
        /\ pc[p] = "save" \/ (pc[p] = "apply" /\ inbox[p] = {})
        /\ queue' = [queue EXCEPT ![d] = mem[p].queue]
        /\ lastRev' = [lastRev EXCEPT ![d] = mem[p].rev]
        /\ torn' = [torn EXCEPT ![d] = t]
    BY DEF SaveSync, Saving
  <1>3. t \in SUBSET Ids
    BY <1>1
  <1>4. /\ pc[p] = "save" => t = torn[d] \ {Saving(p).id}
        /\ pc[p] = "apply" => t = torn[d]
    OBVIOUS
  <1> HIDE DEF t, d
  <1>5. TablesTypeOK' /\ ServerInv' /\ seq' = seq
    BY <1>2, ServerFrame
  <1>6. /\ queue' \in [Devices -> Seq(PendingOps)] /\ queue'[d] = mem[p].queue
        /\ \A c \in Devices : c # d => queue'[c] = queue[c]
    BY <1>1, <1>2
  <1>7. /\ lastRev' \in [Devices -> 0..seq] /\ lastRev'[d] = mem[p].rev
        /\ \A c \in Devices : c # d => lastRev'[c] = lastRev[c]
    BY <1>1, <1>2
  <1>8. /\ torn' \in [Devices -> SUBSET Ids] /\ torn'[d] = t
        /\ \A c \in Devices : c # d => torn'[c] = torn[c]
    BY <1>1, <1>2, <1>3
  <1>9. BaseInv'
    BY <1>2, <1>5, <1>6, <1>7, <1>8, EndFacts DEF BaseInv, TypeOK
  <1>10. QED
    BY <1>2, <1>4, <1>6, <1>7, <1>8, <1>9 DEF d

LEMMA InitBaseInv == Init => BaseInv
  <1> SUFFICES ASSUME Init PROVE BaseInv
    OBVIOUS
  <1> USE DEF Init, TablesInit
  <1>1. NoRow \in ItemRows /\ NoRow.version = 0 /\ NoProcessed \in ProcessedRows
        /\ NoState \in [queue : Seq(PendingOps), rev : 0..0]
    BY DEF NoRow, ItemRows, NoProcessed, ProcessedRows, NoState
  <1>2. TablesTypeOK
    BY <1>1 DEF TablesTypeOK
  <1>3. TypeOK
    <2>1. /\ rows \in [Devices -> [Ids -> ItemRows]] /\ queue \in [Devices -> Seq(PendingOps)]
          /\ lastRev \in [Devices -> 0..seq]
      BY <1>1
    <2>2. /\ pc \in [Processes -> {"idle", "save", "push", "apply"}]
          /\ mem \in [Processes -> [queue : Seq(PendingOps), rev : 0..seq]]
      BY <1>1
    <2>3. QED
      BY <1>2, <2>1, <2>2 DEF TypeOK
  <1>4. ServerInv
    BY <1>1 DEF ServerInv, Present
  <1>5. QED
    BY <1>3, <1>4 DEF BaseInv

LEMMA NextBaseInv == BaseInv /\ [Next]_vars => BaseInv'
  <1> SUFFICES ASSUME BaseInv, [Next]_vars PROVE BaseInv'
    OBVIOUS
  <1>1. ASSUME NEW p \in Processes, AddItem(p) \/ UpdateItem(p) \/ DeleteItem(p)
        PROVE  BaseInv'
    BY <1>1, EditCases, EditFacts
  <1>2. ASSUME NEW p \in Processes, applyEvent(p) PROVE BaseInv'
    BY <1>2, ApplyFacts DEF applyEvent
  <1>3. ASSUME NEW p \in Processes, Sync(p) \/ Fail(p) \/ PushOperation(p) \/ Answer(p)
                                     \/ SaveSync(p) \/ RejectCall(p)
        PROVE  BaseInv'
    BY <1>3, SyncFacts, StopFacts, PushFacts, AnswerFacts, SaveFacts
  <1>4. CASE UNCHANGED vars
    <2>1. TablesTypeOK' /\ ServerInv' /\ seq' = seq
      BY <1>4, ServerFrame DEF vars
    <2>2. QED
      BY <1>4, <2>1 DEF vars, server, database, process, history, BaseInv, TypeOK
  <1>5. QED
    BY <1>1, <1>2, <1>3, <1>4 DEF Next, Step

\* The server's tables agree with each other, whatever the clients send: what
\* runPushOperations looks up in processed_operations is what is in the log.
THEOREM BaseInvariant == Spec => []BaseInv
  BY InitBaseInv, NextBaseInv, PTL DEF Spec

\* The client's tables and the state of its commands keep their types.
THEOREM ClientTypes == Spec => []TypeOK
  <1>1. BaseInv => TypeOK
    BY DEF BaseInv
  <1>2. QED
    BY <1>1, BaseInvariant, PTL

\* However often a queue is sent again, by commands that failed anywhere or that
\* overlap, each of its operations has one row in the log and wrote one item.
THEOREM AppliedOnce == Spec => []RetriesApplyOnce
  <1>1. BaseInv => RetriesApplyOnce
    <2> SUFFICES ASSUME BaseInv PROVE RetriesApplyOnce
      OBVIOUS
    <2>1. \A e, f \in log : e.op = f.op => e = f
      BY DEF BaseInv, ServerInv
    <2>2. ASSUME NEW i \in Items, NEW j \in Items, Present(i), Present(j),
                 items[i].content = items[j].content
          PROVE  i = j
      <3>1. processed[items[i].content].item = i /\ processed[items[j].content].item = j
        BY <2>2 DEF BaseInv, ServerInv
      <3>2. QED
        BY <2>2, <3>1
    <2>3. QED
      BY <2>1, <2>2 DEF RetriesApplyOnce
  <1>2. QED
    BY <1>1, BaseInvariant, PTL

-----------------------------------------------------------------------------
(***************************************************************************)
(* The commands of one device do not overlap.                              *)
(***************************************************************************)
LEMMA AppendFacts ==
  ASSUME NEW q \in Seq(PendingOps), NEW o \in PendingOps
  PROVE  /\ Append(q, o) \in Seq(PendingOps)
         /\ \A k \in DOMAIN q : k \in DOMAIN Append(q, o) /\ Append(q, o)[k] = q[k]
         /\ \A k \in DOMAIN Append(q, o) :
              k \in DOMAIN q \/ (k = Len(q) + 1 /\ Append(q, o)[k] = o)
         /\ Len(q) + 1 \in DOMAIN Append(q, o) /\ Len(q) + 1 \notin DOMAIN q
         /\ Append(q, o)[Len(q) + 1] = o /\ Len(Append(q, o)) = Len(q) + 1
         /\ OpsOf(Append(q, o)) = OpsOf(q) \cup {o.op}
  <1>1. PICK r : r = Append(q, o)
    OBVIOUS
  <1>2. /\ r \in Seq(PendingOps) /\ Len(r) = Len(q) + 1 /\ DOMAIN r = 1..(Len(q) + 1)
        /\ DOMAIN q = 1..Len(q) /\ Len(q) \in Nat
        /\ \A k \in 1..Len(q) : r[k] = q[k]
        /\ r[Len(q) + 1] = o
    BY <1>1
  <1>3. /\ \A k \in DOMAIN q : k \in DOMAIN r /\ r[k] = q[k]
        /\ \A k \in DOMAIN r : k \in DOMAIN q \/ (k = Len(q) + 1 /\ r[k] = o)
        /\ Len(q) + 1 \in DOMAIN r /\ Len(q) + 1 \notin DOMAIN q
    BY <1>2
  <1>4. OpsOf(r) = OpsOf(q) \cup {o.op}
    BY <1>2, <1>3 DEF OpsOf
  <1>5. QED
    BY <1>1, <1>2, <1>3, <1>4

LEMMA QueueFacts ==
  ASSUME KeptInv
  PROVE  /\ BaseInv /\ QueueInv /\ ProcessInv
         /\ \A d \in Devices : /\ queue[d] \in Seq(PendingOps) /\ OpsOf(queue[d]) \subseteq used
                               /\ \A k \in DOMAIN queue[d] : queue[d][k].op \in OpsOf(queue[d])
                               /\ \A k \in DOMAIN queue[d] : /\ queue[d][k] \in PendingOps
                                                             /\ queue[d][k].op \in Ops
         /\ \A p \in Processes : /\ mem[p].queue \in Seq(PendingOps) /\ next[p] \in Nat
                                 /\ next[p] # 0 /\ Dev(p) \in Devices
         /\ queue \in [Devices -> Seq(PendingOps)] /\ used \subseteq Ops
  <1>1. BaseInv /\ QueueInv /\ ProcessInv
    BY DEF KeptInv
  <1>2. /\ queue \in [Devices -> Seq(PendingOps)] /\ used \subseteq Ops
        /\ \A p \in Processes :
             mem[p].queue \in Seq(PendingOps) /\ next[p] \in Nat /\ next[p] # 0
    BY <1>1 DEF BaseInv, TypeOK
  <1>3. ASSUME NEW d \in Devices
        PROVE  /\ queue[d] \in Seq(PendingOps) /\ OpsOf(queue[d]) \subseteq used
               /\ \A k \in DOMAIN queue[d] : queue[d][k].op \in OpsOf(queue[d])
    BY <1>1, <1>2 DEF QueueInv, OpsOf
  <1>4. ASSUME NEW d \in Devices, NEW k \in DOMAIN queue[d]
        PROVE  queue[d][k] \in PendingOps /\ queue[d][k].op \in Ops
    <2>1. queue[d][k] \in PendingOps
      BY <1>3
    <2>2. QED
      BY <2>1 DEF PendingOps
  <1>5. QED
    BY <1>1, <1>2, <1>3, <1>4, DevType

LEMMA EditKept ==
  ASSUME KeptInv, NEW p \in Processes, AddItem(p) \/ UpdateItem(p) \/ DeleteItem(p)
  PROVE  KeptInv'
  <1>1. BaseInv
    BY DEF KeptInv
  <1>2. PICK op \in Ops, kind \in Kinds, i \in Ids, exp \in Nat, row \in ItemRows :
          Edit(p, op, kind, i, exp, row) /\ (kind = "create" => i \notin Items)
    BY <1>1, EditCases
  <1>3. PICK o : o = [op |-> op, kind |-> kind, id |-> i, exp |-> exp]
    OBVIOUS
  <1>4. /\ BaseInv' /\ UNCHANGED <<server, queue, lastRev, next, conflict, inbox>>
        /\ o \in PendingOps /\ op \notin used /\ used' = used \cup {op}
        /\ pc[p] = "idle" /\ pc'[p] = "save"
        /\ mem'[p].queue = Append(queue[Dev(p)], o) /\ mem'[p].rev = lastRev[Dev(p)]
        /\ \A q \in Processes : q # p => pc'[q] = pc[q] /\ mem'[q] = mem[q]
    BY <1>1, <1>2, <1>3, EditFacts
  <1>5. o.op = op /\ (o.kind = "create" => o.id \notin Items)
    BY <1>2, <1>3
  <1>6. \A a \in Ops : Done(a)' <=> Done(a)
    BY <1>1, <1>4, ServerFrame
  <1>7. QueueInv'
    <2>1. \A d \in Devices : OwnIds(queue[d])' /\ OpsOf(queue[d])' \subseteq used'
      BY <1>4 DEF KeptInv, QueueInv, OwnIds, OpsOf
    <2>2. QED
      BY <1>4, <1>6, <2>1 DEF KeptInv, QueueInv
  <1>8. Saving(p)' = o /\ OwnIds(mem'[p].queue)
    <2>1. OwnIds(queue[Dev(p)]) /\ queue[Dev(p)] \in Seq(PendingOps)
      BY QueueFacts DEF QueueInv
    <2>2. OwnIds(Append(queue[Dev(p)], o))
      BY <1>4, <1>5, <2>1, AppendFacts DEF OwnIds
    <2>3. QED
      BY <1>4, <2>1, <2>2, AppendFacts DEF Saving
  <1>9. \A q \in Processes : q # p => Saving(q)' = Saving(q)
    BY <1>4 DEF Saving
  <1>10. \A q \in Processes : pc[q] = "save" => Saving(q).op \in used /\ Saving(q).op \in Ops
    BY QueueFacts DEF ProcessInv, SaveKept
  <1>11. ~Done(op) /\ \A d \in Devices : op \notin OpsOf(queue[d])
    BY <1>4, QueueFacts DEF QueueInv
  <1>12. SaveKept(p)'
    BY <1>4, <1>5, <1>6, <1>8, <1>9, <1>10, <1>11 DEF SaveKept
  <1>13. ASSUME NEW q \in Processes, q # p
         PROVE  /\ SaveKept(q)' /\ PushKept(q)' /\ ApplyKept(q)'
                /\ pc'[q] = "idle" => next'[q] = 1
    <2>1. SaveKept(q) /\ PushKept(q) /\ ApplyKept(q) /\ (pc[q] = "idle" => next[q] = 1)
      BY DEF KeptInv, ProcessInv
    <2>2. SaveKept(q)'
      BY <1>4, <1>5, <1>6, <1>8, <1>9, <1>10, <1>13, <2>1 DEF SaveKept
    <2>3. PushKept(q)' /\ ApplyKept(q)'
      BY <1>4, <1>6, <1>13, <2>1, QueueFacts DEF PushKept, ApplyKept
    <2>4. QED
      BY <1>4, <1>13, <2>1, <2>2, <2>3
  <1>14. PushKept(p)' /\ ApplyKept(p)' /\ pc'[p] # "idle"
    BY <1>4 DEF PushKept, ApplyKept
  <1>15. ProcessInv'
    BY <1>12, <1>13, <1>14 DEF ProcessInv
  <1>16. QED
    BY <1>4, <1>7, <1>15 DEF KeptInv

\* The processes that do not take the step, when it changes no queue.
LEMMA OthersKept ==
  ASSUME KeptInv, NEW p \in Processes, queue' = queue, lastRev' = lastRev, used' = used,
         pc'[p] # "save",
         \A op \in Ops : Done(op) => Done(op)',
         \A op \in Ops : Done(op)' => Done(op) \/ \E d \in Devices : op \in OpsOf(queue[d]),
         \A q \in Processes : q # p =>
           /\ pc'[q] = pc[q] /\ mem'[q] = mem[q] /\ next'[q] = next[q]
           /\ conflict'[q] = conflict[q]
  PROVE  /\ QueueInv'
         /\ \A q \in Processes : q # p =>
              /\ pc'[q] = "idle" => next'[q] = 1
              /\ SaveKept(q)' /\ PushKept(q)' /\ ApplyKept(q)'
  <1>1. QueueInv'
    <2>1. \A d \in Devices : OwnIds(queue[d])' /\ OpsOf(queue[d])' = OpsOf(queue[d])
      BY DEF KeptInv, QueueInv, OwnIds, OpsOf
    <2>2. \A op \in Ops : Done(op)' => op \in used
      BY QueueFacts DEF QueueInv
    <2>3. QED
      BY <2>1, <2>2 DEF KeptInv, QueueInv
  <1>2. ASSUME NEW q \in Processes, q # p
        PROVE  /\ pc'[q] = "idle" => next'[q] = 1
               /\ SaveKept(q)' /\ PushKept(q)' /\ ApplyKept(q)'
    <2>1. SaveKept(q) /\ PushKept(q) /\ ApplyKept(q) /\ (pc[q] = "idle" => next[q] = 1)
      BY DEF KeptInv, ProcessInv
    <2>2. /\ pc'[q] = pc[q] /\ mem'[q] = mem[q] /\ next'[q] = next[q]
          /\ conflict'[q] = conflict[q]
      BY <1>2
    <2>3. \A r \in Processes : r # p => Saving(r)' = Saving(r) /\ pc'[r] = pc[r]
      BY DEF Saving
    <2>4. SaveKept(q)'
      <3> SUFFICES ASSUME pc[q] = "save" PROVE SaveKept(q)'
        BY <2>2 DEF SaveKept
      <3>1. /\ Saving(q).op \in Ops /\ ~Done(Saving(q).op)
            /\ \A d \in Devices : Saving(q).op \notin OpsOf(queue[d])
        BY <2>1, QueueFacts DEF SaveKept
      <3>2. processed'[Saving(q).op] = NoProcessed
        BY <3>1 DEF Done
      <3>3. \A r \in Processes : pc'[r] = "save" => r # p /\ pc[r] = "save"
        BY <2>3
      <3>4. QED
        BY <1>2, <2>1, <2>2, <2>3, <3>2, <3>3 DEF SaveKept, Done
    <2>5. PushKept(q)' /\ ApplyKept(q)'
      BY <2>1, <2>2, QueueFacts DEF PushKept, ApplyKept
    <2>6. QED
      BY <2>1, <2>2, <2>4, <2>5
  <1>3. QED
    BY <1>1, <1>2

LEMMA SyncKept ==
  ASSUME KeptInv, NEW p \in Processes, Sync(p)
  PROVE  KeptInv'
  <1>1. BaseInv
    BY DEF KeptInv
  <1>2. /\ BaseInv' /\ UNCHANGED <<server, database, next, conflict, inbox, history>>
        /\ pc[p] = "idle" /\ pc'[p] = "push"
        /\ mem'[p].queue = queue[Dev(p)] /\ mem'[p].rev = lastRev[Dev(p)]
        /\ \A q \in Processes : q # p => pc'[q] = pc[q] /\ mem'[q] = mem[q]
    BY <1>1, SyncFacts
  <1>3. /\ queue' = queue /\ lastRev' = lastRev /\ used' = used /\ next' = next
        /\ conflict' = conflict /\ \A op \in Ops : Done(op)' <=> Done(op)
    BY <1>1, <1>2, ServerFrame DEF database, history
  <1>4. /\ QueueInv'
        /\ \A q \in Processes : q # p =>
             /\ pc'[q] = "idle" => next'[q] = 1
             /\ SaveKept(q)' /\ PushKept(q)' /\ ApplyKept(q)'
    BY <1>2, <1>3, OthersKept
  <1>5. next[p] = 1 /\ Dev(p) \in Devices /\ queue[Dev(p)] \in Seq(PendingOps)
    BY <1>2, QueueFacts DEF ProcessInv
  <1>6. \A k \in DOMAIN queue[Dev(p)] : ~(k < next[p])
    BY <1>5
  <1>7. SaveKept(p)' /\ PushKept(p)' /\ ApplyKept(p)' /\ pc'[p] # "idle"
    BY <1>2, <1>3, <1>6 DEF SaveKept, PushKept, ApplyKept
  <1>8. ProcessInv'
    BY <1>4, <1>7 DEF ProcessInv
  <1>9. QED
    BY <1>2, <1>4, <1>8 DEF KeptInv

LEMMA PushKeeps ==
  ASSUME KeptInv, NEW p \in Processes, PushOperation(p)
  PROVE  KeptInv'
  <1>1. BaseInv
    BY DEF KeptInv
  <1>2. PICK o : o = Queued(p)
    OBVIOUS
  <1>3. /\ BaseInv' /\ UNCHANGED <<database, pc, mem, inbox, history>>
        /\ pc[p] = "push" /\ next[p] \in DOMAIN mem[p].queue
        /\ next'[p] = next[p] + 1
        /\ Done(o.op) \/ conflict'[p] \/ processed'[o.op] # NoProcessed
        /\ conflict[p] => conflict'[p]
        /\ \A q \in Processes : q # p => next'[q] = next[q] /\ conflict'[q] = conflict[q]
        /\ \A op \in Ops : Done(op)' <=> Done(op) \/ (op = o.op /\ Done(op)')
    BY <1>1, <1>2, PushFacts
  <1>4. queue' = queue /\ lastRev' = lastRev /\ used' = used /\ pc' = pc /\ mem' = mem
    BY <1>3 DEF database, history
  <1>5. /\ mem[p].queue = queue[Dev(p)] /\ mem[p].rev = lastRev[Dev(p)]
        /\ ~conflict[p] =>
             \A k \in DOMAIN queue[Dev(p)] : k < next[p] => Done(queue[Dev(p)][k].op)
        /\ Dev(p) \in Devices
    BY <1>3, QueueFacts DEF ProcessInv, PushKept
  <1>6. o = queue[Dev(p)][next[p]] /\ o.op \in OpsOf(queue[Dev(p)]) /\ o.op \in Ops
    BY <1>2, <1>3, <1>5, QueueFacts DEF Queued
  <1>7. /\ QueueInv'
        /\ \A q \in Processes : q # p =>
             /\ pc'[q] = "idle" => next'[q] = 1
             /\ SaveKept(q)' /\ PushKept(q)' /\ ApplyKept(q)'
    <2>1. /\ \A op \in Ops : Done(op) => Done(op)'
          /\ \A op \in Ops : Done(op)' => Done(op) \/ \E d \in Devices : op \in OpsOf(queue[d])
      BY <1>3, <1>5, <1>6
    <2>2. QED
      BY <1>3, <1>4, <2>1, OthersKept
  <1>8. PushKept(p)'
    <2>1. ASSUME ~conflict'[p], NEW k \in DOMAIN queue[Dev(p)], k < next[p] + 1
          PROVE  processed'[queue[Dev(p)][k].op] # NoProcessed
      <3>1. queue[Dev(p)][k].op \in Ops /\ next[p] \in Nat /\ k \in Nat
        BY <1>5, QueueFacts
      <3>2. CASE k = next[p]
        BY <1>3, <1>6, <2>1, <3>2 DEF Done
      <3>3. CASE k < next[p]
        <4>1. Done(queue[Dev(p)][k].op)
          BY <1>3, <1>5, <2>1, <3>3
        <4>2. QED
          BY <1>3, <3>1, <4>1 DEF Done
      <3>4. QED
        BY <2>1, <3>1, <3>2, <3>3
    <2>2. QED
      BY <1>3, <1>4, <1>5, <2>1 DEF PushKept, Done
  <1>9. SaveKept(p)' /\ ApplyKept(p)' /\ pc'[p] # "idle"
    BY <1>3, <1>4 DEF SaveKept, ApplyKept
  <1>10. ProcessInv'
    BY <1>7, <1>8, <1>9 DEF ProcessInv
  <1>11. QED
    BY <1>3, <1>7, <1>10 DEF KeptInv

LEMMA AnswerKept ==
  ASSUME KeptInv, NEW p \in Processes, Answer(p)
  PROVE  KeptInv'
  <1>1. BaseInv
    BY DEF KeptInv
  <1>2. /\ BaseInv' /\ UNCHANGED <<server, database, next, conflict, history>>
        /\ pc[p] = "push" /\ pc'[p] = "apply" /\ next[p] \notin DOMAIN mem[p].queue
        /\ mem'[p].queue = IF conflict[p] THEN mem[p].queue ELSE <<>>
        /\ \A q \in Processes : q # p => pc'[q] = pc[q] /\ mem'[q] = mem[q]
    BY <1>1, AnswerFacts
  <1>3. /\ queue' = queue /\ lastRev' = lastRev /\ used' = used /\ next' = next
        /\ conflict' = conflict /\ \A op \in Ops : Done(op)' <=> Done(op)
    BY <1>1, <1>2, ServerFrame DEF database, history
  <1>4. /\ QueueInv'
        /\ \A q \in Processes : q # p =>
             /\ pc'[q] = "idle" => next'[q] = 1
             /\ SaveKept(q)' /\ PushKept(q)' /\ ApplyKept(q)'
    BY <1>2, <1>3, OthersKept
  <1>5. /\ mem[p].queue = queue[Dev(p)]
        /\ ~conflict[p] =>
             \A k \in DOMAIN queue[Dev(p)] : k < next[p] => Done(queue[Dev(p)][k].op)
        /\ Dev(p) \in Devices /\ queue[Dev(p)] \in Seq(PendingOps)
        /\ next[p] \in Nat /\ next[p] # 0
    BY <1>2, QueueFacts DEF ProcessInv, PushKept
  <1>6. \A k \in DOMAIN queue[Dev(p)] : k < next[p]
    BY <1>2, <1>5
  <1>7. ApplyKept(p)'
    BY <1>2, <1>3, <1>5, <1>6, QueueFacts DEF ApplyKept
  <1>8. SaveKept(p)' /\ PushKept(p)' /\ pc'[p] # "idle"
    BY <1>2 DEF SaveKept, PushKept
  <1>9. ProcessInv'
    BY <1>4, <1>7, <1>8 DEF ProcessInv
  <1>10. QED
    BY <1>2, <1>4, <1>9 DEF KeptInv

\* A step that touches neither queues nor the state of a command.
LEMMA QuietKept ==
  ASSUME KeptInv, BaseInv',
         UNCHANGED <<server, queue, lastRev, used, pc, mem, next, conflict>>
  PROVE  KeptInv'
  <1>1. BaseInv
    BY DEF KeptInv
  <1>2. \A op \in Ops : Done(op)' <=> Done(op)
    BY <1>1, ServerFrame
  <1>3. \A d \in Devices : OwnIds(queue[d])' /\ OpsOf(queue[d])' = OpsOf(queue[d])
    BY DEF KeptInv, QueueInv, OwnIds, OpsOf
  <1>4. QueueInv'
    BY <1>2, <1>3 DEF KeptInv, QueueInv
  <1>5. ASSUME NEW p \in Processes
        PROVE  /\ pc'[p] = "idle" => next'[p] = 1
               /\ SaveKept(p)' /\ PushKept(p)' /\ ApplyKept(p)'
    <2>1. SaveKept(p) /\ PushKept(p) /\ ApplyKept(p) /\ (pc[p] = "idle" => next[p] = 1)
      BY DEF KeptInv, ProcessInv
    <2>2. \A q \in Processes : Saving(q)' = Saving(q)
      BY DEF Saving
    <2>3. pc[p] = "save" => Saving(p).op \in Ops
      BY <2>1, QueueFacts DEF SaveKept
    <2>4. OwnIds(mem[p].queue)' <=> OwnIds(mem[p].queue)
      BY DEF OwnIds
    <2>5. processed' = processed
      BY DEF server
    <2>6. SaveKept(p)'
      BY <1>3, <2>1, <2>2, <2>3, <2>4, <2>5 DEF SaveKept, Done
    <2>7. PushKept(p)' /\ ApplyKept(p)'
      BY <1>2, <2>1, QueueFacts DEF PushKept, ApplyKept
    <2>8. QED
      BY <2>1, <2>6, <2>7
  <1>6. ProcessInv'
    BY <1>5 DEF ProcessInv
  <1>7. QED
    BY <1>4, <1>6 DEF KeptInv

LEMMA StopKept ==
  ASSUME KeptInv, NEW p \in Processes, RejectCall(p) \/ Fail(p)
  PROVE  KeptInv'
  <1>1. BaseInv
    BY DEF KeptInv
  <1>2. BaseInv' /\ End(p) /\ UNCHANGED <<server, database, history>>
    BY <1>1, StopFacts
  <1>3. /\ queue' = queue /\ lastRev' = lastRev /\ used' = used
        /\ \A op \in Ops : Done(op)' <=> Done(op)
    BY <1>1, <1>2, ServerFrame DEF database, history
  <1>4. /\ pc'[p] = "idle"
        /\ \A q \in Processes : q # p =>
             /\ pc'[q] = pc[q] /\ mem'[q] = mem[q] /\ next'[q] = next[q]
             /\ conflict'[q] = conflict[q]
    BY <1>1, <1>2, EndFacts
  <1>5. next'[p] = 1
    BY <1>1, <1>2 DEF End, BaseInv, TypeOK
  <1>6. /\ QueueInv'
        /\ \A q \in Processes : q # p =>
             /\ pc'[q] = "idle" => next'[q] = 1
             /\ SaveKept(q)' /\ PushKept(q)' /\ ApplyKept(q)'
    BY <1>3, <1>4, OthersKept
  <1>7. SaveKept(p)' /\ PushKept(p)' /\ ApplyKept(p)'
    BY <1>4 DEF SaveKept, PushKept, ApplyKept
  <1>8. ProcessInv'
    BY <1>5, <1>6, <1>7 DEF ProcessInv
  <1>9. QED
    BY <1>2, <1>6, <1>8 DEF KeptInv

\* SaveSync replaces the queue by one that is longer, the same, or empty because every
\* operation of the old one was applied.
LEMMA SaveKeeps ==
  ASSUME OneCommand, KeptInv, NEW p \in Processes, SaveSync(p)
  PROVE  /\ KeptInv'
         /\ \A op \in OpsOf(queue[Dev(p)]) :
              op \in OpsOf(queue'[Dev(p)]) \/ processed'[op] # NoProcessed
  <1>1. BaseInv
    BY DEF KeptInv
  <1> DEFINE d == Dev(p)
  <1>2. /\ BaseInv' /\ End(p) /\ UNCHANGED <<server, rows, used, base>>
        /\ pc[p] = "save" \/ (pc[p] = "apply" /\ inbox[p] = {})
        /\ queue'[d] = mem[p].queue /\ lastRev'[d] = mem[p].rev
        /\ \A c \in Devices : c # d => queue'[c] = queue[c] /\ lastRev'[c] = lastRev[c]
    BY <1>1, SaveFacts
  <1>3. /\ processed' = processed /\ used' = used
        /\ \A op \in Ops : Done(op)' <=> Done(op)
    BY <1>1, <1>2, ServerFrame
  <1>4. /\ pc'[p] = "idle"
        /\ \A q \in Processes : q # p =>
             /\ pc'[q] = pc[q] /\ mem'[q] = mem[q] /\ next'[q] = next[q]
             /\ conflict'[q] = conflict[q]
    BY <1>1, <1>2, EndFacts
  <1>5. next'[p] = 1
    BY <1>1, <1>2 DEF End, BaseInv, TypeOK
  <1>6. d \in Devices /\ queue[d] \in Seq(PendingOps)
    BY QueueFacts
  <1>7. \A q \in Processes : q # p => Dev(q) \in Devices /\ Dev(q) # d
    BY DevType DEF OneCommand
  <1> HIDE DEF d
  <1>8. ASSUME NEW q \in Processes, q # p
        PROVE  /\ pc'[q] = "idle" => next'[q] = 1
               /\ PushKept(q)' /\ ApplyKept(q)'
    <2>1. PushKept(q) /\ ApplyKept(q) /\ (pc[q] = "idle" => next[q] = 1)
      BY DEF KeptInv, ProcessInv
    <2>2. /\ pc'[q] = pc[q] /\ mem'[q] = mem[q] /\ next'[q] = next[q]
          /\ conflict'[q] = conflict[q] /\ Dev(q) \in Devices
          /\ queue'[Dev(q)] = queue[Dev(q)] /\ lastRev'[Dev(q)] = lastRev[Dev(q)]
      BY <1>2, <1>4, <1>7, <1>8
    <2>3. PushKept(q)'
      BY <1>3, <2>1, <2>2 DEF PushKept, Done
    <2>4. ApplyKept(q)'
      BY <1>3, <2>1, <2>2 DEF ApplyKept, Done
    <2>5. QED
      BY <2>1, <2>2, <2>3, <2>4
  <1>9. ASSUME OwnIds(queue'[d]), OpsOf(queue'[d]) \subseteq used,
               \A c \in Devices : \A k \in DOMAIN queue'[d], l \in DOMAIN queue'[c] :
                 queue'[d][k].op = queue'[c][l].op => c = d /\ k = l,
               \A q \in Processes : q # p /\ pc[q] = "save" =>
                 Saving(q).op \notin OpsOf(queue'[d])
        PROVE  KeptInv'
    <2>1. QueueInv'
      <3>1. \A c \in Devices : OwnIds(queue'[c]) /\ OpsOf(queue'[c]) \subseteq used'
        BY <1>2, <1>3, <1>9, QueueFacts DEF QueueInv
      <3>2. ASSUME NEW b \in Devices, NEW c \in Devices, NEW k \in DOMAIN queue'[b],
                   NEW l \in DOMAIN queue'[c], queue'[b][k].op = queue'[c][l].op
            PROVE  b = c /\ k = l
        <4>1. CASE b = d
          BY <1>9, <3>2, <4>1
        <4>2. CASE c = d
          BY <1>9, <3>2, <4>2
        <4>3. CASE b # d /\ c # d
          BY <1>2, <3>2, <4>3, QueueFacts DEF QueueInv
        <4>4. QED
          BY <4>1, <4>2, <4>3
      <3>3. \A op \in Ops : Done(op)' => op \in used'
        BY <1>3, QueueFacts DEF QueueInv
      <3>4. QED
        BY <3>1, <3>2, <3>3 DEF QueueInv, OwnIds, OpsOf
    <2>2. ASSUME NEW q \in Processes, q # p PROVE SaveKept(q)'
      <3> SUFFICES ASSUME pc[q] = "save" PROVE SaveKept(q)'
        BY <1>4, <2>2 DEF SaveKept
      <3>1. SaveKept(q) /\ mem'[q] = mem[q] /\ Dev(q) \in Devices
            /\ queue'[Dev(q)] = queue[Dev(q)] /\ lastRev'[Dev(q)] = lastRev[Dev(q)]
        BY <1>2, <1>4, <1>7, <2>2 DEF KeptInv, ProcessInv
      <3>2. \A r \in Processes : r # p => Saving(r)' = Saving(r) /\ pc'[r] = pc[r]
        BY <1>4 DEF Saving
      <3>3. \A c \in Devices : Saving(q).op \notin OpsOf(queue'[c])
        BY <1>2, <1>9, <2>2, <3>1 DEF SaveKept
      <3>4. \A r \in Processes : pc'[r] = "save" => r # p
        BY <1>4
      <3>5. QED
        BY <1>3, <2>2, <3>1, <3>2, <3>3, <3>4 DEF SaveKept, Done, OwnIds, OpsOf
    <2>3. SaveKept(p)' /\ PushKept(p)' /\ ApplyKept(p)'
      BY <1>4 DEF SaveKept, PushKept, ApplyKept
    <2>4. ProcessInv'
      BY <1>5, <1>8, <2>2, <2>3 DEF ProcessInv
    <2>5. QED
      BY <1>2, <2>1, <2>4 DEF KeptInv
  <1>10. CASE pc[p] = "save"
    <2>1. PICK o : o = Saving(p)
      OBVIOUS
    <2>2. /\ queue'[d] = Append(queue[d], o) /\ OwnIds(queue'[d]) /\ o \in PendingOps
          /\ o.op \in used
          /\ \A c \in Devices : o.op \notin OpsOf(queue[c])
          /\ \A q \in Processes : pc[q] = "save" /\ Saving(q).op = o.op => p = q
      BY <1>2, <1>10, <2>1, QueueFacts DEF ProcessInv, SaveKept, d
    <2>3. OpsOf(queue'[d]) = OpsOf(queue[d]) \cup {o.op}
      BY <1>6, <2>2, AppendFacts
    <2>4. OpsOf(queue'[d]) \subseteq used
      BY <1>6, <2>2, <2>3, QueueFacts
    <2>5. ASSUME NEW c \in Devices, NEW k \in DOMAIN queue'[d], NEW l \in DOMAIN queue'[c],
                 queue'[d][k].op = queue'[c][l].op
          PROVE  c = d /\ k = l
      <3>1. \/ k \in DOMAIN queue[d] /\ queue'[d][k] = queue[d][k]
            \/ k = Len(queue[d]) + 1 /\ queue'[d][k] = o
        BY <1>6, <2>2, AppendFacts
      <3>2. \/ l \in DOMAIN queue[c] /\ queue'[c][l] = queue[c][l]
            \/ c = d /\ l = Len(queue[d]) + 1 /\ queue'[c][l] = o
        BY <1>2, <1>6, <2>2, AppendFacts
      <3>3. \A b \in Devices : \A m \in DOMAIN queue[b] : queue[b][m].op # o.op
        BY <2>2, QueueFacts
      <3>4. QED
        BY <1>6, <2>5, <3>1, <3>2, <3>3, QueueFacts DEF QueueInv
    <2>6. \A q \in Processes : q # p /\ pc[q] = "save" => Saving(q).op \notin OpsOf(queue'[d])
      BY <1>6, <2>2, <2>3, QueueFacts DEF ProcessInv, SaveKept
    <2>7. KeptInv'
      BY <1>9, <2>2, <2>4, <2>5, <2>6
    <2>8. QED
      BY <2>3, <2>7 DEF d
  <1>11. CASE pc[p] = "apply" /\ queue'[d] = queue[d]
    <2>1. \A c \in Devices : queue'[c] = queue[c]
      BY <1>2, <1>11
    <2>2. KeptInv'
      BY <1>6, <1>9, <1>11, <2>1, QueueFacts DEF QueueInv, ProcessInv, SaveKept
    <2>3. QED
      BY <1>11, <2>2 DEF d
  <1>12. CASE /\ pc[p] = "apply" /\ queue'[d] = <<>>
              /\ \A k \in DOMAIN queue[d] : Done(queue[d][k].op)
    <2>1. DOMAIN queue'[d] = {}
      BY <1>12
    <2>2. OwnIds(queue'[d]) /\ OpsOf(queue'[d]) = {}
      BY <2>1 DEF OwnIds, OpsOf
    <2>3. KeptInv'
      BY <1>9, <2>1, <2>2
    <2>4. \A op \in OpsOf(queue[d]) : processed'[op] # NoProcessed
      BY <1>3, <1>12 DEF OpsOf, Done
    <2>5. QED
      BY <2>3, <2>4 DEF d
  <1>13. pc[p] = "apply" => \/ queue'[d] = queue[d]
                            \/ /\ queue'[d] = <<>>
                               /\ \A k \in DOMAIN queue[d] : Done(queue[d][k].op)
    BY <1>2, QueueFacts DEF ProcessInv, ApplyKept, d
  <1>14. QED
    BY <1>2, <1>10, <1>11, <1>12, <1>13

LEMMA InitKeptInv == Init => KeptInv
  <1> SUFFICES ASSUME Init PROVE KeptInv
    OBVIOUS
  <1>1. BaseInv
    BY InitBaseInv
  <1>2. /\ \A op \in Ops : ~Done(op)
        /\ \A p \in Processes : pc[p] = "idle" /\ next[p] = 1
        /\ \A d \in Devices : queue[d] = <<>>
    BY DEF Init, TablesInit, Done
  <1>3. \A d \in Devices : DOMAIN queue[d] = {}
    BY <1>2
  <1>4. QueueInv
    BY <1>2, <1>3 DEF QueueInv, OwnIds, OpsOf
  <1>5. ProcessInv
    BY <1>2 DEF ProcessInv, SaveKept, PushKept, ApplyKept
  <1>6. QED
    BY <1>1, <1>4, <1>5 DEF KeptInv

\* Any step keeps KeptInv, and an operation leaves a queue only once it is applied.
LEMMA NextKeptInv ==
  ASSUME OneCommand, KeptInv, [Next]_vars
  PROVE  /\ KeptInv'
         /\ \A d \in Devices : \A op \in OpsOf(queue[d]) \ OpsOf(queue'[d]) :
              processed'[op] # NoProcessed
  <1>1. BaseInv
    BY DEF KeptInv
  <1>2. ASSUME queue' = queue
        PROVE  \A d \in Devices : OpsOf(queue[d]) \ OpsOf(queue'[d]) = {}
    BY <1>2
  <1>3. ASSUME NEW p \in Processes, AddItem(p) \/ UpdateItem(p) \/ DeleteItem(p)
        PROVE  KeptInv' /\ queue' = queue
    BY <1>3, EditKept DEF AddItem, UpdateItem, DeleteItem, Edit
  <1>4. ASSUME NEW p \in Processes, Sync(p) \/ Answer(p) \/ PushOperation(p)
                                     \/ RejectCall(p) \/ Fail(p)
        PROVE  KeptInv' /\ queue' = queue
    BY <1>4, SyncKept, AnswerKept, PushKeeps, StopKept
       DEF Sync, Answer, PushOperation, RejectCall, Fail, database
  <1>5. ASSUME NEW p \in Processes, applyEvent(p)
        PROVE  KeptInv' /\ queue' = queue
    <2>1. BaseInv'
      BY <1>1, <1>5, ApplyFacts DEF applyEvent
    <2>2. UNCHANGED <<server, queue, lastRev, used, pc, mem, next, conflict>>
      BY <1>5 DEF applyEvent
    <2>3. QED
      BY <2>1, <2>2, QuietKept
  <1>6. CASE UNCHANGED vars
    <2>1. BaseInv'
      BY <1>1, <1>6, NextBaseInv
    <2>2. UNCHANGED <<server, queue, lastRev, used, pc, mem, next, conflict>>
      BY <1>6 DEF vars, database, process, history
    <2>3. KeptInv' /\ queue' = queue
      BY <2>1, <2>2, QuietKept
    <2>4. QED
      BY <1>2, <2>3
  <1>7. ASSUME NEW p \in Processes, SaveSync(p)
        PROVE  /\ KeptInv'
               /\ \A d \in Devices : \A op \in OpsOf(queue[d]) \ OpsOf(queue'[d]) :
                    processed'[op] # NoProcessed
    <2>1. /\ KeptInv'
          /\ \A op \in OpsOf(queue[Dev(p)]) :
               op \in OpsOf(queue'[Dev(p)]) \/ processed'[op] # NoProcessed
      BY <1>7, SaveKeeps
    <2>2. \A d \in Devices : d # Dev(p) => queue'[d] = queue[d]
      BY <1>1, <1>7, SaveFacts
    <2>3. QED
      BY <2>1, <2>2
  <1>8. QED
    BY <1>2, <1>3, <1>4, <1>5, <1>6, <1>7 DEF Next, Step

\* If the commands of one device do not overlap, the SyncState a command holds is the
\* saved one, with the operation it adds or without those that were applied.
THEOREM KeptInvariant == ASSUME OneCommand PROVE Spec => []KeptInv
  BY InitKeptInv, NextKeptInv, PTL DEF Spec

\* If the commands of one device do not overlap, an operation that was saved as pending
\* leaves the queue only once the server has applied it: wherever AddItem, a Sync or
\* SaveSync fails, and however many devices push at the same time.
THEOREM QueuedIsNotLost == ASSUME OneCommand PROVE Spec => NoOperationLost
  <1>1. KeptInv /\ [Next]_vars =>
          [\A d \in Devices : \A op \in OpsOf(queue[d]) \ OpsOf(queue'[d]) :
             processed'[op] # NoProcessed]_vars
    BY NextKeptInv
  <1>2. QED
    BY <1>1, KeptInvariant, PTL DEF Spec, NoOperationLost

-----------------------------------------------------------------------------
(***************************************************************************)
(* And an answer holds the whole log.                                      *)
(***************************************************************************)
LEMMA AgreeFacts ==
  ASSUME AgreeInv
  PROVE  /\ KeptInv /\ BaseInv /\ CopyInv /\ InboxInv
         /\ seq \in Nat /\ \A d \in Devices : lastRev[d] \in 0..seq /\ lastRev[d] \in Nat
         /\ \A p \in Processes : /\ mem[p].rev \in 0..seq /\ mem[p].rev \in Nat
                                 /\ inbox[p] \subseteq Events
         /\ \A i \in Items : i \in Ids
  <1>1. KeptInv /\ BaseInv /\ CopyInv /\ InboxInv
    BY DEF AgreeInv, KeptInv
  <1>2. seq \in Nat
    BY <1>1, ServerFacts
  <1>3. \A d \in Devices : lastRev[d] \in 0..seq
    BY <1>1 DEF BaseInv, TypeOK
  <1>4. \A p \in Processes : inbox[p] \subseteq Events
    BY <1>1 DEF BaseInv, TypeOK
  <1>5. \A p \in Processes : mem[p] \in [queue : Seq(PendingOps), rev : 0..seq]
    BY <1>1 DEF BaseInv, TypeOK
  <1>6. \A p \in Processes : mem[p].rev \in 0..seq
    BY <1>5
  <1>7. \A n \in 0..seq : n \in Nat
    BY <1>2
  <1>8. \A i \in Items : i \in Ids
    BY DEF Ids
  <1>9. QED
    BY <1>1, <1>2, <1>3, <1>4, <1>6, <1>7, <1>8

\* Steps that change neither the server nor a saved queue or revision, and bring no
\* events.
LEMMA QuietAgree ==
  ASSUME AgreeInv, KeptInv', UNCHANGED <<server, queue, lastRev>>,
         \A d \in Devices : \A i \in Items :
           i \in torn'[d] \/ (rows'[d][i] = rows[d][i] /\ (i \in torn[d] => i \in torn'[d])),
         \A q \in Processes :
           /\ inbox'[q] = inbox[q] \/ inbox'[q] = {}
           /\ pc'[q] = "apply" => pc[q] = "apply" /\ mem'[q] = mem[q] /\ inbox'[q] = inbox[q]
  PROVE  AgreeInv'
  <1>1. /\ log' = log /\ processed' = processed /\ \A i \in Items : View(i)' = View(i)
    BY AgreeFacts, ServerFrame
  <1>2. ASSUME NEW d \in Devices, NEW i \in Items, Covered(d, i) PROVE Covered(d, i)'
    BY <1>1, <1>2 DEF Covered, Done
  <1>3. CopyInv'
    BY <1>1, <1>2, AgreeFacts DEF CopyInv, Changed
  <1>4. ASSUME NEW q \in Processes
        PROVE  /\ \A e, f \in inbox'[q] : e.rev = f.rev => e = f
               /\ \A e \in inbox'[q] : Changed(e.item, lastRev'[Dev(q)])
    BY AgreeFacts DEF InboxInv
  <1>5. ASSUME NEW q \in Processes, pc'[q] = "apply", NEW i \in Items,
               ~Changed(i, mem[q].rev)
        PROVE  IF \E e \in inbox'[q] : e.item = i THEN Coming(q, i)' ELSE Covered(Dev(q), i)'
    <2>1. IF \E e \in inbox[q] : e.item = i THEN Coming(q, i) ELSE Covered(Dev(q), i)
      BY <1>5, AgreeFacts DEF InboxInv
    <2>2. Coming(q, i) => Coming(q, i)'
      BY <1>1, <1>5 DEF Coming
    <2>3. Covered(Dev(q), i) => Covered(Dev(q), i)'
      BY <1>2, DevType
    <2>4. QED
      BY <1>5, <2>1, <2>2, <2>3
  <1>6. InboxInv'
    BY <1>1, <1>4, <1>5 DEF InboxInv, Changed
  <1>7. QED
    BY <1>3, <1>6 DEF AgreeInv

\* One operation of a queue: what changes is in the log, later than all a device has
\* heard of.
LEMMA PushAgree ==
  ASSUME AgreeInv, KeptInv', NEW p \in Processes, PushOperation(p)
  PROVE  AgreeInv'
  <1> DEFINE New(i) == \E e \in log' : e.item = i /\ e.rev > seq
  <1>1. PICK o : o = Queued(p)
    OBVIOUS
  <1>2. /\ UNCHANGED <<database, pc, mem, inbox, history>>
        /\ pc[p] = "push" /\ next[p] \in DOMAIN mem[p].queue
        /\ log \subseteq log'
        /\ \A op \in Ops : Done(op)' <=> Done(op) \/ (op = o.op /\ Done(op)')
        /\ \A i \in Items : View(i)' = View(i) \/ New(i)
        /\ \A i \in Items : (/\ o.id = i /\ o.kind # "create"
                             /\ ~Done(o.op) /\ processed'[o.op] # NoProcessed) => New(i)
    BY <1>1, AgreeFacts, PushFacts
  <1>3. /\ queue' = queue /\ lastRev' = lastRev /\ rows' = rows /\ torn' = torn
        /\ pc' = pc /\ mem' = mem /\ inbox' = inbox
    BY <1>2 DEF database, history
  <1>4. \A e \in log' : e.rev \in Nat
    <2>1. TablesTypeOK'
      BY DEF KeptInv, BaseInv, TypeOK
    <2>2. QED
      BY <2>1 DEF TablesTypeOK, LogRows
  <1>5. \A i \in Items : \A n \in 0..seq : New(i) => \E e \in log' : e.item = i /\ e.rev > n
    BY <1>4, AgreeFacts
  <1>6. /\ o = queue[Dev(p)][next[p]] /\ next[p] \in DOMAIN queue[Dev(p)]
        /\ Dev(p) \in Devices
    <2>1. mem[p].queue = queue[Dev(p)]
      BY <1>2, AgreeFacts, QueueFacts DEF ProcessInv, PushKept
    <2>2. QED
      BY <1>1, <1>2, <2>1, DevType DEF Queued
  <1>7. ASSUME NEW d \in Devices, NEW i \in Items, Covered(d, i), ~New(i)
        PROVE  Covered(d, i)'
    <2>1. CASE i \in torn[d] \/ rows[d][i] = View(i)
      BY <1>2, <1>3, <1>7, <2>1 DEF Covered
    <2>2. CASE \E k \in DOMAIN queue[d] : queue[d][k].id = i /\ ~Done(queue[d][k].op)
      <3>1. PICK k \in DOMAIN queue[d] : queue[d][k].id = i /\ ~Done(queue[d][k].op)
        BY <2>2
      <3>2. queue[d][k].op \in Ops
        BY AgreeFacts, QueueFacts
      <3>3. ASSUME processed'[queue[d][k].op] # NoProcessed PROVE FALSE
        <4>1. queue[d][k].op = o.op
          BY <1>2, <3>1, <3>2, <3>3 DEF Done
        <4>2. d = Dev(p) /\ k = next[p]
          BY <1>6, <4>1, AgreeFacts, QueueFacts DEF QueueInv
        <4>3. o = queue[d][k] /\ o.kind # "create"
          BY <1>6, <3>1, <4>2, AgreeFacts, QueueFacts DEF QueueInv, OwnIds
        <4>4. QED
          BY <1>2, <1>7, <3>1, <3>3, <4>3
      <3>4. QED
        BY <1>3, <3>1, <3>3 DEF Covered, Done
    <2>3. QED
      BY <1>7, <2>1, <2>2 DEF Covered
  <1>8. ASSUME NEW q \in Processes, NEW i \in Items, Coming(q, i), ~New(i)
        PROVE  Coming(q, i)'
    BY <1>2, <1>3, <1>8 DEF Coming
  <1>9. CopyInv'
    <2> SUFFICES ASSUME NEW d \in Devices, NEW i \in Items
                 PROVE  (\E e \in log' : e.item = i /\ e.rev > lastRev[d]) \/ Covered(d, i)'
      BY <1>3 DEF CopyInv, Changed
    <2>1. CASE New(i)
      BY <1>5, <2>1, AgreeFacts
    <2>2. CASE Changed(i, lastRev[d])
      BY <1>2, <2>2 DEF Changed
    <2>3. CASE Covered(d, i) /\ ~New(i)
      BY <1>7, <2>3
    <2>4. QED
      BY <2>1, <2>2, <2>3, AgreeFacts DEF CopyInv
  <1>10. InboxInv'
    <2> SUFFICES ASSUME NEW q \in Processes
                 PROVE  /\ \A e, f \in inbox[q] : e.rev = f.rev => e = f
                        /\ \A e \in inbox[q] :
                             \E f \in log' : f.item = e.item /\ f.rev > lastRev[Dev(q)]
                        /\ pc[q] = "apply" =>
                             \A i \in Items :
                               \/ \E f \in log' : f.item = i /\ f.rev > mem[q].rev
                               \/ IF \E e \in inbox[q] : e.item = i THEN Coming(q, i)'
                                  ELSE Covered(Dev(q), i)'
      BY <1>3 DEF InboxInv, Changed
    <2>1. /\ \A e, f \in inbox[q] : e.rev = f.rev => e = f
          /\ \A e \in inbox[q] : \E f \in log' : f.item = e.item /\ f.rev > lastRev[Dev(q)]
      BY <1>2, AgreeFacts DEF InboxInv, Changed
    <2>2. ASSUME pc[q] = "apply", NEW i \in Items,
                 ~\E f \in log' : f.item = i /\ f.rev > mem[q].rev
          PROVE  IF \E e \in inbox[q] : e.item = i THEN Coming(q, i)' ELSE Covered(Dev(q), i)'
      <3>1. ~New(i) /\ ~Changed(i, mem[q].rev)
        BY <1>2, <1>5, <2>2, AgreeFacts DEF Changed
      <3>2. IF \E e \in inbox[q] : e.item = i THEN Coming(q, i) ELSE Covered(Dev(q), i)
        BY <2>2, <3>1, AgreeFacts DEF InboxInv
      <3>3. QED
        BY <1>7, <1>8, <3>1, <3>2, DevType
    <2>3. QED
      BY <2>1, <2>2
  <1>11. QED
    BY <1>9, <1>10 DEF AgreeInv

LEMMA EditAgree ==
  ASSUME AgreeInv, KeptInv', NEW p \in Processes,
         AddItem(p) \/ UpdateItem(p) \/ DeleteItem(p)
  PROVE  AgreeInv'
  <1>1. PICK op \in Ops, kind \in Kinds, i \in Ids, exp \in Nat, row \in ItemRows :
          Edit(p, op, kind, i, exp, row)
    BY AgreeFacts, EditCases
  <1>2. PICK o : o = [op |-> op, kind |-> kind, id |-> i, exp |-> exp]
    OBVIOUS
  <1>3. /\ UNCHANGED <<server, queue, lastRev, inbox>>
        /\ pc'[p] = "save"
        /\ \A q \in Processes : q # p => pc'[q] = pc[q] /\ mem'[q] = mem[q]
        /\ torn'[Dev(p)] = torn[Dev(p)] \cup {i}
        /\ \A d \in Devices : d # Dev(p) => torn'[d] = torn[d]
        /\ \A d \in Devices : \A j \in Ids :
             d # Dev(p) \/ j # i => rows'[d][j] = rows[d][j]
    BY <1>1, <1>2, AgreeFacts, EditFacts
  <1>4. \A d \in Devices : \A j \in Items :
          j \in torn'[d] \/ (rows'[d][j] = rows[d][j] /\ (j \in torn[d] => j \in torn'[d]))
    BY <1>3, AgreeFacts
  <1>5. \A q \in Processes : pc'[q] = "apply" => pc[q] = "apply" /\ mem'[q] = mem[q]
    BY <1>3
  <1>6. QED
    BY <1>3, <1>4, <1>5, QuietAgree

LEMMA SyncAgree ==
  ASSUME AgreeInv, KeptInv', NEW p \in Processes, Sync(p)
  PROVE  AgreeInv'
  <1>1. /\ UNCHANGED <<server, queue, lastRev, rows, torn, inbox>>
        /\ pc'[p] = "push"
        /\ \A q \in Processes : q # p => pc'[q] = pc[q] /\ mem'[q] = mem[q]
    BY AgreeFacts, SyncFacts DEF database, history
  <1>2. \A q \in Processes : pc'[q] = "apply" => pc[q] = "apply" /\ mem'[q] = mem[q]
    BY <1>1
  <1>3. QED
    BY <1>1, <1>2, QuietAgree

LEMMA StopAgree ==
  ASSUME AgreeInv, KeptInv', NEW p \in Processes, RejectCall(p) \/ Fail(p)
  PROVE  AgreeInv'
  <1>1. End(p) /\ UNCHANGED <<server, queue, lastRev, rows, torn>>
    BY AgreeFacts, StopFacts DEF database, history
  <1>2. /\ pc'[p] = "idle" /\ inbox'[p] = {}
        /\ \A q \in Processes : q # p =>
             pc'[q] = pc[q] /\ mem'[q] = mem[q] /\ inbox'[q] = inbox[q]
    BY <1>1, AgreeFacts, EndFacts
  <1>3. \A q \in Processes :
          /\ inbox'[q] = inbox[q] \/ inbox'[q] = {}
          /\ pc'[q] = "apply" => pc[q] = "apply" /\ mem'[q] = mem[q] /\ inbox'[q] = inbox[q]
    BY <1>2
  <1>4. QED
    BY <1>1, <1>3, QuietAgree

-----------------------------------------------------------------------------
(***************************************************************************)
(* The answer of a Sync.                                                   *)
(***************************************************************************)

\* The log has a row for each operation at most, so an answer has room for it.
LEMMA WholeLog ==
  ASSUME BundleHoldsLog, BaseInv, NEW n \in Nat
  PROVE  FirstRows(After(n), Bundle) = After(n)
  <1> DEFINE op == [e \in log |-> e.op]
             s == After(n)
             key == [e \in s |-> e.rev]
  <1>1. op \in Injection(log, Ops)
    <2>1. \A e, f \in log : e.op = f.op => e = f
      BY DEF BaseInv, ServerInv
    <2>2. op \in [log -> Ops]
      BY ServerFacts
    <2>3. QED
      BY <2>1, <2>2 DEF Injection, IsInjective
  <1>2. IsFiniteSet(log) /\ Cardinality(log) <= Cardinality(Ops)
    BY <1>1, FS_Injection DEF BundleHoldsLog
  <1>3. s \in SUBSET log
    BY DEF After
  <1>4. IsFiniteSet(s) /\ Cardinality(s) <= Cardinality(log)
    BY <1>2, <1>3, FS_Subset
  <1>5. /\ Cardinality(s) \in Nat /\ Cardinality(log) \in Nat /\ Cardinality(Ops) \in Nat
        /\ Bundle \in Nat
    BY <1>2, <1>4, FS_CardinalityType, ClientAssumption DEF BundleHoldsLog
  <1>6. Cardinality(s) <= Bundle
    BY <1>2, <1>4, <1>5 DEF BundleHoldsLog
  <1>7. key \in [s -> Nat]
    BY <1>3, ServerFacts
  <1>8. FirstRows(s, Bundle) = First(s, key, Bundle)
    <2>1. ASSUME NEW e \in s PROVE {f \in s : f.rev < e.rev} = Lower(s, key, e)
      BY DEF Lower
    <2>2. QED
      BY <2>1 DEF FirstRows, First
  <1>9. QED
    <2> HIDE DEF key, s
    <2>1. First(s, key, Bundle) = s
      BY <1>4, <1>5, <1>6, <1>7, FirstIsAll
    <2>2. QED
      BY <1>8, <2>1 DEF s

\* The client keeps the last event of an item as it is.
LEMMA LastEvent ==
  ASSUME BaseInv, NEW e \in log, \A f \in log : f.item = e.item => f.rev <= e.rev
  PROVE  EventRow(e) = View(e.item)
  <1>1. items[e.item] \in ItemRows
    BY ServerFacts
  <1>2. items[e.item].deleted <=> e.type = "delete"
    BY DEF BaseInv, ServerInv
  <1>3. ASSUME NEW r \in ItemRows, ~r.deleted PROVE [r EXCEPT !.deleted = FALSE] = r
    BY <1>3 DEF ItemRows
  <1>4. QED
    BY <1>1, <1>2, <1>3 DEF EventRow, View

LEMMA AnswerAgree ==
  ASSUME BundleHoldsLog, AgreeInv, KeptInv', NEW p \in Processes, Answer(p)
  PROVE  AgreeInv'
  <1> DEFINE n == lastRev[Dev(p)]
             Event(e) == [rev |-> e.rev, item |-> e.item, row |-> EventRow(e)]
  <1>1. /\ UNCHANGED <<server, queue, lastRev, rows, torn>>
        /\ pc[p] = "push"
        /\ mem'[p].rev = UserMaxRevision
        /\ inbox'[p] = {Event(e) : e \in FirstRows(After(mem[p].rev), Bundle)}
        /\ \A q \in Processes :
             q # p => pc'[q] = pc[q] /\ mem'[q] = mem[q] /\ inbox'[q] = inbox[q]
    BY AgreeFacts, AnswerFacts DEF database, history
  <1>2. mem[p].rev = n /\ n \in Nat
    BY <1>1, AgreeFacts, QueueFacts, DevType DEF ProcessInv, PushKept
  <1>3. inbox'[p] = {Event(e) : e \in After(n)}
    BY <1>1, <1>2, AgreeFacts, WholeLog
  <1>4. log' = log /\ processed' = processed /\ \A i \in Items : View(i)' = View(i)
    BY <1>1, AgreeFacts, ServerFrame
  <1>5. \A d \in Devices : \A i \in Items : Covered(d, i) => Covered(d, i)'
    BY <1>1, <1>4 DEF Covered, Done
  <1>6. CopyInv'
    BY <1>1, <1>4, <1>5, AgreeFacts DEF CopyInv, Changed
  <1>7. ASSUME NEW x \in inbox'[p]
        PROVE  \E e \in log : /\ e.rev > n /\ x.rev = e.rev /\ x.item = e.item
                              /\ x.row = EventRow(e) /\ x = Event(e)
    BY <1>3 DEF After
  <1>8. /\ \A x, y \in inbox'[p] : x.rev = y.rev => x = y
        /\ \A x \in inbox'[p] : \E e \in log : e.item = x.item /\ e.rev > n
    <2>1. \A e, f \in log : e.rev = f.rev => e = f
      BY AgreeFacts DEF BaseInv, ServerInv
    <2>2. ASSUME NEW x \in inbox'[p], NEW y \in inbox'[p], x.rev = y.rev PROVE x = y
      <3>1. PICK e \in log : x.rev = e.rev /\ x = Event(e)
        BY <1>7
      <3>2. PICK f \in log : y.rev = f.rev /\ y = Event(f)
        BY <1>7
      <3>3. e = f
        BY <2>1, <2>2, <3>1, <3>2
      <3>4. QED
        BY <3>1, <3>2, <3>3
    <2>3. QED
      BY <1>7, <2>2
  <1>9. ASSUME NEW i \in Items, NEW x \in inbox'[p], x.item = i
        PROVE  \E y \in inbox'[p] : /\ y.item = i /\ y.row = View(i)
                                    /\ \A z \in inbox'[p] : z.item = i => z.rev <= y.rev
    <2> DEFINE s == {e \in log : e.item = i}
    <2>1. PICK e \in log : e.rev > n /\ e.item = i
      BY <1>7, <1>9
    <2>2. s \in SUBSET log /\ s # {}
      BY <2>1
    <2>3. PICK g : g = Latest(s)
      OBVIOUS
    <2>4. g \in s /\ \A f \in s : f.rev <= g.rev
      <3> HIDE DEF s
      <3>1. QED
        BY <2>2, <2>3, AgreeFacts, LatestRow
    <2>5. g \in log /\ g.item = i /\ \A f \in log : f.item = i => f.rev <= g.rev
      BY <2>4
    <2>6. g.rev > n
      <3>1. e.rev \in Nat /\ g.rev \in Nat /\ e.rev <= g.rev
        BY <2>1, <2>5, AgreeFacts, ServerFacts
      <3>2. QED
        BY <1>2, <2>1, <3>1
    <2>7. EventRow(g) = View(i)
      BY <2>5, AgreeFacts, LastEvent
    <2>8. Event(g) \in inbox'[p]
      BY <1>3, <2>5, <2>6 DEF After
    <2>9. \A z \in inbox'[p] : z.item = i => z.rev <= g.rev
      BY <1>7, <2>5
    <2>10. Event(g).item = i /\ Event(g).rev = g.rev /\ Event(g).row = View(i)
      BY <2>5, <2>7
    <2> HIDE DEF Event
    <2>11. QED
      BY <2>8, <2>9, <2>10
  <1>10. ASSUME NEW i \in Items, ~\E x \in inbox'[p] : x.item = i
         PROVE  Covered(Dev(p), i)'
    <2>1. ASSUME NEW e \in log, e.item = i, e.rev > n PROVE FALSE
      <3>1. Event(e) \in inbox'[p] /\ Event(e).item = i
        BY <1>3, <2>1 DEF After
      <3>2. QED
        BY <1>10, <3>1
    <2>2. ~Changed(i, n)
      BY <2>1 DEF Changed
    <2>3. QED
      BY <1>5, <2>2, AgreeFacts, DevType DEF CopyInv
  <1> HIDE DEF Event
  <1>11. ASSUME NEW q \in Processes, q # p
         PROVE  /\ \A e, f \in inbox'[q] : e.rev = f.rev => e = f
                /\ \A e \in inbox'[q] :
                     \E f \in log' : f.item = e.item /\ f.rev > lastRev'[Dev(q)]
                /\ pc'[q] = "apply" =>
                     \A i \in Items :
                       \/ \E f \in log' : f.item = i /\ f.rev > mem'[q].rev
                       \/ IF \E e \in inbox'[q] : e.item = i THEN Coming(q, i)'
                          ELSE Covered(Dev(q), i)'
    <2>1. inbox'[q] = inbox[q] /\ pc'[q] = pc[q] /\ mem'[q] = mem[q] /\ lastRev' = lastRev
      BY <1>1, <1>11
    <2>2. \A i \in Items : Coming(q, i) => Coming(q, i)'
      BY <1>4, <2>1 DEF Coming
    <2>3. \A i \in Items : Covered(Dev(q), i) => Covered(Dev(q), i)'
      BY <1>5, DevType
    <2>4. QED
      BY <1>4, <2>1, <2>2, <2>3, AgreeFacts DEF InboxInv, Changed
  <1>12. /\ \A e \in inbox'[p] : \E f \in log' : f.item = e.item /\ f.rev > lastRev'[Dev(p)]
         /\ \A i \in Items : IF \E e \in inbox'[p] : e.item = i THEN Coming(p, i)'
                             ELSE Covered(Dev(p), i)'
    <2>1. \A e \in inbox'[p] : \E f \in log' : f.item = e.item /\ f.rev > lastRev'[Dev(p)]
      BY <1>1, <1>4, <1>8
    <2>2. ASSUME NEW i \in Items, \E e \in inbox'[p] : e.item = i PROVE Coming(p, i)'
      BY <1>4, <1>9, <2>2 DEF Coming
    <2>3. QED
      BY <1>10, <2>1, <2>2
  <1>13. InboxInv'
    BY <1>8, <1>11, <1>12 DEF InboxInv, Changed
  <1>14. QED
    BY <1>6, <1>13 DEF AgreeInv

-----------------------------------------------------------------------------
(***************************************************************************)
(* What the client does with the answer.                                   *)
(***************************************************************************)

\* One event is applied: an item that is not yet up to date has a later event, which
\* stays in the inbox.
LEMMA ApplyAgree ==
  ASSUME OneCommand, AgreeInv, KeptInv', NEW p \in Processes, applyEvent(p)
  PROVE  AgreeInv'
  <1>1. PICK e \in inbox[p] :
          /\ \A f \in inbox[p] : e.rev <= f.rev
          /\ rows' = [rows EXCEPT ![Dev(p)][e.item] = e.row]
          /\ torn' = [torn EXCEPT ![Dev(p)] = @ \ {e.item}]
          /\ inbox' = [inbox EXCEPT ![p] = @ \ {e}]
    BY DEF applyEvent
  <1>2. /\ pc[p] = "apply"
        /\ UNCHANGED <<server, queue, lastRev, pc, mem, next, conflict, used, base>>
    BY DEF applyEvent
  <1>3. /\ e.item \in Items /\ e.rev \in Nat
        /\ inbox'[p] = inbox[p] \ {e} /\ \A q \in Processes : q # p => inbox'[q] = inbox[q]
        /\ rows'[Dev(p)][e.item] = e.row
        /\ torn'[Dev(p)] = torn[Dev(p)] \ {e.item}
        /\ \A d \in Devices : d # Dev(p) => torn'[d] = torn[d]
        /\ \A d \in Devices : \A j \in Ids :
             d # Dev(p) \/ j # e.item => rows'[d][j] = rows[d][j]
    <2>1. BaseInv
      BY AgreeFacts
    <2>2. QED
      BY <1>1, <1>2, <2>1, ApplyFacts
  <1>4. log' = log /\ processed' = processed /\ \A i \in Items : View(i)' = View(i)
    BY <1>2, AgreeFacts, ServerFrame
  <1>5. /\ Dev(p) \in Devices
        /\ \A q \in Processes : q # p => Dev(q) # Dev(p) /\ Dev(q) \in Devices
    BY DevType DEF OneCommand
  <1>6. ASSUME NEW d \in Devices, NEW i \in Items, Covered(d, i),
               d # Dev(p) \/ i # e.item
        PROVE  Covered(d, i)'
    <2>1. rows'[d][i] = rows[d][i] /\ (i \in torn[d] => i \in torn'[d])
      BY <1>3, <1>6, AgreeFacts
    <2>2. QED
      BY <1>2, <1>4, <1>6, <2>1 DEF Covered, Done
  <1>7. CopyInv'
    <2> SUFFICES ASSUME NEW d \in Devices, NEW i \in Items
                 PROVE  Changed(i, lastRev[d]) \/ Covered(d, i)'
      BY <1>2, <1>4 DEF CopyInv, Changed
    <2>1. CASE d = Dev(p) /\ i = e.item
      BY <2>1, AgreeFacts DEF InboxInv
    <2>2. QED
      BY <1>6, <2>1, AgreeFacts DEF CopyInv
  <1>8. ASSUME NEW i \in Items, ~Changed(i, mem[p].rev)
        PROVE  IF \E f \in inbox'[p] : f.item = i THEN Coming(p, i)' ELSE Covered(Dev(p), i)'
    <2>1. IF \E f \in inbox[p] : f.item = i THEN Coming(p, i) ELSE Covered(Dev(p), i)
      BY <1>2, <1>8, AgreeFacts DEF InboxInv
    <2>2. CASE ~\E f \in inbox[p] : f.item = i
      BY <1>3, <1>5, <1>6, <2>1, <2>2
    <2>3. CASE \E f \in inbox[p] : f.item = i
      <3>1. PICK w \in inbox[p] : /\ w.item = i /\ w.row = View(i)
                                  /\ \A f \in inbox[p] : f.item = i => f.rev <= w.rev
        BY <2>1, <2>3 DEF Coming
      <3>2. CASE w # e
        BY <1>3, <1>4, <3>1, <3>2 DEF Coming
      <3>3. CASE w = e
        <4>1. ASSUME NEW f \in inbox[p], f.item = i PROVE f = e
          <5>1. f.rev \in Nat /\ e.rev <= f.rev /\ f.rev <= e.rev
            BY <1>1, <3>1, <3>3, <4>1, AgreeFacts DEF Events
          <5>2. f.rev = e.rev
            BY <1>3, <5>1
          <5>3. QED
            BY <5>2, AgreeFacts DEF InboxInv
        <4>2. ~\E f \in inbox'[p] : f.item = i
          BY <1>3, <4>1
        <4>3. Covered(Dev(p), i)'
          BY <1>3, <1>4, <3>1, <3>3 DEF Covered
        <4>4. QED
          BY <4>2, <4>3
      <3>4. QED
        BY <3>2, <3>3
    <2>4. QED
      BY <2>2, <2>3
  <1>9. ASSUME NEW q \in Processes, q # p, pc[q] = "apply", NEW i \in Items,
               ~Changed(i, mem[q].rev)
        PROVE  IF \E f \in inbox'[q] : f.item = i THEN Coming(q, i)' ELSE Covered(Dev(q), i)'
    <2>1. IF \E f \in inbox[q] : f.item = i THEN Coming(q, i) ELSE Covered(Dev(q), i)
      BY <1>9, AgreeFacts DEF InboxInv
    <2>2. inbox'[q] = inbox[q]
      BY <1>3, <1>9
    <2>3. Coming(q, i) => Coming(q, i)'
      BY <1>4, <2>2 DEF Coming
    <2>4. Covered(Dev(q), i) => Covered(Dev(q), i)'
      BY <1>5, <1>6, <1>9
    <2>5. QED
      BY <2>1, <2>2, <2>3, <2>4
  <1>10. \A q \in Processes :
           /\ \A x, y \in inbox'[q] : x.rev = y.rev => x = y
           /\ \A x \in inbox'[q] : Changed(x.item, lastRev[Dev(q)])
    <2>1. \A q \in Processes : inbox'[q] \subseteq inbox[q]
      BY <1>3
    <2>2. QED
      BY <2>1, AgreeFacts DEF InboxInv
  <1>11. InboxInv'
    BY <1>2, <1>4, <1>8, <1>9, <1>10 DEF InboxInv, Changed
  <1>12. QED
    BY <1>7, <1>11 DEF AgreeInv

\* SaveSync: the revision moves only once every event is applied, and the queue loses
\* only what is done.
LEMMA SaveAgree ==
  ASSUME OneCommand, AgreeInv, KeptInv', NEW p \in Processes, SaveSync(p)
  PROVE  AgreeInv'
  <1> DEFINE d == Dev(p)
  <1>1. /\ End(p) /\ UNCHANGED <<server, rows>>
        /\ pc[p] = "save" \/ (pc[p] = "apply" /\ inbox[p] = {})
        /\ queue'[d] = mem[p].queue /\ lastRev'[d] = mem[p].rev
        /\ \A c \in Devices : c # d => /\ queue'[c] = queue[c] /\ lastRev'[c] = lastRev[c]
                                       /\ torn'[c] = torn[c]
        /\ pc[p] = "save" => torn'[d] = torn[d] \ {Saving(p).id}
        /\ pc[p] = "apply" => torn'[d] = torn[d]
    BY AgreeFacts, SaveFacts
  <1>2. /\ pc'[p] = "idle" /\ inbox'[p] = {}
        /\ \A q \in Processes : q # p =>
             pc'[q] = pc[q] /\ mem'[q] = mem[q] /\ inbox'[q] = inbox[q]
    BY <1>1, AgreeFacts, EndFacts
  <1>3. /\ d \in Devices /\ queue[d] \in Seq(PendingOps)
        /\ \A q \in Processes : q # p => Dev(q) # d /\ Dev(q) \in Devices
    BY AgreeFacts, QueueFacts, DevType DEF OneCommand
  <1>4. log' = log /\ processed' = processed /\ \A i \in Items : View(i)' = View(i)
    BY <1>1, AgreeFacts, ServerFrame
  <1>5. SaveKept(p) /\ ApplyKept(p)
    BY AgreeFacts, QueueFacts DEF ProcessInv
  <1> HIDE DEF d
  <1>6. ASSUME NEW c \in Devices, c # d, NEW i \in Items, Covered(c, i)
        PROVE  Covered(c, i)'
    BY <1>1, <1>4, <1>6 DEF Covered, Done
  <1>7. ASSUME pc[p] = "save", NEW i \in Items
        PROVE  Changed(i, lastRev'[d]) \/ Covered(d, i)'
    <2>1. /\ queue'[d] = Append(queue[d], Saving(p)) /\ lastRev'[d] = lastRev[d]
          /\ Saving(p) \in PendingOps /\ ~Done(Saving(p).op)
      BY <1>1, <1>5, <1>7 DEF SaveKept, d
    <2>2. PICK o : o = Saving(p)
      OBVIOUS
    <2>3. /\ Len(queue[d]) + 1 \in DOMAIN queue'[d] /\ queue'[d][Len(queue[d]) + 1] = o
          /\ \A k \in DOMAIN queue[d] : k \in DOMAIN queue'[d] /\ queue'[d][k] = queue[d][k]
      BY <1>3, <2>1, <2>2, AppendFacts
    <2>4. CASE i = o.id
      BY <1>4, <2>1, <2>2, <2>3, <2>4 DEF Covered, Done
    <2>5. CASE i # o.id
      <3>1. i \in torn[d] => i \in torn'[d]
        BY <1>1, <1>7, <2>2, <2>5
      <3>2. Covered(d, i) => Covered(d, i)'
        BY <1>1, <1>4, <2>3, <3>1 DEF Covered, Done
      <3>3. QED
        BY <1>3, <2>1, <3>2, AgreeFacts DEF CopyInv
    <2>6. QED
      BY <2>4, <2>5
  <1>8. ASSUME pc[p] = "apply", inbox[p] = {}, NEW i \in Items
        PROVE  Changed(i, lastRev'[d]) \/ Covered(d, i)'
    <2>1. Changed(i, mem[p].rev) \/ Covered(d, i)
      BY <1>8, AgreeFacts DEF InboxInv, d
    <2>2. \/ queue'[d] = queue[d]
          \/ \A k \in DOMAIN queue[d] : Done(queue[d][k].op)
      BY <1>1, <1>5, <1>8 DEF ApplyKept, d
    <2>3. Covered(d, i) => Covered(d, i)'
      BY <1>1, <1>4, <1>8, <2>2 DEF Covered, Done
    <2>4. QED
      BY <1>1, <2>1, <2>3
  <1>9. CopyInv'
    <2> SUFFICES ASSUME NEW c \in Devices, NEW i \in Items
                 PROVE  (\E e \in log' : e.item = i /\ e.rev > lastRev'[c]) \/ Covered(c, i)'
      BY DEF CopyInv, Changed
    <2>1. CASE c = d
      BY <1>1, <1>4, <1>7, <1>8, <2>1 DEF Changed
    <2>2. CASE c # d
      BY <1>1, <1>4, <1>6, <2>2, AgreeFacts DEF CopyInv, Changed
    <2>3. QED
      BY <2>1, <2>2
  <1>10. ASSUME NEW q \in Processes
         PROVE  /\ \A e, f \in inbox'[q] : e.rev = f.rev => e = f
                /\ \A e \in inbox'[q] :
                     \E f \in log' : f.item = e.item /\ f.rev > lastRev'[Dev(q)]
                /\ pc'[q] = "apply" =>
                     \A i \in Items :
                       \/ \E f \in log' : f.item = i /\ f.rev > mem'[q].rev
                       \/ IF \E e \in inbox'[q] : e.item = i THEN Coming(q, i)'
                          ELSE Covered(Dev(q), i)'
    <2>1. CASE q = p
      BY <1>2, <2>1
    <2>2. CASE q # p
      <3>1. /\ inbox'[q] = inbox[q] /\ pc'[q] = pc[q] /\ mem'[q] = mem[q]
            /\ lastRev'[Dev(q)] = lastRev[Dev(q)]
        BY <1>1, <1>2, <1>3, <2>2
      <3>2. \A i \in Items : Coming(q, i) => Coming(q, i)'
        BY <1>4, <3>1 DEF Coming
      <3>3. \A i \in Items : Covered(Dev(q), i) => Covered(Dev(q), i)'
        BY <1>3, <1>6, <2>2
      <3>4. QED
        BY <1>4, <3>1, <3>2, <3>3, AgreeFacts DEF InboxInv, Changed
    <2>3. QED
      BY <2>1, <2>2
  <1>11. InboxInv'
    BY <1>10 DEF InboxInv, Changed
  <1>12. QED
    BY <1>9, <1>11 DEF AgreeInv

LEMMA InitAgreeInv == Init => AgreeInv
  <1> SUFFICES ASSUME Init PROVE AgreeInv
    OBVIOUS
  <1>1. KeptInv
    BY InitKeptInv
  <1>2. /\ \A i \in Items : items[i] = NoRow
        /\ \A d \in Devices : \A i \in Items : rows[d][i] = NoRow
        /\ \A p \in Processes : pc[p] = "idle" /\ inbox[p] = {}
    BY DEF Init, TablesInit, Ids
  <1>3. CopyInv
    <2>1. \A i \in Items : View(i) = NoRow
      <3>1. ~NoRow.deleted
        BY DEF NoRow
      <3>2. QED
        BY <1>2, <3>1 DEF View
    <2>2. QED
      BY <1>2, <2>1 DEF CopyInv, Covered
  <1>4. InboxInv
    BY <1>2 DEF InboxInv
  <1>5. QED
    BY <1>1, <1>3, <1>4 DEF AgreeInv

LEMMA NextAgreeInv ==
  ASSUME OneCommand, BundleHoldsLog, AgreeInv, [Next]_vars
  PROVE  AgreeInv'
  <1>1. KeptInv'
    BY AgreeFacts, NextKeptInv
  <1>2. CASE UNCHANGED vars
    <2>1. UNCHANGED <<server, queue, lastRev, rows, torn, pc, mem, inbox>>
      BY <1>2 DEF vars, database, process, history
    <2>2. QED
      BY <1>1, <2>1, QuietAgree
  <1>3. ASSUME NEW p \in Processes, AddItem(p) \/ UpdateItem(p) \/ DeleteItem(p)
        PROVE  AgreeInv'
    BY <1>1, <1>3, EditAgree
  <1>4. ASSUME NEW p \in Processes, Sync(p) \/ RejectCall(p) \/ Fail(p)
        PROVE  AgreeInv'
    BY <1>1, <1>4, SyncAgree, StopAgree
  <1>5. ASSUME NEW p \in Processes, PushOperation(p) \/ Answer(p)
        PROVE  AgreeInv'
    BY <1>1, <1>5, PushAgree, AnswerAgree
  <1>6. ASSUME NEW p \in Processes, applyEvent(p) \/ SaveSync(p)
        PROVE  AgreeInv'
    BY <1>1, <1>6, ApplyAgree, SaveAgree
  <1>7. QED
    BY <1>2, <1>3, <1>4, <1>5, <1>6 DEF Next, Step

\* Under the two conditions, a row that differs from its item has an event that the
\* device has not applied yet, an operation that it still has to push, or an edit that
\* was cut short between its row and SaveSync.
THEOREM AgreeInvariant == ASSUME OneCommand, BundleHoldsLog PROVE Spec => []AgreeInv
  BY InitAgreeInv, NextAgreeInv, PTL DEF Spec

\* If the commands of one device do not overlap and an answer holds the whole log, a
\* device at the newest revision with nothing pending has every item of the server as it
\* is, but for edits cut short before SaveSync; after any mix of lost answers, pushes
\* sent again and events applied twice, and however many devices there are.
THEOREM DeviceAgrees == ASSUME OneCommand, BundleHoldsLog PROVE Spec => []SyncedDeviceAgrees
  <1>1. AgreeInv => SyncedDeviceAgrees
    <2> SUFFICES ASSUME AgreeInv, NEW p \in Processes,
                        queue[Dev(p)] = <<>>, lastRev[Dev(p)] = UserMaxRevision,
                        NEW i \in Items \ torn[Dev(p)]
                 PROVE  rows[Dev(p)][i] = View(i)
      BY DEF SyncedDeviceAgrees, View
    <2>1. ~Changed(i, lastRev[Dev(p)])
      <3>1. \A e \in log : e.rev \in Nat /\ e.rev <= lastRev[Dev(p)]
        BY AgreeFacts, NewestRevision, ServerFacts
      <3>2. lastRev[Dev(p)] \in Nat
        BY AgreeFacts, DevType
      <3>3. QED
        BY <3>1, <3>2 DEF Changed
    <2>2. Covered(Dev(p), i)
      BY <2>1, AgreeFacts, DevType DEF CopyInv
    <2>3. DOMAIN queue[Dev(p)] = {}
      OBVIOUS
    <2>4. QED
      BY <2>2, <2>3 DEF Covered
  <1>2. QED
    BY <1>1, AgreeInvariant, PTL

=============================================================================
