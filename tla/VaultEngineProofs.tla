-------------------------- MODULE VaultEngineProofs -------------------------
(***************************************************************************)
(* The vault engine, for any number of concurrent calls, operations, items *)
(* and expected versions: what both paths together keep, and that the push *)
(* path alone implements the atomic store.                                 *)
(***************************************************************************)
EXTENDS VaultEngine, TLAPS

\* Logged revisions were drawn, and a processed operation was logged.
LogBounded ==
  /\ \A e \in log : e.rev <= seq
  /\ \A op \in Ops : processed[op] # NoProcessed => \E e \in log : e.op = op

EngineInv == TypeInv /\ LogBounded /\ TxIsolated

-----------------------------------------------------------------------------
(***************************************************************************)
(* Types, on both paths.                                                   *)
(***************************************************************************)

LEMMA InitTypeInv == Init => TypeInv
  <1> SUFFICES ASSUME Init PROVE TypeInv
    OBVIOUS
  <1>1. TypeOK
    BY DEF Init, TypeOK, TablesInit, TablesTypeOK, ItemRows, LogRows,
           ProcessedRows, NoRow, NoProcessed, PCs, Replies, NoReply, Codes
  <1>2. CallsTyped /\ ProcessedTyped
    BY DEF Init, TablesInit, CallsTyped, ProcessedTyped
  <1>3. QED
    BY <1>1, <1>2 DEF TypeInv

\* The request of a call inside the engine.
LEMMA CallFacts ==
  ASSUME CallsTyped, NEW r \in Calls, pc[r] \notin {"idle", "done"}
  PROVE  /\ Kind(r) \in Kinds /\ Op(r) \in Ops /\ Exp(r) \in Nat
         /\ Exp(r) \in Expected /\ call[r].path \in Paths
         /\ Kind(r) # "create" \/ pc[r] \notin {"lookup", "write"} =>
              item[r] \in Items
  <1>1. call[r] \in Requests
    BY DEF CallsTyped
  <1>2. /\ call[r].kind \in Kinds /\ call[r].op \in Ops
        /\ call[r].exp \in Expected /\ call[r].path \in Paths
    BY <1>1 DEF Requests
  <1>3. Expected \subseteq Nat
    BY VaultAssumption DEF Expected
  <1>4. QED
    BY <1>2, <1>3 DEF Kind, Op, Exp, CallsTyped

\* Types are preserved on both paths.
LEMMA TypeStep == TypeInv /\ [Next]_vars => TypeOK'
  <1> SUFFICES ASSUME TypeOK, CallsTyped, [Next]_vars PROVE TypeOK'
    BY DEF TypeInv
  <1> USE DEF TypeOK, TablesTypeOK, tables
  <1>0. ASSUME NEW r \in Calls, NEW code \in Codes, NEW v \in Nat, NEW n \in Nat,
               Answer(r, code, v, n)
        PROVE  pc' \in [Calls -> PCs] /\ reply' \in [Calls -> Replies]
    BY <1>0 DEF Answer, Goto, PCs, Replies
  <1>1. ASSUME NEW r \in Calls,
               pushCreate(r) \/ pushUpdate(r) \/ pushDelete(r) \/
               directCreate(r) \/ directUpdate(r) \/ directDelete(r)
        PROVE  TypeOK'
    BY <1>1 DEF pushCreate, pushUpdate, pushDelete, directCreate, directUpdate,
                directDelete, Enter, Goto, PCs, Requests, Kinds, Expected
  <1>2. ASSUME NEW r \in Calls, Reject(r) \/ Abort(r) PROVE TypeOK'
    BY <1>2, <1>0 DEF Reject, Abort, Codes
  <1>3. ASSUME NEW r \in Calls, Lookup(r) PROVE TypeOK'
    BY <1>3, <1>0 DEF Lookup, Codes, Goto, PCs, Op, ProcessedRows, CallsTyped, Requests
  <1>4. ASSUME NEW r \in Calls, Replay(r) \/ versionConflict(r) PROVE TypeOK'
    BY <1>4, <1>0 DEF Replay, versionConflict, Codes, ItemRows, ProcessedRows,
                      CallsTyped, Op, Requests
  <1>5. ASSUME NEW r \in Calls, GetItem(r) PROVE TypeOK'
    BY <1>5, <1>0 DEF GetItem, Conflict, Codes, Goto, PCs
  <1>6. ASSUME NEW r \in Calls, NEW i \in Items, pc[r] = "write"
        PROVE  RowAfter(Kind(r), Op(r), i, Exp(r)) \in ItemRows
    <2>1. Kind(r) \in Kinds /\ Op(r) \in Ops /\ Exp(r) \in Nat
      BY <1>6, CallFacts
    <2>2. QED
      BY <2>1 DEF RowAfter, VersionAfter, ItemRows
  <1>7. ASSUME NEW r \in Calls, CreateItem(r) PROVE TypeOK'
    BY <1>7, <1>6 DEF CreateItem, WriteRow, Goto, PCs
  <1>8. ASSUME NEW r \in Calls, UpdateItem(r) \/ DeleteItem(r) PROVE TypeOK'
    <2>1. item[r] \in Items /\ pc[r] = "write" /\ GuardedWrite(r)
      BY <1>8 DEF UpdateItem, DeleteItem, CallsTyped
    <2>2. RowAfter(Kind(r), Op(r), item[r], Exp(r)) \in ItemRows
      BY <2>1, <1>6
    <2>3. CASE WriteRow(r, item[r]) /\ UNCHANGED reply
      BY <2>1, <2>2, <2>3 DEF GuardedWrite, WriteRow, Goto, PCs
    <2>4. CASE Conflict(r) /\ UNCHANGED items
      BY <2>1, <2>4, <1>0 DEF GuardedWrite, Conflict, Goto, PCs, Codes
    <2>5. QED
      BY <2>1, <2>3, <2>4 DEF GuardedWrite
  <1>9. ASSUME NEW r \in Calls, NextRevision(r) PROVE TypeOK'
    BY <1>9 DEF NextRevision, Goto, PCs
  <1>10. ASSUME NEW r \in Calls, pc[r] \in {"append", "mark", "commit"}
         PROVE  /\ LogRow(Kind(r), Op(r), item[r], Exp(r), rev[r]) \in LogRows
                /\ Marked(r) \in [Ops -> ProcessedRows]
                /\ RowAfter(Kind(r), Op(r), item[r], Exp(r)) \in ItemRows
                /\ VersionAfter(Kind(r), Exp(r)) \in Nat
                /\ rev[r] \in Nat
    <2>1. /\ item[r] \in Items /\ Kind(r) \in Kinds /\ Op(r) \in Ops
          /\ Exp(r) \in Nat
      BY <1>10, CallFacts
    <2>2. QED
      BY <2>1 DEF RowAfter, VersionAfter, ItemRows, LogRow, LogRows, Marked,
                  ProcessedRows
  <1>11. ASSUME NEW r \in Calls, AppendRevision(r) PROVE TypeOK'
    <2>1. pc[r] = "append"
          /\ UNCHANGED <<items, processed, seq, call, item, rev>>
      BY <1>11 DEF AppendRevision
    <2>2. LogRow(Kind(r), Op(r), item[r], Exp(r), rev[r]) \in LogRows
      BY <2>1, <1>10
    <2>3. log' \in SUBSET LogRows
      BY <1>11, <2>2 DEF AppendRevision
    <2>4. pc' \in [Calls -> PCs] /\ reply' \in [Calls -> Replies]
      <3>1. CASE Answer(r, "error", 0, 0)
        BY <3>1, <1>0 DEF Codes
      <3>2. CASE Goto(r, "mark") /\ UNCHANGED reply
        BY <3>2 DEF Goto, PCs
      <3>3. QED
        BY <1>11, <3>1, <3>2 DEF AppendRevision
    <2>5. QED
      BY <2>1, <2>3, <2>4
  <1>12. ASSUME NEW r \in Calls, MarkProcessed(r) PROVE TypeOK'
    BY <1>12, <1>10, <1>0 DEF MarkProcessed, Goto, PCs, Codes
  <1>13. ASSUME NEW r \in Calls, Commit(r) PROVE TypeOK'
    BY <1>13, <1>10, <1>0 DEF Commit, Codes
  <1>14. CASE UNCHANGED vars
    BY <1>14 DEF vars
  <1>15. QED
    BY <1>1, <1>2, <1>3, <1>4, <1>5, <1>7, <1>8, <1>9, <1>11, <1>12, <1>13, <1>14
       DEF Next, Step

\* What one call does to the rest of its own state and to its own only.
CallStep(r) ==
  \/ pushCreate(r) \/ pushUpdate(r) \/ pushDelete(r)
  \/ directCreate(r) \/ directUpdate(r) \/ directDelete(r)
  \/ Reject(r) \/ Abort(r)
  \/ Step(r)

\* A step of one call leaves the other calls where they are.
LEMMA Frame ==
  ASSUME TypeOK, NEW r \in Calls, CallStep(r), NEW s \in Calls, s # r
  PROVE  /\ pc'[s] = pc[s] /\ call'[s] = call[s] /\ item'[s] = item[s]
         /\ rev'[s] = rev[s] /\ reply'[s] = reply[s]
  <1> USE DEF TypeOK, Goto, Answer
  <1>1. CASE pushCreate(r) \/ pushUpdate(r) \/ pushDelete(r) \/ directCreate(r)
               \/ directUpdate(r) \/ directDelete(r)
    BY <1>1 DEF pushCreate, pushUpdate, pushDelete, directCreate, directUpdate,
                directDelete, Enter
  <1>2. CASE Reject(r) \/ Abort(r)
    BY <1>2 DEF Reject, Abort
  <1>3. CASE Lookup(r) \/ Replay(r) \/ GetItem(r) \/ versionConflict(r)
    BY <1>3 DEF Lookup, Replay, GetItem, versionConflict, Conflict
  <1>4. CASE CreateItem(r)
    BY <1>4 DEF CreateItem, WriteRow
  <1>5. CASE UpdateItem(r) \/ DeleteItem(r)
    BY <1>5 DEF UpdateItem, DeleteItem, GuardedWrite, WriteRow, Conflict
  <1>6. CASE NextRevision(r) \/ AppendRevision(r) \/ MarkProcessed(r) \/ Commit(r)
    BY <1>6 DEF NextRevision, AppendRevision, MarkProcessed, Commit
  <1>7. QED
    BY <1>1, <1>2, <1>3, <1>4, <1>5, <1>6 DEF CallStep, Step

\* How a call moves through the engine; only entering sets its request, and
\* only entering, a replayed lookup and a create set its item.
LEMMA Moves ==
  ASSUME TypeOK, NEW r \in Calls, CallStep(r)
  PROVE  \/ /\ pc[r] = "idle" /\ pc'[r] = "lookup"
            /\ call'[r] \in Requests /\ item'[r] = call'[r].arg
            /\ call'[r].kind # "create" => call'[r].arg \in Items
         \/ pc'[r] = "done"
         \/ /\ call'[r] = call[r] /\ pc[r] = "lookup" /\ pc'[r] = "replay"
            /\ processed[Op(r)] # NoProcessed
            /\ item'[r] = processed[Op(r)].item
         \/ /\ call'[r] = call[r] /\ pc[r] = "write" /\ pc'[r] = "nextval"
            /\ item'[r] \in Items \/ (item'[r] = item[r] /\ Kind(r) # "create")
         \/ /\ call'[r] = call[r] /\ item'[r] = item[r]
            /\ <<pc[r], pc'[r]>> \in
                 {<<"lookup", "read">>, <<"lookup", "write">>, <<"read", "write">>,
                  <<"read", "conflict">>, <<"write", "conflict">>,
                  <<"nextval", "append">>, <<"append", "mark">>,
                  <<"mark", "commit">>}
            /\ pc[r] = "write" \/ pc'[r] = "read" => Kind(r) # "create"
  <1> USE DEF TypeOK, Goto, Answer
  <1>1. CASE pushCreate(r) \/ pushUpdate(r) \/ pushDelete(r) \/ directCreate(r)
               \/ directUpdate(r) \/ directDelete(r)
    BY <1>1 DEF pushCreate, pushUpdate, pushDelete, directCreate, directUpdate,
                directDelete, Enter, Requests, Kinds, Expected
  <1>2. CASE Reject(r) \/ Abort(r) \/ Replay(r) \/ versionConflict(r) \/ Commit(r)
    BY <1>2 DEF Reject, Abort, Replay, versionConflict, Commit
  <1>3. CASE Lookup(r)
    <2>1. CASE pc' = [pc EXCEPT ![r] = IF Kind(r) = "update" THEN "read" ELSE "write"]
               /\ UNCHANGED item
      <3>1. call'[r] = call[r] /\ item'[r] = item[r] /\ pc[r] = "lookup"
        BY <1>3, <2>1 DEF Lookup
      <3>2. (pc'[r] = "read" /\ Kind(r) = "update") \/ pc'[r] = "write"
        BY <2>1
      <3>3. QED
        BY <3>1, <3>2
    <2>2. CASE pc' = [pc EXCEPT ![r] = "replay"] /\ processed[Op(r)] # NoProcessed
               /\ item' = [item EXCEPT ![r] = processed[Op(r)].item]
      BY <1>3, <2>2 DEF Lookup
    <2>3. CASE pc' = [pc EXCEPT ![r] = "done"]
      BY <2>3
    <2>4. QED
      BY <1>3, <2>1, <2>2, <2>3 DEF Lookup
  <1>4. CASE GetItem(r)
    <2>1. call'[r] = call[r] /\ item'[r] = item[r] /\ pc[r] = "read"
      BY <1>4 DEF GetItem
    <2>2. pc'[r] \in {"done", "conflict", "write"}
      BY <1>4 DEF GetItem, Conflict
    <2>3. QED
      BY <2>1, <2>2
  <1>5. CASE CreateItem(r)
    BY <1>5 DEF CreateItem, WriteRow
  <1>6. CASE UpdateItem(r) \/ DeleteItem(r)
    BY <1>6 DEF UpdateItem, DeleteItem, GuardedWrite, WriteRow, Conflict
  <1>7. CASE NextRevision(r) \/ AppendRevision(r) \/ MarkProcessed(r)
    BY <1>7 DEF NextRevision, AppendRevision, MarkProcessed
  <1>8. QED
    BY <1>1, <1>2, <1>3, <1>4, <1>5, <1>6, <1>7 DEF CallStep, Step

LEMMA CallsTypedStep ==
  ASSUME TypeInv, NEW r \in Calls, CallStep(r)
  PROVE  CallsTyped'
  <1>1. TypeOK /\ CallsTyped /\ ProcessedTyped
    BY DEF TypeInv
  <1> SUFFICES ASSUME NEW s \in Calls, pc'[s] \notin {"idle", "done"}
               PROVE  /\ call'[s] \in Requests
                      /\ call'[s].kind # "create" \/ pc'[s] \notin {"lookup", "write"}
                           => item'[s] \in Items
    BY DEF CallsTyped, Kind
  <1>2. CASE s # r
    BY <1>1, <1>2, Frame DEF CallsTyped, Kind
  <1>3. CASE s = r /\ pc[r] = "idle"
    BY <1>1, <1>3, Moves
  <1>4. CASE s = r /\ pc[r] # "idle"
    <2>1. pc[r] # "done"
      BY <1>1, <1>4, Moves
    <2>2. /\ call[r] \in Requests /\ Op(r) \in Ops
          /\ Kind(r) # "create" \/ pc[r] \notin {"lookup", "write"} =>
               item[r] \in Items
      BY <1>1, <1>4, <2>1, CallFacts DEF CallsTyped
    <2>3. call'[r] = call[r]
      BY <1>1, <1>4, Moves
    <2>4. processed[Op(r)] # NoProcessed => processed[Op(r)].item \in Items
      BY <1>1, <2>2 DEF ProcessedTyped
    <2>5. Kind(r) # "create" \/ pc'[r] \notin {"lookup", "write"} => item'[r] \in Items
      BY <1>1, <1>4, <2>2, <2>4, Moves
    <2>6. QED
      BY <1>4, <2>2, <2>3, <2>5 DEF Kind
  <1>5. QED
    BY <1>2, <1>3, <1>4

\* Only MarkProcessed and Commit write processed_operations, both for the item
\* of the call.
LEMMA ProcessedTypedStep ==
  ASSUME TypeInv, NEW r \in Calls, CallStep(r)
  PROVE  ProcessedTyped'
  <1>1. TypeOK /\ CallsTyped /\ ProcessedTyped
    BY DEF TypeInv
  <1>2. processed' = processed \/
          (processed' = Marked(r) /\ pc[r] \in {"mark", "commit"})
    BY DEF CallStep, Step, pushCreate, pushUpdate, pushDelete, directCreate,
           directUpdate, directDelete, Enter, Reject, Abort, Lookup, Replay,
           GetItem, versionConflict, CreateItem, UpdateItem, DeleteItem,
           GuardedWrite, NextRevision, AppendRevision, MarkProcessed, Commit,
           tables
  <1>3. CASE processed' = processed
    BY <1>1, <1>3 DEF ProcessedTyped
  <1>4. CASE processed' = Marked(r) /\ pc[r] \in {"mark", "commit"}
    <2>1. item[r] \in Items /\ Op(r) \in Ops
      BY <1>1, <1>4, CallFacts
    <2>2. QED
      BY <1>1, <1>4, <2>1 DEF ProcessedTyped, Marked, TypeOK, TablesTypeOK
  <1>5. QED
    BY <1>2, <1>3, <1>4

LEMMA TypeInvStep == TypeInv /\ [Next]_vars => TypeInv'
  <1> SUFFICES ASSUME TypeInv, [Next]_vars PROVE TypeInv'
    OBVIOUS
  <1>1. CASE \E r \in Calls : CallStep(r)
    BY <1>1, TypeStep, CallsTypedStep, ProcessedTypedStep DEF TypeInv
  <1>2. CASE UNCHANGED vars
    BY <1>2, TypeStep DEF TypeInv, CallsTyped, ProcessedTyped, vars, Kind
  <1>3. QED
    BY <1>1, <1>2 DEF Next, CallStep

\* Every row, request and reply has its type in every reachable state, for
\* calls on both paths, with any failures between their statements.
THEOREM TypeCorrect == Spec => []TypeInv
  BY InitTypeInv, TypeInvStep, PTL DEF Spec

-----------------------------------------------------------------------------
(***************************************************************************)
(* Row locks and the unique index, on both paths.                          *)
(***************************************************************************)

\* A call takes a row only when nobody else holds it, and only in the state it
\* expects; it keeps the item it took.
LEMMA TakesRow ==
  ASSUME TypeOK, NEW r \in Calls, CallStep(r), HoldsRow(r)'
  PROVE  /\ call'[r] = call[r]
         /\ \/ HoldsRow(r) /\ item'[r] = item[r]
            \/ /\ \A s \in Calls \ {r} : HoldsRow(s) => item[s] # item'[r]
               /\ IF Kind(r) = "create" THEN ~Present(item'[r])
                                        ELSE Matches(item'[r], Exp(r))
  <1>1. pc'[r] \in {"nextval", "append", "mark", "commit"}
    BY DEF HoldsRow
  <1>2. call'[r] = call[r]
    BY <1>1, Moves
  <1>3. CASE pc[r] = "write"
    <2>1. CreateItem(r) \/ UpdateItem(r) \/ DeleteItem(r)
      BY <1>1, <1>3 DEF TypeOK, CallStep, Step, pushCreate, pushUpdate, pushDelete,
           directCreate, directUpdate, directDelete, Enter, Reject, Abort, Answer,
           Goto, Lookup, Replay, GetItem, versionConflict, NextRevision,
           AppendRevision, MarkProcessed, Commit
    <2>2. CASE CreateItem(r)
      BY <1>2, <2>2 DEF CreateItem, Fresh, TypeOK
    <2>3. CASE UpdateItem(r) \/ DeleteItem(r)
      BY <1>1, <1>2, <2>3 DEF UpdateItem, DeleteItem, GuardedWrite, RowFree,
           TypeOK, Conflict, Answer, Goto
    <2>4. QED
      BY <2>1, <2>2, <2>3
  <1>4. CASE pc[r] # "write"
    <2>1. pc[r] \in {"nextval", "append", "mark"} /\ item'[r] = item[r]
      BY <1>1, <1>4, Moves
    <2>2. QED
      BY <1>2, <2>1 DEF HoldsRow, Tx
  <1>5. QED
    BY <1>3, <1>4

\* A call logs its operation only when it is neither logged nor about to be.
LEMMA TakesOp ==
  ASSUME TypeOK, NEW r \in Calls, CallStep(r), HoldsOp(r)'
  PROVE  /\ call'[r] = call[r]
         /\ \/ HoldsOp(r)
            \/ OpFree(r) /\ \A e \in log : e.op # Op(r)
  <1>1. pc'[r] \in {"mark", "commit"}
    BY DEF HoldsOp
  <1>2. call'[r] = call[r] /\ pc[r] \in {"append", "mark"}
    BY <1>1, Moves
  <1>3. CASE pc[r] = "append"
    <2>1. AppendRevision(r)
      BY <1>1, <1>3 DEF TypeOK, CallStep, Step, pushCreate, pushUpdate, pushDelete,
           directCreate, directUpdate, directDelete, Enter, Reject, Abort, Answer,
           Goto, Lookup, Replay, GetItem, versionConflict, CreateItem, UpdateItem,
           DeleteItem, NextRevision, MarkProcessed, Commit
    <2>2. QED
      BY <1>1, <1>2, <2>1 DEF AppendRevision, TypeOK, Answer, Goto
  <1>4. CASE pc[r] = "mark"
    BY <1>2, <1>4 DEF HoldsOp, Tx
  <1>5. QED
    BY <1>2, <1>3, <1>4

\* What Commit does to the tables.
LEMMA CommitTables ==
  ASSUME TypeOK, CallsTyped, NEW r \in Calls, Commit(r)
  PROVE  /\ pc'[r] = "done" /\ item[r] \in Items /\ Op(r) \in Ops
         /\ \A i \in Items : i # item[r] => items'[i] = items[i]
         /\ \A e \in log' : e \in log \/
              (/\ e.op = Op(r) /\ e.item = item[r] /\ e.rev = rev[r]
               /\ e.version = VersionAfter(Kind(r), Exp(r)))
         /\ \E e \in log' : e.op = Op(r)
         /\ log \subseteq log'
         /\ \A op \in Ops : op # Op(r) => processed'[op] = processed[op]
  <1>1. item[r] \in Items /\ Op(r) \in Ops
    BY CallFacts DEF Commit
  <1>2. pc'[r] = "done"
    BY DEF Commit, Answer, Goto, TypeOK
  <1>3. \A i \in Items : i # item[r] => items'[i] = items[i]
    BY <1>1 DEF Commit, TypeOK, TablesTypeOK
  <1>4. /\ \A e \in log' : e \in log \/
              (/\ e.op = Op(r) /\ e.item = item[r] /\ e.rev = rev[r]
               /\ e.version = VersionAfter(Kind(r), Exp(r)))
        /\ \E e \in log' : e.op = Op(r)
        /\ log \subseteq log'
    <2> DEFINE new == LogRow(Kind(r), Op(r), item[r], Exp(r), rev[r])
    <2>1. log' = log \cup {new}
      BY DEF Commit
    <2>2. /\ new.op = Op(r) /\ new.item = item[r] /\ new.rev = rev[r]
          /\ new.version = VersionAfter(Kind(r), Exp(r))
      BY DEF LogRow
    <2> HIDE DEF new
    <2>3. QED
      BY <2>1, <2>2
  <1>5. \A op \in Ops : op # Op(r) => processed'[op] = processed[op]
    BY <1>1 DEF Commit, Marked, TypeOK, TablesTypeOK
  <1>6. QED
    BY <1>1, <1>2, <1>3, <1>4, <1>5

\* The other calls hold after a step what they held before it.
LEMMA HoldsFrame ==
  ASSUME TypeOK, NEW r \in Calls, CallStep(r), NEW s \in Calls, s # r
  PROVE  /\ HoldsRow(s)' <=> HoldsRow(s)
         /\ HoldsOp(s)' <=> HoldsOp(s)
         /\ Drawn(s)' <=> Drawn(s)
         /\ Op(s)' = Op(s) /\ Kind(s)' = Kind(s) /\ Exp(s)' = Exp(s)
  BY Frame DEF HoldsRow, HoldsOp, Drawn, Tx, Op, Kind, Exp

-----------------------------------------------------------------------------
(***************************************************************************)
(* Both paths at once.  A call on the pool shows its row before its log    *)
(* row; until then nobody else has a log row for that version.             *)
(***************************************************************************)
After(r) == VersionAfter(Kind(r), Exp(r))

\* r has written its item's row, on the pool, and not yet the log row.
Unlogged(r) == ~Tx(r) /\ pc[r] \in {"nextval", "append"}

\* What is true of a call on either path.
CallInv(r) ==
  /\ pc[r] = "commit" => Tx(r)
  /\ reply[r].code = "ok" => pc[r] = "done"
  /\ pc[r] = "replay" => /\ processed[Op(r)] # NoProcessed
                         /\ item[r] = processed[Op(r)].item
  /\ Unlogged(r) =>
       /\ After(r) <= items[item[r]].version
       /\ \A e \in log : e.item = item[r] => e.version # After(r)
       /\ \A s \in Calls :
            Unlogged(s) /\ item[s] = item[r] /\ After(s) = After(r) => s = r
  /\ ~Tx(r) /\ pc[r] = "mark" =>
       LogRow(Kind(r), Op(r), item[r], Exp(r), rev[r]) \in log

LoggedVersions == \A e \in log : e.version <= items[e.item].version

ProcessedLogged ==
  \A op \in Ops : processed[op] # NoProcessed =>
    \E e \in log : e.op = op /\ e.item = processed[op].item /\ e.rev = processed[op].rev

EmptyRows == \A i \in Items : ~Present(i) => ~items[i].deleted

MixedInv ==
  /\ TypeInv /\ RowsIsolated /\ OpsIsolated
  /\ LoggedVersions /\ ProcessedLogged /\ EmptyRows
  /\ \A r \in Calls : CallInv(r)
  /\ AckIsLogged /\ OneWinnerPerVersion

\* The steps that change a table.
DirectWrite(r) ==
  /\ ~Tx(r) /\ pc[r] = "write" /\ pc'[r] = "nextval"
  /\ item'[r] \in Items
  /\ items' = [items EXCEPT ![item'[r]] = RowAfter(Kind(r), Op(r), item'[r], Exp(r))]
  /\ IF Kind(r) = "create" THEN ~Present(item'[r]) ELSE Matches(item'[r], Exp(r))
  /\ \A s \in Calls \ {r} : HoldsRow(s) => item[s] # item'[r]
  /\ UNCHANGED <<log, processed>>

DirectAppend(r) ==
  /\ ~Tx(r) /\ pc[r] = "append" /\ pc'[r] = "mark"
  /\ OpFree(r) /\ \A e \in log : e.op # Op(r)
  /\ log' = log \cup {LogRow(Kind(r), Op(r), item[r], Exp(r), rev[r])}
  /\ UNCHANGED <<items, processed>>

DirectMark(r) ==
  /\ ~Tx(r) /\ pc[r] = "mark" /\ pc'[r] = "done"
  /\ processed' = Marked(r)
  /\ reply'[r] = [code |-> "ok", version |-> After(r), rev |-> rev[r]]
  /\ UNCHANGED <<items, log>>

LEMMA TablesStep ==
  ASSUME TypeInv, NEW r \in Calls, CallStep(r)
  PROVE  /\ \/ DirectWrite(r) \/ DirectAppend(r) \/ DirectMark(r) \/ Commit(r)
            \/ UNCHANGED <<items, log, processed>>
         /\ pc[r] # "idle" => call'[r] = call[r]
         /\ pc[r] # "nextval" => rev'[r] = rev[r]
  <1>1. TypeOK /\ CallsTyped
    BY DEF TypeInv
  <1> USE DEF TypeOK
  <1>2. CASE pushCreate(r) \/ pushUpdate(r) \/ pushDelete(r) \/ directCreate(r)
               \/ directUpdate(r) \/ directDelete(r)
    BY <1>2 DEF pushCreate, pushUpdate, pushDelete, directCreate, directUpdate,
                directDelete, Enter, tables
  <1>3. CASE Reject(r) \/ Abort(r) \/ Lookup(r) \/ Replay(r) \/ GetItem(r)
               \/ versionConflict(r)
    BY <1>3 DEF Reject, Abort, Lookup, Replay, GetItem, versionConflict, tables
  <1>4. CASE CreateItem(r)
    <2>1. PICK i \in Items : Fresh(i) /\ item' = [item EXCEPT ![r] = i] /\ WriteRow(r, i)
      BY <1>4 DEF CreateItem
    <2>2. item'[r] = i /\ pc'[r] = "nextval"
      BY <1>1, <2>1 DEF WriteRow, Goto
    <2>3. CASE Tx(r)
      BY <1>4, <2>1, <2>3 DEF CreateItem, WriteRow
    <2>4. CASE ~Tx(r)
      BY <1>4, <2>1, <2>2, <2>4 DEF CreateItem, WriteRow, DirectWrite, Fresh
    <2>5. QED
      BY <2>3, <2>4
  <1>5. CASE UpdateItem(r) \/ DeleteItem(r)
    <2>1. pc[r] = "write" /\ Kind(r) # "create" /\ GuardedWrite(r) /\ item[r] \in Items
      BY <1>1, <1>5, CallFacts DEF UpdateItem, DeleteItem
    <2>2. CASE UNCHANGED items
      BY <2>1, <2>2 DEF GuardedWrite
    <2>3. CASE ~UNCHANGED items
      <3>1. Matches(item[r], Exp(r)) /\ WriteRow(r, item[r]) /\ ~Tx(r)
        BY <2>1, <2>3 DEF GuardedWrite, WriteRow
      <3>2. item'[r] = item[r] /\ pc'[r] = "nextval"
        BY <1>1, <2>1, <3>1 DEF GuardedWrite, WriteRow, Goto
      <3>3. QED
        BY <2>1, <3>1, <3>2 DEF GuardedWrite, WriteRow, RowFree, DirectWrite
    <2>4. QED
      BY <2>2, <2>3
  <1>6. CASE AppendRevision(r)
    BY <1>1, <1>6 DEF AppendRevision, Goto, DirectAppend
  <1>7. CASE MarkProcessed(r)
    BY <1>1, <1>7 DEF MarkProcessed, Goto, Answer, DirectMark, After
  <1>8. CASE NextRevision(r)
    BY <1>8 DEF NextRevision
  <1>9. CASE Commit(r)
    BY <1>9 DEF Commit
  <1>10. QED
    BY <1>2, <1>3, <1>4, <1>5, <1>6, <1>7, <1>8, <1>9 DEF CallStep, Step

\* A commit is the commit of a transaction, so it holds its row and its index
\* entry.
LEMMA CommitHolds ==
  ASSUME MixedInv, NEW r \in Calls, Commit(r)
  PROVE  HoldsRow(r) /\ HoldsOp(r)
  BY DEF Commit, MixedInv, CallInv, HoldsRow, HoldsOp

\* Who writes an item's row finds the version it expects and leaves the next.
LEMMA Grows ==
  ASSUME MixedInv, NEW r \in Calls, CallStep(r), NEW i \in Items
  PROVE  /\ items'[i] = items[i] \/
              (/\ items'[i].version = items[i].version + 1 /\ ~items[i].deleted
               /\ items'[i].version = After(r)
               /\ (DirectWrite(r) /\ i = item'[r]) \/ (Commit(r) /\ i = item[r]))
         /\ items'[i].version \in Nat /\ items[i].version \in Nat
         /\ Commit(r) => items'[item[r]].version = items[item[r]].version + 1
                           /\ items'[item[r]].version = After(r)
         /\ DirectWrite(r) => items'[item'[r]].version = items[item'[r]].version + 1
                           /\ items'[item'[r]].version = After(r)
  <1>1. TypeInv /\ TypeOK /\ CallsTyped /\ items \in [Items -> ItemRows]
          /\ \A j \in Items : items[j].version \in Nat
    BY DEF MixedInv, TypeInv, TypeOK, TablesTypeOK, ItemRows
  <1>2. ASSUME NEW j \in Items, pc[r] \in {"write", "commit"},
               items' = [items EXCEPT ![j] = RowAfter(Kind(r), Op(r), j, Exp(r))],
               IF Kind(r) = "create" THEN ~Present(j) ELSE Matches(j, Exp(r))
        PROVE  /\ items'[j].version = items[j].version + 1 /\ ~items[j].deleted
               /\ items'[j].version = After(r)
               /\ i # j => items'[i] = items[i]
               /\ items'[i].version \in Nat
    <2>1. Exp(r) \in Nat /\ Kind(r) \in Kinds
      BY <1>1, <1>2, CallFacts
    <2>2. items'[j] = RowAfter(Kind(r), Op(r), j, Exp(r))
            /\ (i # j => items'[i] = items[i])
      BY <1>1, <1>2
    <2>3. RowAfter(Kind(r), Op(r), j, Exp(r)).version = After(r)
      BY DEF RowAfter, After
    <2>4. /\ After(r) = items[j].version + 1 /\ ~items[j].deleted
      BY <1>1, <1>2, <2>1 DEF After, VersionAfter, Present, Matches, MixedInv, EmptyRows
    <2>5. QED
      BY <1>1, <2>2, <2>3, <2>4
  <1>3. CASE DirectWrite(r)
    <2>1. ~Commit(r)
      BY <1>3 DEF DirectWrite, Commit
    <2>2. QED
      BY <1>1, <1>2, <1>3, <2>1 DEF DirectWrite
  <1>4. CASE Commit(r)
    <2>1. pc[r] = "commit" /\ item[r] \in Items /\ ~DirectWrite(r)
      BY <1>1, <1>4, CallFacts DEF Commit, DirectWrite
    <2>2. /\ items' = [items EXCEPT ![item[r]] = RowAfter(Kind(r), Op(r), item[r], Exp(r))]
          /\ IF Kind(r) = "create" THEN ~Present(item[r]) ELSE Matches(item[r], Exp(r))
      BY <1>4, CommitHolds DEF Commit, MixedInv, RowsIsolated
    <2>3. QED
      BY <1>1, <1>2, <1>4, <2>1, <2>2
  <1>5. CASE items' = items /\ ~DirectWrite(r) /\ ~Commit(r)
    BY <1>1, <1>5
  <1>6. QED
    BY <1>1, <1>3, <1>4, <1>5, TablesStep DEF DirectAppend, DirectMark

\* Log rows are added one at a time, by a call that has one to add, and stay.
LEMMA LogGrows ==
  ASSUME MixedInv, NEW r \in Calls, CallStep(r)
  PROVE  /\ log \subseteq log'
         /\ \A e \in log' \ log :
              /\ DirectAppend(r) \/ Commit(r)
              /\ e = LogRow(Kind(r), Op(r), item[r], Exp(r), rev[r])
         /\ \A e : e = LogRow(Kind(r), Op(r), item[r], Exp(r), rev[r]) =>
              /\ e.op = Op(r) /\ e.item = item[r] /\ e.rev = rev[r]
              /\ e.version = After(r)
  <1>1. /\ log \subseteq log'
        /\ \A e \in log' \ log :
             /\ DirectAppend(r) \/ Commit(r)
             /\ e = LogRow(Kind(r), Op(r), item[r], Exp(r), rev[r])
    BY TablesStep DEF MixedInv, DirectWrite, DirectAppend, DirectMark, Commit
  <1>2. QED
    BY <1>1 DEF LogRow, After

\* An operation is marked once, with what the call that marks it has logged.
LEMMA ProcessedGrows ==
  ASSUME MixedInv, NEW r \in Calls, CallStep(r), NEW op \in Ops
  PROVE  \/ processed'[op] = processed[op]
         \/ /\ processed[op] = NoProcessed /\ op = Op(r)
            /\ processed'[op] = [item |-> item[r], rev |-> rev[r]]
            /\ LogRow(Kind(r), Op(r), item[r], Exp(r), rev[r]) \in log'
  <1>1. processed \in [Ops -> ProcessedRows] /\ CallsTyped /\ TypeInv
    BY DEF MixedInv, TypeInv, TypeOK, TablesTypeOK
  <1>2. CASE processed' = processed
    BY <1>2
  <1>3. ASSUME processed' = Marked(r), pc[r] \in {"mark", "commit"},
               LogRow(Kind(r), Op(r), item[r], Exp(r), rev[r]) \in log'
        PROVE  \/ processed'[op] = processed[op]
               \/ /\ processed[op] = NoProcessed /\ op = Op(r)
                  /\ processed'[op] = [item |-> item[r], rev |-> rev[r]]
    <2>1. Op(r) \in Ops
      BY <1>1, <1>3, CallFacts
    <2>2. QED
      BY <1>1, <1>3, <2>1 DEF Marked
  <1>4. CASE DirectMark(r)
    <2>1. LogRow(Kind(r), Op(r), item[r], Exp(r), rev[r]) \in log'
      BY <1>4 DEF DirectMark, MixedInv, CallInv
    <2>2. QED
      BY <1>3, <1>4, <2>1 DEF DirectMark
  <1>5. CASE Commit(r)
    <2>1. LogRow(Kind(r), Op(r), item[r], Exp(r), rev[r]) \in log'
      BY <1>5 DEF Commit
    <2>2. QED
      BY <1>3, <1>5, <2>1 DEF Commit
  <1>6. QED
    BY <1>1, <1>2, <1>4, <1>5, TablesStep DEF DirectWrite, DirectAppend

\* Where an answer of success comes from.
LEMMA Successes ==
  ASSUME MixedInv, NEW r \in Calls, CallStep(r), reply'[r] # reply[r],
         reply'[r].code = "ok"
  PROVE  /\ pc'[r] = "done" /\ item'[r] = item[r] /\ call'[r] = call[r]
         /\ \/ /\ pc[r] = "replay" /\ log' = log
               /\ reply'[r].version = items[item[r]].version
               /\ reply'[r].rev = processed[Op(r)].rev
            \/ /\ DirectMark(r) \/ Commit(r)
               /\ reply'[r].version = After(r) /\ reply'[r].rev = rev[r]
  <1>1. TypeOK
    BY DEF MixedInv, TypeInv
  <1> USE DEF TypeOK
  <1>2. ASSUME NEW code, NEW v, NEW n, Answer(r, code, v, n)
        PROVE  /\ pc'[r] = "done" /\ reply'[r] = [code |-> code, version |-> v, rev |-> n]
               /\ reply'[r].code = code /\ reply'[r].version = v /\ reply'[r].rev = n
    BY <1>1, <1>2 DEF Answer, Goto
  <1>3. CASE pushCreate(r) \/ pushUpdate(r) \/ pushDelete(r) \/ directCreate(r)
               \/ directUpdate(r) \/ directDelete(r)
    BY <1>3 DEF pushCreate, pushUpdate, pushDelete, directCreate, directUpdate,
                directDelete, Enter
  <1>4. CASE Reject(r) \/ Abort(r) \/ Lookup(r) \/ GetItem(r) \/ versionConflict(r)
    BY <1>2, <1>4 DEF Reject, Abort, Lookup, GetItem, Conflict, versionConflict
  <1>5. CASE CreateItem(r) \/ UpdateItem(r) \/ DeleteItem(r) \/ NextRevision(r)
               \/ AppendRevision(r)
    <2>1. \/ reply' = reply
          \/ \E code \in {"error", "conflict"} : Answer(r, code, 0, 0)
      BY <1>5 DEF CreateItem, UpdateItem, DeleteItem, GuardedWrite, Conflict,
         NextRevision, AppendRevision
    <2>2. QED
      BY <1>2, <2>1
  <1>6. CASE Replay(r)
    <2>1. /\ pc[r] = "replay" /\ UNCHANGED <<tables, call, item>>
          /\ \/ Answer(r, "ok", items[item[r]].version, processed[Op(r)].rev)
             \/ Answer(r, "notfound", 0, 0)
      BY <1>6 DEF Replay
    <2>2. CASE Answer(r, "ok", items[item[r]].version, processed[Op(r)].rev)
      <3>1. /\ pc'[r] = "done" /\ reply'[r].version = items[item[r]].version
            /\ reply'[r].rev = processed[Op(r)].rev
        BY ONLY <1>2, <2>2
      <3>2. QED
        BY <2>1, <3>1 DEF tables
    <2>3. CASE Answer(r, "notfound", 0, 0)
      <3>1. reply'[r].code = "notfound"
        BY ONLY <1>2, <2>3
      <3>2. QED
        BY <3>1
    <2>4. QED
      BY <2>1, <2>2, <2>3
  <1>7. CASE MarkProcessed(r)
    BY <1>2, <1>7 DEF MarkProcessed, DirectMark, After
  <1>8. CASE Commit(r)
    BY <1>2, <1>8 DEF Commit, After
  <1>9. QED
    BY <1>3, <1>4, <1>5, <1>6, <1>7, <1>8 DEF CallStep, Step

-----------------------------------------------------------------------------
LEMMA MixedRows ==
  ASSUME MixedInv, NEW r \in Calls, CallStep(r)
  PROVE  RowsIsolated'
  <1>1. TypeInv /\ TypeOK /\ CallsTyped /\ RowsIsolated
    BY DEF MixedInv, TypeInv
  <1>2. ASSUME NEW s \in Calls, HoldsRow(s)', s # r
        PROVE  /\ HoldsRow(s) /\ item'[s] = item[s] /\ item[s] \in Items
               /\ items'[item[s]] = items[item[s]]
    <2>1. HoldsRow(s) /\ item'[s] = item[s]
      BY <1>1, <1>2, Frame, HoldsFrame
    <2>2. item[s] \in Items
      BY <1>1, <2>1, CallFacts DEF HoldsRow
    <2>3. ~(Commit(r) /\ item[s] = item[r])
      BY <1>1, <1>2, <2>1, CommitHolds DEF RowsIsolated
    <2>4. ~(DirectWrite(r) /\ item[s] = item'[r])
      BY <1>2, <2>1 DEF DirectWrite
    <2>5. QED
      BY <2>1, <2>2, <2>3, <2>4, Grows
  <1>3. ASSUME HoldsRow(r)'
        PROVE  /\ items' = items
               /\ IF Kind(r)' = "create" THEN ~Present(item'[r])
                                         ELSE Matches(item'[r], Exp(r)')
               /\ \A s \in Calls \ {r} : HoldsRow(s) => item[s] # item'[r]
    <2>1. call'[r] = call[r] /\ Tx(r) /\ ~Commit(r)
      BY <1>1, <1>3, TakesRow, CommitTables DEF HoldsRow, Tx
    <2>2. items' = items
      BY <1>1, <2>1, TablesStep DEF DirectWrite, DirectAppend, DirectMark
    <2>3. Kind(r)' = Kind(r) /\ Exp(r)' = Exp(r)
      BY <2>1 DEF Kind, Exp
    <2>4. CASE HoldsRow(r) /\ item'[r] = item[r]
      BY <1>1, <2>2, <2>3, <2>4 DEF RowsIsolated
    <2>5. CASE ~(HoldsRow(r) /\ item'[r] = item[r])
      BY <1>1, <1>3, <2>2, <2>3, <2>5, TakesRow
    <2>6. QED
      BY <2>4, <2>5
  <1>4. ASSUME NEW s \in Calls, HoldsRow(s)'
        PROVE  IF Kind(s)' = "create" THEN ~Present(item[s])'
                                      ELSE Matches(item[s], Exp(s))'
    <2>1. CASE s = r
      BY <2>1, <1>3, <1>4 DEF Present, Matches
    <2>2. CASE s # r
      BY <1>1, <1>2, <1>4, <2>2, HoldsFrame DEF RowsIsolated, Present, Matches
    <2>3. QED
      BY <2>1, <2>2
  <1>5. ASSUME NEW s \in Calls, NEW t \in Calls, HoldsRow(s)', HoldsRow(t)',
               item'[t] = item'[s]
        PROVE  t = s
    <2>1. CASE s # r /\ t # r
      BY <1>1, <1>2, <1>5, <2>1 DEF RowsIsolated
    <2>2. CASE s = r \/ t = r
      BY <1>2, <1>3, <1>5, <2>2
    <2>3. QED
      BY <2>1, <2>2
  <1>6. QED
    BY <1>4, <1>5 DEF RowsIsolated

LEMMA MixedOps ==
  ASSUME MixedInv, NEW r \in Calls, CallStep(r)
  PROVE  OpsIsolated'
  <1>1. TypeInv /\ TypeOK /\ CallsTyped /\ OpsIsolated
    BY DEF MixedInv, TypeInv
  <1>2. ASSUME NEW s \in Calls, HoldsOp(s)', s # r
        PROVE  HoldsOp(s) /\ Op(s)' = Op(s) /\ \A e \in log' : e.op # Op(s)
    <2>1. HoldsOp(s) /\ Op(s)' = Op(s)
      BY <1>1, <1>2, HoldsFrame
    <2>2. \A e \in log : e.op # Op(s)
      BY <1>1, <2>1 DEF OpsIsolated
    <2>3. DirectAppend(r) \/ Commit(r) => Op(s) # Op(r)
      BY <1>1, <1>2, <2>1, CommitHolds DEF DirectAppend, OpFree, OpsIsolated
    <2>4. QED
      BY <2>1, <2>2, <2>3, LogGrows
  <1>3. ASSUME HoldsOp(r)'
        PROVE  /\ Op(r)' = Op(r) /\ \A e \in log' : e.op # Op(r)
               /\ \A s \in Calls \ {r} : HoldsOp(s) => Op(s) # Op(r)
    <2>1. call'[r] = call[r] /\ Tx(r) /\ ~Commit(r)
      BY <1>1, <1>3, TakesOp, CommitTables DEF HoldsOp, Tx
    <2>2. log' = log
      BY <1>1, <2>1, TablesStep DEF DirectWrite, DirectAppend, DirectMark
    <2>3. Op(r)' = Op(r)
      BY <2>1 DEF Op
    <2>4. QED
      BY <1>1, <1>3, <2>2, <2>3, TakesOp DEF OpsIsolated, OpFree
  <1>4. ASSUME NEW s \in Calls, HoldsOp(s)'
        PROVE  \A e \in log' : e.op # Op(s)'
    BY <1>2, <1>3, <1>4
  <1>5. ASSUME NEW s \in Calls, NEW t \in Calls, HoldsOp(s)', HoldsOp(t)',
               Op(t)' = Op(s)'
        PROVE  t = s
    <2>1. CASE s # r /\ t # r
      BY <1>1, <1>2, <1>5, <2>1 DEF OpsIsolated
    <2>2. CASE s = r \/ t = r
      BY <1>2, <1>3, <1>5, <2>2
    <2>3. QED
      BY <2>1, <2>2
  <1>6. QED
    BY <1>4, <1>5 DEF OpsIsolated

LEMMA MixedTables ==
  ASSUME MixedInv, NEW r \in Calls, CallStep(r)
  PROVE  LoggedVersions' /\ ProcessedLogged' /\ EmptyRows'
  <1>1. /\ log \subseteq LogRows /\ \A e \in log : e.item \in Items /\ e.version \in Nat
        /\ CallsTyped /\ TypeInv
    BY DEF MixedInv, TypeInv, TypeOK, TablesTypeOK, LogRows
  <1>2. ASSUME NEW e \in log' PROVE e.version <= items'[e.item].version
    <2>1. CASE e \in log
      <3>1. /\ e.version <= items[e.item].version /\ e.version \in Nat
            /\ e.item \in Items
        BY <1>1, <2>1 DEF MixedInv, LoggedVersions
      <3>2. /\ items'[e.item].version \in Nat /\ items[e.item].version \in Nat
            /\ items'[e.item].version \in {items[e.item].version, items[e.item].version + 1}
        BY <3>1, Grows
      <3>3. QED
        BY <3>1, <3>2
    <2>2. CASE e \notin log /\ DirectAppend(r)
      <3>1. e.item = item[r] /\ e.version = After(r) /\ Unlogged(r)
        BY <2>2, LogGrows DEF DirectAppend, Unlogged
      <3>2. QED
        BY <2>2, <3>1 DEF DirectAppend, MixedInv, CallInv
    <2>3. CASE e \notin log /\ Commit(r)
      <3>1. e.item = item[r] /\ e.version = After(r) /\ item[r] \in Items
        BY <1>1, <2>3, LogGrows, CallFacts DEF Commit
      <3>2. QED
        BY <2>3, <3>1, Grows
    <2>4. QED
      BY <2>1, <2>2, <2>3, LogGrows
  <1>3. ASSUME NEW op \in Ops, processed'[op] # NoProcessed
        PROVE  \E e \in log' : /\ e.op = op /\ e.item = processed'[op].item
                               /\ e.rev = processed'[op].rev
    <2>1. CASE processed'[op] = processed[op]
      BY <1>3, <2>1, LogGrows DEF MixedInv, ProcessedLogged
    <2>2. CASE processed'[op] # processed[op]
      <3>1. /\ op = Op(r) /\ processed'[op] = [item |-> item[r], rev |-> rev[r]]
            /\ LogRow(Kind(r), Op(r), item[r], Exp(r), rev[r]) \in log'
        BY <2>2, ProcessedGrows, Zenon
      <3>2. processed'[op].item = item[r] /\ processed'[op].rev = rev[r]
        BY <3>1
      <3>3. QED
        BY <3>1, <3>2, LogGrows
    <2>3. QED
      BY <2>1, <2>2
  <1>4. ASSUME NEW i \in Items, ~Present(i)' PROVE ~items'[i].deleted
    <2>1. items'[i] = items[i]
      BY <1>4, Grows DEF Present
    <2>2. QED
      BY <1>4, <2>1 DEF MixedInv, EmptyRows, Present
  <1>5. QED
    BY <1>2, <1>3, <1>4 DEF LoggedVersions, ProcessedLogged, EmptyRows

\* How the unlogged write of a call comes about.
LEMMA UnloggedStep ==
  ASSUME MixedInv, NEW r \in Calls, CallStep(r), Unlogged(r)'
  PROVE  /\ call'[r] = call[r] /\ After(r)' = After(r) /\ log' = log
         /\ \/ DirectWrite(r)
            \/ Unlogged(r) /\ item'[r] = item[r] /\ items' = items
  <1>1. TypeInv /\ TypeOK
    BY DEF MixedInv, TypeInv
  <1>2. /\ call'[r] = call[r] /\ pc[r] \in {"write", "nextval"}
        /\ pc'[r] \in {"nextval", "append"} /\ pc[r] # pc'[r]
        /\ pc[r] = "nextval" => item'[r] = item[r]
    BY <1>1, Moves DEF Unlogged
  <1>3. After(r)' = After(r) /\ ~Tx(r)
    BY <1>2 DEF After, Kind, Exp, Tx, Unlogged
  <1>4. CASE pc[r] = "nextval"
    BY <1>1, <1>2, <1>3, <1>4, TablesStep DEF Unlogged, DirectWrite, DirectAppend,
       DirectMark, Commit
  <1>5. CASE pc[r] = "write"
    <2>1. CreateItem(r) \/ UpdateItem(r) \/ DeleteItem(r)
      BY <1>1, <1>2, <1>5 DEF TypeOK, CallStep, Step, pushCreate, pushUpdate,
           pushDelete, directCreate, directUpdate, directDelete, Enter, Reject,
           Abort, Answer, Goto, Lookup, Replay, GetItem, versionConflict,
           NextRevision, AppendRevision, MarkProcessed, Commit
    <2>2. CASE CreateItem(r)
      <3>1. PICK i \in Items : /\ Fresh(i) /\ item' = [item EXCEPT ![r] = i]
                               /\ WriteRow(r, i)
        BY <2>2 DEF CreateItem
      <3>2. item'[r] = i /\ pc'[r] = "nextval"
        BY <1>1, <3>1 DEF WriteRow, Goto, TypeOK
      <3>3. QED
        BY <1>2, <1>3, <1>5, <2>2, <3>1, <3>2 DEF CreateItem, WriteRow, DirectWrite, Fresh
    <2>3. CASE UpdateItem(r) \/ DeleteItem(r)
      <3>1. GuardedWrite(r) /\ item[r] \in Items /\ Kind(r) # "create"
        BY <1>1, <1>5, <2>3, CallFacts DEF UpdateItem, DeleteItem, TypeInv
      <3>2. Matches(item[r], Exp(r)) /\ WriteRow(r, item[r])
        BY <1>1, <1>2, <3>1 DEF GuardedWrite, Conflict, Answer, Goto, TypeOK
      <3>3. item'[r] = item[r] /\ pc'[r] = "nextval"
        BY <1>1, <3>1, <3>2 DEF GuardedWrite, WriteRow, Goto, TypeOK
      <3>4. QED
        BY <1>2, <1>3, <1>5, <3>1, <3>2, <3>3 DEF GuardedWrite, WriteRow, RowFree, DirectWrite
    <2>4. QED
      BY <2>1, <2>2, <2>3
  <1>6. QED
    BY <1>2, <1>3, <1>4, <1>5

\* No other unlogged write is of the version that a call writes or logs.
LEMMA UnloggedApart ==
  ASSUME MixedInv, NEW r \in Calls, CallStep(r), NEW s \in Calls, s # r, Unlogged(s)
  PROVE  /\ DirectAppend(r) \/ Commit(r) => item[s] # item[r] \/ After(s) # After(r)
         /\ DirectWrite(r) => item[s] # item'[r] \/ After(s) # After(r)
         /\ item[s] \in Items /\ After(s) \in Nat
  <1>1. CallsTyped /\ CallInv(s)
    BY DEF MixedInv, TypeInv
  <1>2. item[s] \in Items /\ Exp(s) \in Nat
    BY <1>1, CallFacts DEF Unlogged
  <1>3. After(s) \in Nat
    BY <1>2 DEF After, VersionAfter
  <1>4. After(s) <= items[item[s]].version /\ items[item[s]].version \in Nat
    BY <1>1, <1>2, Grows DEF CallInv
  <1>5. CASE DirectAppend(r)
    BY <1>1, <1>2, <1>3, <1>5 DEF CallInv, DirectAppend, DirectWrite, Commit, Unlogged
  <1>6. CASE Commit(r)
    <2>1. ~DirectWrite(r)
      BY <1>6 DEF DirectWrite, Commit
    <2>2. item[s] = item[r] => After(r) = items[item[s]].version + 1
      BY <1>2, <1>6, Grows
    <2>3. QED
      BY <1>2, <1>3, <1>4, <2>1, <2>2
  <1>7. CASE DirectWrite(r)
    <2>1. ~DirectAppend(r) /\ ~Commit(r)
      BY <1>7 DEF DirectWrite, DirectAppend, Commit
    <2>2. item[s] = item'[r] => After(r) = items[item[s]].version + 1
      BY <1>2, <1>7, Grows
    <2>3. QED
      BY <1>2, <1>3, <1>4, <2>1, <2>2
  <1>8. QED
    BY <1>2, <1>3, <1>5, <1>6, <1>7

LEMMA MixedCalls ==
  ASSUME MixedInv, NEW r \in Calls, CallStep(r), NEW s \in Calls
  PROVE  CallInv(s)'
  <1>1. TypeInv /\ TypeOK /\ CallsTyped /\ CallInv(s) /\ CallInv(r)
    BY DEF MixedInv, TypeInv
  <1>2. ASSUME NEW t \in Calls, t # r
        PROVE  /\ pc'[t] = pc[t] /\ item'[t] = item[t] /\ reply'[t] = reply[t]
               /\ rev'[t] = rev[t] /\ Tx(t)' = Tx(t) /\ Unlogged(t)' = Unlogged(t)
               /\ After(t)' = After(t) /\ Op(t)' = Op(t) /\ Kind(t)' = Kind(t)
               /\ Exp(t)' = Exp(t)
    BY <1>1, <1>2, Frame DEF Tx, Unlogged, After, Op, Kind, Exp
  <1>3. pc'[s] = "commit" => Tx(s)'
    <2>1. CASE s # r
      BY <1>1, <1>2, <2>1 DEF CallInv
    <2>2. CASE s = r /\ pc'[r] = "commit"
      <3>1. pc[r] = "mark" /\ call'[r] = call[r]
        BY <1>1, <2>2, Moves
      <3>2. MarkProcessed(r)
        BY <1>1, <2>2, <3>1 DEF TypeOK, CallStep, Step, pushCreate, pushUpdate,
           pushDelete, directCreate, directUpdate, directDelete, Enter, Reject,
           Abort, Answer, Goto, Lookup, Replay, GetItem, versionConflict, CreateItem,
           UpdateItem, DeleteItem, NextRevision, AppendRevision, Commit
      <3>3. QED
        BY <1>1, <2>2, <3>1, <3>2 DEF MarkProcessed, Answer, Goto, Tx, TypeOK
    <2>3. QED
      BY <2>1, <2>2
  <1>4. reply'[s].code = "ok" => pc'[s] = "done"
    <2>1. CASE s # r
      BY <1>1, <1>2, <2>1 DEF CallInv
    <2>2. CASE s = r /\ reply'[r] # reply[r]
      BY <2>2, Successes
    <2>3. CASE s = r /\ reply'[r] = reply[r]
      <3>1. pc[r] # "done"
        BY <1>1, Moves DEF CallStep, Step, pushCreate, pushUpdate, pushDelete,
           directCreate, directUpdate, directDelete, Enter, Reject, Abort, Lookup,
           Replay, GetItem, versionConflict, CreateItem, UpdateItem, DeleteItem,
           NextRevision, AppendRevision, MarkProcessed, Commit
      <3>2. QED
        BY <1>1, <2>3, <3>1 DEF CallInv
    <2>4. QED
      BY <2>1, <2>2, <2>3
  <1>5. pc'[s] = "replay" => /\ processed'[Op(s)'] # NoProcessed
                             /\ item'[s] = processed'[Op(s)'].item
    <2>1. SUFFICES ASSUME pc'[s] = "replay"
                   PROVE  /\ processed'[Op(s)'] # NoProcessed
                          /\ item'[s] = processed'[Op(s)'].item
      OBVIOUS
    <2>2. CASE s # r
      <3>1. Op(s) \in Ops /\ Op(s)' = Op(s)
        BY <1>1, <1>2, <2>1, <2>2, CallFacts
      <3>2. processed[Op(s)] # NoProcessed /\ item[s] = processed[Op(s)].item
        BY <1>1, <1>2, <2>1, <2>2 DEF CallInv
      <3>3. processed'[Op(s)] = processed[Op(s)]
        BY <3>1, <3>2, ProcessedGrows
      <3>4. QED
        BY <1>2, <2>2, <3>1, <3>2, <3>3
    <2>3. CASE s = r
      <3>1. /\ call'[r] = call[r] /\ pc[r] = "lookup"
            /\ processed[Op(r)] # NoProcessed /\ item'[r] = processed[Op(r)].item
        BY <1>1, <2>1, <2>3, Moves
      <3>2. Op(r) \in Ops /\ Op(r)' = Op(r)
        BY <1>1, <3>1, CallFacts DEF Op
      <3>3. processed'[Op(r)] = processed[Op(r)]
        BY <3>1, <3>2, ProcessedGrows
      <3>4. QED
        BY <2>3, <3>1, <3>2, <3>3
    <2>4. QED
      BY <2>2, <2>3
  <1>6. ASSUME Unlogged(s)'
        PROVE  /\ After(s)' <= items'[item'[s]].version
               /\ \A e \in log' : e.item = item'[s] => e.version # After(s)'
               /\ \A t \in Calls :
                    Unlogged(t)' /\ item'[t] = item'[s] /\ After(t)' = After(s)' => t = s
    <2>1. CASE s # r
      <3>1. /\ Unlogged(s) /\ item[s] \in Items /\ After(s) \in Nat
            /\ item'[s] = item[s] /\ After(s)' = After(s)
        BY <1>2, <1>6, <2>1, UnloggedApart
      <3>2. After(s) <= items'[item[s]].version
        <4>1. /\ After(s) <= items[item[s]].version
              /\ items'[item[s]].version \in Nat /\ items[item[s]].version \in Nat
              /\ items'[item[s]].version \in
                   {items[item[s]].version, items[item[s]].version + 1}
          BY <1>1, <3>1, Grows DEF CallInv
        <4>2. QED
          BY <3>1, <4>1
      <3>3. ASSUME NEW e \in log', e.item = item[s] PROVE e.version # After(s)
        <4>1. CASE e \in log
          BY <1>1, <3>1, <3>3, <4>1 DEF CallInv
        <4>2. CASE e \notin log
          BY <2>1, <3>1, <3>3, <4>2, LogGrows, UnloggedApart
        <4>3. QED
          BY <4>1, <4>2
      <3>4. ASSUME NEW t \in Calls, Unlogged(t)', item'[t] = item[s], After(t)' = After(s)
            PROVE  t = s
        <4>1. CASE t # r
          BY <1>1, <1>2, <3>1, <3>4, <4>1 DEF CallInv
        <4>2. CASE t = r
          <5>1. /\ After(r) = After(s) /\ item'[r] = item[s]
                /\ DirectWrite(r) \/ (Unlogged(r) /\ item'[r] = item[r])
            BY <3>4, <4>2, UnloggedStep
          <5>2. QED
            BY <1>1, <2>1, <3>1, <4>2, <5>1, UnloggedApart DEF CallInv
        <4>3. QED
          BY <4>1, <4>2
      <3>5. QED
        BY <3>1, <3>2, <3>3, <3>4
    <2>2. CASE s = r /\ DirectWrite(r)
      <3>1. /\ After(r)' = After(r) /\ log' = log /\ item'[r] \in Items
            /\ items'[item'[r]].version = After(r)
            /\ items'[item'[r]].version = items[item'[r]].version + 1
            /\ items[item'[r]].version \in Nat
        BY <1>6, <2>2, UnloggedStep, Grows DEF DirectWrite
      <3>2. ASSUME NEW e \in log', e.item = item'[r] PROVE e.version # After(r)
        <4>1. e.version <= items[item'[r]].version /\ e.version \in Nat
          BY <1>1, <3>1, <3>2 DEF MixedInv, LoggedVersions, TypeOK, TablesTypeOK, LogRows
        <4>2. QED
          BY <3>1, <4>1
      <3>3. ASSUME NEW t \in Calls, Unlogged(t)', item'[t] = item'[r], After(t)' = After(r)
            PROVE  t = r
        BY <1>2, <2>2, <3>3, UnloggedApart
      <3>4. QED
        BY <2>2, <3>1, <3>2, <3>3
    <2>3. CASE s = r /\ ~DirectWrite(r)
      <3>1. /\ After(r)' = After(r) /\ log' = log /\ Unlogged(r)
            /\ item'[r] = item[r] /\ items' = items
        BY <1>6, <2>3, UnloggedStep
      <3>2. ASSUME NEW t \in Calls, Unlogged(t)', item'[t] = item[r], After(t)' = After(r)
            PROVE  t = r
        BY <1>1, <1>2, <3>1, <3>2 DEF CallInv
      <3>3. QED
        BY <1>1, <2>3, <3>1, <3>2 DEF CallInv
    <2>4. QED
      BY <2>1, <2>2, <2>3
  <1>7. ~Tx(s)' /\ pc'[s] = "mark" =>
          LogRow(Kind(s)', Op(s)', item'[s], Exp(s)', rev'[s]) \in log'
    <2>1. CASE s # r
      BY <1>1, <1>2, <2>1, LogGrows DEF CallInv
    <2>2. CASE s = r /\ ~Tx(r)' /\ pc'[r] = "mark"
      <3>1. call'[r] = call[r] /\ pc[r] = "append" /\ item'[r] = item[r]
        BY <1>1, <2>2, Moves
      <3>2. AppendRevision(r)
        BY <1>1, <2>2, <3>1 DEF TypeOK, CallStep, Step, pushCreate, pushUpdate,
           pushDelete, directCreate, directUpdate, directDelete, Enter, Reject,
           Abort, Answer, Goto, Lookup, Replay, GetItem, versionConflict, CreateItem,
           UpdateItem, DeleteItem, NextRevision, MarkProcessed, Commit
      <3>3. ~Tx(r) /\ rev'[r] = rev[r] /\ Kind(r)' = Kind(r) /\ Op(r)' = Op(r)
              /\ Exp(r)' = Exp(r)
        BY <2>2, <3>1, <3>2 DEF Tx, Kind, Op, Exp, AppendRevision
      <3>4. LogRow(Kind(r), Op(r), item[r], Exp(r), rev[r]) \in log'
        BY <1>1, <2>2, <3>2, <3>3 DEF AppendRevision, Answer, Goto, TypeOK
      <3>5. QED
        BY <2>2, <3>1, <3>3, <3>4
    <2>3. QED
      BY <2>1, <2>2
  <1>8. QED
    BY <1>3, <1>4, <1>5, <1>6, <1>7 DEF CallInv

LEMMA MixedAcks ==
  ASSUME MixedInv, NEW r \in Calls, CallStep(r)
  PROVE  AckIsLogged'
  <1>1. TypeInv /\ TypeOK /\ CallsTyped /\ CallInv(r)
    BY DEF MixedInv, TypeInv
  <1> SUFFICES ASSUME NEW s \in Calls, reply'[s].code = "ok"
               PROVE  \E e \in log' : /\ e.op = Op(s)' /\ e.rev = reply'[s].rev
                                      /\ e.item = item'[s]
                                      /\ e.version <= reply'[s].version
    BY DEF AckIsLogged
  <1>2. ASSUME reply[s].code = "ok", reply'[s] = reply[s], Op(s)' = Op(s),
               item'[s] = item[s]
        PROVE  \E e \in log' : /\ e.op = Op(s)' /\ e.rev = reply'[s].rev
                               /\ e.item = item'[s] /\ e.version <= reply'[s].version
    BY <1>2, LogGrows DEF MixedInv, AckIsLogged
  <1>3. CASE s # r
    BY <1>1, <1>2, <1>3, Frame DEF Op
  <1>4. CASE s = r /\ reply'[r] = reply[r]
    <2>1. pc[r] = "done"
      BY <1>1, <1>4 DEF CallInv
    <2>2. FALSE
      BY <2>1 DEF CallStep, Step, pushCreate, pushUpdate, pushDelete,
         directCreate, directUpdate, directDelete, Enter, Reject, Abort, Lookup,
         Replay, GetItem, versionConflict, CreateItem, UpdateItem, DeleteItem,
         NextRevision, AppendRevision, MarkProcessed, Commit
    <2>3. QED
      BY <2>2
  <1>5. CASE s = r /\ reply'[r] # reply[r]
    <2>1. item'[r] = item[r] /\ Op(r)' = Op(r)
      BY <1>5, Successes DEF Op
    <2>2. CASE pc[r] = "replay" /\ log' = log
               /\ reply'[r].version = items[item[r]].version
               /\ reply'[r].rev = processed[Op(r)].rev
      <3>1. /\ Op(r) \in Ops /\ processed[Op(r)] # NoProcessed
            /\ item[r] = processed[Op(r)].item
        BY <1>1, <2>2, CallFacts DEF CallInv
      <3>2. PICK e \in log : /\ e.op = Op(r) /\ e.item = item[r]
                             /\ e.rev = processed[Op(r)].rev
        BY <3>1 DEF MixedInv, ProcessedLogged
      <3>3. e.version <= items[item[r]].version
        BY <3>2 DEF MixedInv, LoggedVersions
      <3>4. QED
        BY <1>5, <2>1, <2>2, <3>2, <3>3
    <2>3. CASE /\ DirectMark(r) \/ Commit(r)
               /\ reply'[r].version = After(r) /\ reply'[r].rev = rev[r]
      <3>1. LogRow(Kind(r), Op(r), item[r], Exp(r), rev[r]) \in log'
        BY <1>1, <2>3 DEF DirectMark, Commit, CallInv
      <3>2. PICK e \in log' : /\ e.op = Op(r) /\ e.item = item[r] /\ e.rev = rev[r]
                              /\ e.version = After(r)
        BY <3>1, LogGrows
      <3>3. After(r) \in Nat
        <4>1. Exp(r) \in Nat
          BY <1>1, <2>3, CallFacts DEF DirectMark, Commit
        <4>2. QED
          BY <4>1 DEF After, VersionAfter
      <3>4. QED
        BY <1>5, <2>1, <2>3, <3>2, <3>3
    <2>4. QED
      BY <1>5, <2>2, <2>3, Successes
  <1>6. QED
    BY <1>3, <1>4, <1>5

LEMMA MixedWinners ==
  ASSUME MixedInv, NEW r \in Calls, CallStep(r)
  PROVE  OneWinnerPerVersion'
  <1>1. TypeInv /\ TypeOK /\ CallsTyped /\ CallInv(r) /\ OneWinnerPerVersion
    BY DEF MixedInv, TypeInv
  <1>2. ASSUME NEW e \in log' \ log, NEW f \in log
        PROVE  e.op # f.op /\ ~(e.item = f.item /\ e.version = f.version)
    <2>1. e.op = Op(r) /\ e.item = item[r] /\ e.version = After(r)
      BY LogGrows
    <2>2. CASE DirectAppend(r)
      BY <1>1, <2>1, <2>2 DEF DirectAppend, CallInv, Unlogged
    <2>3. CASE Commit(r)
      <3>1. f.op # Op(r) /\ item[r] \in Items
        BY <1>1, <2>3, CommitHolds, CommitTables DEF MixedInv, OpsIsolated
      <3>2. ASSUME f.item = item[r] PROVE f.version # After(r)
        <4>1. f.version <= items[item[r]].version /\ f.version \in Nat
          BY <1>1, <3>2 DEF MixedInv, LoggedVersions, TypeOK, TablesTypeOK, LogRows
        <4>2. After(r) = items[item[r]].version + 1 /\ items[item[r]].version \in Nat
          BY <2>3, <3>1, Grows
        <4>3. QED
          BY <4>1, <4>2
      <3>3. QED
        BY <2>1, <3>1, <3>2
    <2>4. QED
      BY <2>2, <2>3, LogGrows
  <1>3. ASSUME NEW e \in log' \ log, NEW f \in log' \ log PROVE e = f
    BY <1>3, LogGrows
  <1>4. QED
    BY <1>1, <1>2, <1>3 DEF OneWinnerPerVersion

LEMMA InitMixedInv == Init => MixedInv
  <1> SUFFICES ASSUME Init PROVE MixedInv
    OBVIOUS
  <1>1. TypeInv
    BY InitTypeInv
  <1>2. /\ log = {} /\ \A r \in Calls : pc[r] = "idle" /\ reply[r] = NoReply
        /\ \A i \in Items : items[i] = NoRow
        /\ \A op \in Ops : processed[op] = NoProcessed
    BY DEF Init, TablesInit
  <1>3. RowsIsolated /\ OpsIsolated /\ \A r \in Calls : CallInv(r)
    BY <1>2 DEF RowsIsolated, OpsIsolated, CallInv, HoldsRow, HoldsOp, Unlogged, NoReply
  <1>4. LoggedVersions /\ ProcessedLogged /\ EmptyRows
    BY <1>2 DEF LoggedVersions, ProcessedLogged, EmptyRows, NoRow
  <1>5. AckIsLogged /\ OneWinnerPerVersion
    BY <1>2 DEF AckIsLogged, OneWinnerPerVersion, NoReply
  <1>6. QED
    BY <1>1, <1>3, <1>4, <1>5 DEF MixedInv

LEMMA MixedInvStep == MixedInv /\ [Next]_vars => MixedInv'
  <1> SUFFICES ASSUME MixedInv, [Next]_vars PROVE MixedInv'
    OBVIOUS
  <1>1. TypeInv'
    BY TypeInvStep DEF MixedInv
  <1>2. CASE \E r \in Calls : CallStep(r)
    <2>1. PICK r \in Calls : CallStep(r)
      BY <1>2
    <2>2. RowsIsolated' /\ OpsIsolated' /\ LoggedVersions' /\ ProcessedLogged' /\ EmptyRows'
      BY <2>1, MixedRows, MixedOps, MixedTables
    <2>3. AckIsLogged' /\ OneWinnerPerVersion' /\ \A s \in Calls : CallInv(s)'
      BY <2>1, MixedAcks, MixedWinners, MixedCalls
    <2>4. QED
      BY <1>1, <2>2, <2>3 DEF MixedInv
  <1>3. CASE UNCHANGED vars
    <2>1. UNCHANGED <<items, log, processed, seq, pc, call, item, rev, reply>>
      BY <1>3 DEF vars
    <2>2. RowsIsolated' /\ OpsIsolated'
      BY <2>1 DEF MixedInv, RowsIsolated, OpsIsolated, HoldsRow, HoldsOp, Tx, Kind,
         Op, Exp, Present, Matches
    <2>3. LoggedVersions' /\ ProcessedLogged' /\ EmptyRows' /\ AckIsLogged'
            /\ OneWinnerPerVersion'
      BY <2>1 DEF MixedInv, LoggedVersions, ProcessedLogged, EmptyRows, AckIsLogged,
         OneWinnerPerVersion, Present, Op
    <2>4. \A s \in Calls : CallInv(s)'
      BY <2>1 DEF MixedInv, CallInv, Unlogged, After, Tx, Kind, Op, Exp
    <2>5. QED
      BY <1>1, <2>2, <2>3, <2>4 DEF MixedInv
  <1>4. QED
    BY <1>2, <1>3 DEF Next, CallStep

\* The inductive invariant holds on both paths: between the row that a call on the pool
\* writes and its log row, that version of the item is its own; and every processed
\* operation is in the log.
THEOREM MixedInvariant == Spec => []MixedInv
  BY InitMixedInv, MixedInvStep, PTL DEF Spec

\* An acknowledged operation is in the revision log under the revision and on
\* the item its client was told, on either path, whatever the other calls and
\* their failures do.
THEOREM AcknowledgedIsLogged == Spec => []AckIsLogged
  <1>1. MixedInv => AckIsLogged
    BY DEF MixedInv
  <1>2. QED
    BY <1>1, MixedInvariant, PTL

\* Of two writers that expect the same version of an item one succeeds, even
\* when one of them runs in a transaction and the other on the pool.
THEOREM OneWriterWins == Spec => []OneWinnerPerVersion
  <1>1. MixedInv => OneWinnerPerVersion
    BY DEF MixedInv
  <1>2. QED
    BY <1>1, MixedInvariant, PTL

\* On either path a row moves to the next version or stays, and a tombstone
\* stays for good.
THEOREM NoUpdateLost == Spec => NoLostUpdate
  <1>1. MixedInv /\ [Next]_vars =>
          [\A i \in Items :
             items'[i] # items[i] => /\ items'[i].version = items[i].version + 1
                                     /\ ~items[i].deleted]_vars
    <2> SUFFICES ASSUME MixedInv, NEW r \in Calls, CallStep(r), NEW i \in Items,
                        items'[i] # items[i]
                 PROVE  items'[i].version = items[i].version + 1 /\ ~items[i].deleted
      BY DEF Next, CallStep
    <2>1. QED
      BY Grows
  <1>2. QED
    BY <1>1, MixedInvariant, PTL DEF Spec, NoLostUpdate

-----------------------------------------------------------------------------
(***************************************************************************)
(* The push path implements the atomic store.  The invariant says what     *)
(* each open transaction relies on (TxIsolated).  It makes Commit an Apply *)
(* of the store; drawing a revision number is a Reserve, ending without a  *)
(* commit after that is a Release, and every other step leaves the store   *)
(* as it is.                                                               *)
(***************************************************************************)
PushOnly == Paths = {"push"}

\* On the push path every call inside the engine runs in a transaction.
LEMMA AllTx ==
  ASSUME PushOnly, CallsTyped, NEW r \in Calls, pc[r] \notin {"idle", "done"}
  PROVE  Tx(r)
  BY CallFacts DEF PushOnly, Tx

\* Only Commit changes a table, and only NextRevision draws a number.
LEMMA PushTables ==
  ASSUME PushOnly, TypeInv, NEW r \in Calls, CallStep(r)
  PROVE  /\ ~Commit(r) => UNCHANGED <<items, log, processed>>
         /\ ~NextRevision(r) => UNCHANGED <<seq, rev>>
  <1>1. CallsTyped
    BY DEF TypeInv
  <1>2. CASE pushCreate(r) \/ pushUpdate(r) \/ pushDelete(r) \/ directCreate(r)
               \/ directUpdate(r) \/ directDelete(r)
    BY <1>2 DEF pushCreate, pushUpdate, pushDelete, directCreate, directUpdate,
                directDelete, Enter, tables
  <1>3. CASE Reject(r) \/ Abort(r) \/ Lookup(r) \/ Replay(r) \/ GetItem(r)
               \/ versionConflict(r)
    BY <1>3 DEF Reject, Abort, Lookup, Replay, GetItem, versionConflict, tables
  <1>4. CASE CreateItem(r) \/ UpdateItem(r) \/ DeleteItem(r)
    <2>1. Tx(r)
      BY <1>1, <1>4, AllTx DEF CreateItem, UpdateItem, DeleteItem
    <2>2. QED
      BY <1>4, <2>1 DEF CreateItem, UpdateItem, DeleteItem, GuardedWrite, WriteRow
  <1>5. CASE AppendRevision(r) \/ MarkProcessed(r)
    <2>1. Tx(r)
      BY <1>1, <1>5, AllTx DEF AppendRevision, MarkProcessed
    <2>2. QED
      BY <1>5, <2>1 DEF AppendRevision, MarkProcessed
  <1>6. CASE NextRevision(r) \/ Commit(r)
    BY <1>6 DEF NextRevision, Commit
  <1>7. QED
    BY <1>2, <1>3, <1>4, <1>5, <1>6 DEF CallStep, Step

\* A call has a number because it had one or because it has just drawn it.
LEMMA TakesRev ==
  ASSUME TypeOK, NEW r \in Calls, CallStep(r), Drawn(r)'
  PROVE  /\ item'[r] = item[r] /\ HoldsRow(r)
         /\ Drawn(r) \/ NextRevision(r)
  <1>1. pc'[r] \in {"append", "mark", "commit"}
    BY DEF Drawn
  <1>2. call'[r] = call[r] /\ pc[r] \in {"nextval", "append", "mark"} /\ item'[r] = item[r]
    BY <1>1, Moves
  <1>3. HoldsRow(r)
    BY <1>2 DEF HoldsRow, Drawn, Tx
  <1>4. CASE pc[r] = "nextval"
    <2>1. NextRevision(r)
      BY <1>1, <1>4 DEF TypeOK, CallStep, Step, pushCreate, pushUpdate, pushDelete,
           directCreate, directUpdate, directDelete, Enter, Reject, Abort, Answer,
           Goto, Lookup, Replay, GetItem, versionConflict, CreateItem, UpdateItem,
           DeleteItem, AppendRevision, MarkProcessed, Commit
    <2>2. QED
      BY <1>2, <1>3, <2>1
  <1>5. CASE pc[r] # "nextval"
    BY <1>2, <1>3, <1>5 DEF Drawn, Tx
  <1>6. QED
    BY <1>4, <1>5

LEMMA RowsIsolatedStep ==
  ASSUME PushOnly, EngineInv, NEW r \in Calls, CallStep(r)
  PROVE  RowsIsolated'
  <1>1. TypeInv /\ TypeOK /\ CallsTyped /\ RowsIsolated
    BY DEF EngineInv, TypeInv, TxIsolated
  <1>2. ASSUME NEW s \in Calls, HoldsRow(s)', s # r
        PROVE  /\ HoldsRow(s) /\ item'[s] = item[s] /\ item[s] \in Items
               /\ items'[item[s]] = items[item[s]]
    <2>1. HoldsRow(s) /\ item'[s] = item[s]
      BY <1>1, <1>2, Frame, HoldsFrame
    <2>2. item[s] \in Items
      BY <1>1, <2>1, CallFacts DEF HoldsRow
    <2>3. CASE Commit(r)
      <3>1. HoldsRow(r)
        BY <1>1, <2>3, AllTx DEF Commit, HoldsRow
      <3>2. item[s] # item[r]
        BY <1>1, <1>2, <2>1, <3>1 DEF RowsIsolated
      <3>3. QED
        BY <1>1, <2>1, <2>2, <2>3, <3>2, CommitTables
    <2>4. CASE ~Commit(r)
      BY <1>1, <2>1, <2>2, <2>4, PushTables
    <2>5. QED
      BY <2>3, <2>4
  <1>3. ASSUME HoldsRow(r)'
        PROVE  /\ items' = items
               /\ IF Kind(r)' = "create" THEN ~Present(item'[r])
                                         ELSE Matches(item'[r], Exp(r)')
               /\ \A s \in Calls \ {r} : HoldsRow(s) => item[s] # item'[r]
    <2>1. ~Commit(r)
      BY <1>1, <1>3, CommitTables DEF HoldsRow
    <2>2. items' = items
      BY <1>1, <2>1, PushTables
    <2>3. Kind(r)' = Kind(r) /\ Exp(r)' = Exp(r)
      BY <1>1, <1>3, TakesRow DEF Kind, Exp
    <2>4. CASE HoldsRow(r) /\ item'[r] = item[r]
      BY <1>1, <2>2, <2>3, <2>4 DEF RowsIsolated
    <2>5. CASE ~(HoldsRow(r) /\ item'[r] = item[r])
      BY <1>1, <1>3, <2>2, <2>3, <2>5, TakesRow
    <2>6. QED
      BY <2>4, <2>5
  <1>4. ASSUME NEW s \in Calls, HoldsRow(s)'
        PROVE  IF Kind(s)' = "create" THEN ~Present(item[s])'
                                      ELSE Matches(item[s], Exp(s))'
    <2>1. CASE s = r
      BY <2>1, <1>3, <1>4 DEF Present, Matches
    <2>2. CASE s # r
      BY <1>1, <1>2, <1>4, <2>2, HoldsFrame DEF RowsIsolated, Present, Matches
    <2>3. QED
      BY <2>1, <2>2
  <1>5. ASSUME NEW s \in Calls, NEW t \in Calls, HoldsRow(s)', HoldsRow(t)',
               item'[t] = item'[s]
        PROVE  t = s
    <2>1. CASE s # r /\ t # r
      BY <1>1, <1>2, <1>5, <2>1 DEF RowsIsolated
    <2>2. CASE s = r \/ t = r
      BY <1>2, <1>3, <1>5, <2>2
    <2>3. QED
      BY <2>1, <2>2
  <1>6. QED
    BY <1>4, <1>5 DEF RowsIsolated

LEMMA OpsIsolatedStep ==
  ASSUME PushOnly, EngineInv, NEW r \in Calls, CallStep(r)
  PROVE  OpsIsolated'
  <1>1. TypeInv /\ TypeOK /\ CallsTyped /\ OpsIsolated
    BY DEF EngineInv, TypeInv, TxIsolated
  <1>2. ASSUME NEW s \in Calls, HoldsOp(s)', s # r
        PROVE  HoldsOp(s) /\ Op(s)' = Op(s) /\ \A e \in log' : e.op # Op(s)
    <2>1. HoldsOp(s) /\ Op(s)' = Op(s)
      BY <1>1, <1>2, HoldsFrame
    <2>2. \A e \in log : e.op # Op(s)
      BY <1>1, <2>1 DEF OpsIsolated
    <2>3. CASE Commit(r)
      <3>1. HoldsOp(r)
        BY <1>1, <2>3, AllTx DEF Commit, HoldsOp
      <3>2. Op(s) # Op(r)
        BY <1>1, <1>2, <2>1, <3>1 DEF OpsIsolated
      <3>3. QED
        BY <1>1, <2>1, <2>2, <2>3, <3>2, CommitTables
    <2>4. CASE ~Commit(r)
      BY <1>1, <2>1, <2>2, <2>4, PushTables
    <2>5. QED
      BY <2>3, <2>4
  <1>3. ASSUME HoldsOp(r)'
        PROVE  /\ Op(r)' = Op(r) /\ \A e \in log' : e.op # Op(r)
               /\ \A s \in Calls \ {r} : HoldsOp(s) => Op(s) # Op(r)
    <2>1. ~Commit(r)
      BY <1>1, <1>3, CommitTables DEF HoldsOp
    <2>2. log' = log
      BY <1>1, <2>1, PushTables
    <2>3. Op(r)' = Op(r)
      BY <1>1, <1>3, TakesOp DEF Op
    <2>4. QED
      BY <1>1, <1>3, <2>2, <2>3, TakesOp DEF OpsIsolated, OpFree
  <1>4. ASSUME NEW s \in Calls, HoldsOp(s)'
        PROVE  \A e \in log' : e.op # Op(s)'
    BY <1>2, <1>3, <1>4
  <1>5. ASSUME NEW s \in Calls, NEW t \in Calls, HoldsOp(s)', HoldsOp(t)',
               Op(t)' = Op(s)'
        PROVE  t = s
    <2>1. CASE s # r /\ t # r
      BY <1>1, <1>2, <1>5, <2>1 DEF OpsIsolated
    <2>2. CASE s = r \/ t = r
      BY <1>2, <1>3, <1>5, <2>2
    <2>3. QED
      BY <2>1, <2>2
  <1>6. QED
    BY <1>4, <1>5 DEF OpsIsolated

LEMMA RevsIsolatedStep ==
  ASSUME PushOnly, EngineInv, NEW r \in Calls, CallStep(r)
  PROVE  RevsIsolated'
  <1>1. /\ TypeInv /\ TypeOK /\ CallsTyped /\ LogBounded
        /\ RowsIsolated /\ RevsIsolated
        /\ seq \in Nat /\ \A e \in log : e.rev \in Nat
        /\ \A s \in Calls : rev[s] \in Nat
    BY DEF EngineInv, TypeInv, TxIsolated, TypeOK, TablesTypeOK, LogRows
  <1>2. ASSUME NEW s \in Calls, Drawn(s)', s # r
        PROVE  /\ Drawn(s) /\ rev'[s] = rev[s] /\ item'[s] = item[s]
               /\ rev[s] \in 1..seq
               /\ \A e \in log' : e.item = item[s] => e.rev < rev[s]
    <2>1. Drawn(s) /\ rev'[s] = rev[s] /\ item'[s] = item[s]
      BY <1>1, <1>2, Frame, HoldsFrame
    <2>2. /\ rev[s] \in 1..seq
          /\ \A e \in log : e.item = item[s] => e.rev < rev[s]
      BY <1>1, <2>1 DEF RevsIsolated
    <2>3. CASE Commit(r)
      <3>1. HoldsRow(r) /\ HoldsRow(s)
        BY <1>1, <2>1, <2>3, AllTx DEF Commit, HoldsRow, Drawn
      <3>2. item[s] # item[r]
        BY <1>1, <1>2, <3>1 DEF RowsIsolated
      <3>3. QED
        BY <1>1, <2>1, <2>2, <2>3, <3>2, CommitTables
    <2>4. CASE ~Commit(r)
      BY <1>1, <2>1, <2>2, <2>4, PushTables
    <2>5. QED
      BY <2>3, <2>4
  <1>3. seq' \in Nat /\ seq <= seq' /\ (NextRevision(r) => seq' = seq + 1)
    <2>1. CASE NextRevision(r)
      BY <1>1, <2>1 DEF NextRevision
    <2>2. CASE ~NextRevision(r)
      BY <1>1, <2>2, PushTables
    <2>3. QED
      BY <2>1, <2>2
  <1>4. ASSUME Drawn(r)'
        PROVE  /\ log' = log /\ item'[r] = item[r]
               /\ rev'[r] \in 1..seq'
               /\ \A e \in log' : e.item = item[r] => e.rev < rev'[r]
               /\ \A s \in Calls \ {r} : Drawn(s) => rev[s] # rev'[r]
    <2>1. ~Commit(r)
      BY <1>1, <1>4, CommitTables DEF Drawn
    <2>2. log' = log /\ item'[r] = item[r]
      BY <1>1, <1>4, <2>1, PushTables, TakesRev
    <2>3. CASE NextRevision(r)
      <3>1. rev'[r] = seq + 1 /\ seq' = seq + 1
        BY <1>1, <2>3 DEF NextRevision, TypeOK
      <3>2. \A e \in log : e.rev <= seq
        BY <1>1 DEF LogBounded
      <3>3. \A s \in Calls : Drawn(s) => rev[s] \in 1..seq
        BY <1>1 DEF RevsIsolated
      <3>4. QED
        BY <1>1, <2>2, <3>1, <3>2, <3>3
    <2>4. CASE ~NextRevision(r)
      <3>1. Drawn(r) /\ rev' = rev /\ seq' = seq
        BY <1>1, <1>4, <2>4, TakesRev, PushTables
      <3>2. QED
        BY <1>1, <2>2, <3>1 DEF RevsIsolated
    <2>5. QED
      BY <2>3, <2>4
  <1>5. ASSUME NEW s \in Calls, Drawn(s)'
        PROVE  /\ rev'[s] \in 1..seq'
               /\ \A e \in log' : e.item = item'[s] => e.rev < rev'[s]
    BY <1>1, <1>2, <1>3, <1>4, <1>5
  <1>6. ASSUME NEW s \in Calls, NEW t \in Calls, Drawn(s)', Drawn(t)',
               rev'[t] = rev'[s]
        PROVE  t = s
    <2>1. CASE s # r /\ t # r
      BY <1>1, <1>2, <1>6, <2>1 DEF RevsIsolated
    <2>2. CASE s = r \/ t = r
      BY <1>2, <1>4, <1>6, <2>2
    <2>3. QED
      BY <2>1, <2>2
  <1>7. QED
    BY <1>5, <1>6 DEF RevsIsolated

LEMMA LogBoundedStep ==
  ASSUME PushOnly, EngineInv, NEW r \in Calls, CallStep(r)
  PROVE  LogBounded'
  <1>1. /\ TypeInv /\ TypeOK /\ CallsTyped /\ LogBounded /\ RevsIsolated
        /\ seq \in Nat /\ \A e \in log : e.rev \in Nat
    BY DEF EngineInv, TypeInv, TxIsolated, TypeOK, TablesTypeOK, LogRows
  <1>2. CASE Commit(r)
    <2>1. rev[r] \in 1..seq /\ seq' = seq
      BY <1>1, <1>2, AllTx DEF RevsIsolated, Drawn, Commit
    <2>2. \A e \in log' : e.rev <= seq'
      BY <1>1, <1>2, <2>1, CommitTables DEF LogBounded
    <2>3. \A op \in Ops : processed'[op] # NoProcessed => \E e \in log' : e.op = op
      BY <1>1, <1>2, CommitTables DEF LogBounded
    <2>4. QED
      BY <2>2, <2>3 DEF LogBounded
  <1>3. CASE ~Commit(r)
    <2>1. UNCHANGED <<log, processed>>
      BY <1>1, <1>3, PushTables
    <2>2. seq' \in Nat /\ seq <= seq'
      <3>1. CASE NextRevision(r)
        BY <1>1, <3>1 DEF NextRevision
      <3>2. CASE ~NextRevision(r)
        BY <1>1, <3>2, PushTables
      <3>3. QED
        BY <3>1, <3>2
    <2>3. QED
      BY <1>1, <2>1, <2>2 DEF LogBounded
  <1>4. QED
    BY <1>2, <1>3

LEMMA InitEngineInv == Init => EngineInv
  <1> SUFFICES ASSUME Init PROVE EngineInv
    OBVIOUS
  <1>1. LogBounded
    BY DEF Init, TablesInit, LogBounded
  <1>2. TxIsolated
    BY DEF Init, TxIsolated, RowsIsolated, OpsIsolated, RevsIsolated, HoldsRow,
           HoldsOp, Drawn
  <1>3. QED
    BY <1>1, <1>2, InitTypeInv DEF EngineInv

LEMMA EngineInvStep ==
  ASSUME PushOnly
  PROVE  EngineInv /\ [Next]_vars => EngineInv'
  <1> SUFFICES ASSUME EngineInv, [Next]_vars PROVE EngineInv'
    OBVIOUS
  <1>1. TypeInv'
    BY TypeInvStep DEF EngineInv
  <1>2. CASE \E r \in Calls : CallStep(r)
    BY <1>1, <1>2, RowsIsolatedStep, OpsIsolatedStep, RevsIsolatedStep,
       LogBoundedStep DEF EngineInv, TxIsolated
  <1>3. CASE UNCHANGED vars
    BY <1>1, <1>3 DEF EngineInv, LogBounded, TxIsolated, RowsIsolated, OpsIsolated,
         RevsIsolated, HoldsRow, HoldsOp, Drawn, Tx, Op, Kind, Exp, Present,
         Matches, vars
  <1>4. QED
    BY <1>2, <1>3 DEF Next, CallStep

\* On the push path, what an open transaction relies on stays true until it
\* ends: row locks and the unique index on revision_log are enough.
THEOREM PushIsolated ==
  ASSUME PushOnly
  PROVE  Spec => []TxIsolated
  <1>1. EngineInv => TxIsolated
    BY DEF EngineInv
  <1>2. QED
    BY <1>1, InitEngineInv, EngineInvStep, PTL DEF Spec

-----------------------------------------------------------------------------
(***************************************************************************)
(* Refinement.                                                             *)
(***************************************************************************)

\* The numbers still pending after a step that draws none.
LEMMA PendingStep ==
  ASSUME PushOnly, EngineInv, NEW r \in Calls, CallStep(r), ~NextRevision(r)
  PROVE  /\ (Drawn(r)' <=> Drawn(r)) => PendingRevs' = PendingRevs
         /\ Drawn(r) /\ ~Drawn(r)' => PendingRevs' = PendingRevs \ {rev[r]}
         /\ Drawn(r)' => Drawn(r)
  <1>1. TypeOK /\ TypeInv /\ RevsIsolated
    BY DEF EngineInv, TypeInv, TxIsolated
  <1>2. rev' = rev /\ \A s \in Calls \ {r} : Drawn(s)' <=> Drawn(s)
    BY <1>1, PushTables, HoldsFrame
  <1>3. PendingRevs' = {rev[s] : s \in {t \in Calls : Drawn(t)'}}
    BY <1>2 DEF PendingRevs
  <1>4. ASSUME Drawn(r)' <=> Drawn(r)
        PROVE  PendingRevs' = PendingRevs
    <2>1. \A s \in Calls : Drawn(s)' <=> Drawn(s)
      BY <1>2, <1>4
    <2>2. QED
      BY <1>3, <2>1 DEF PendingRevs
  <1>5. ASSUME Drawn(r), ~Drawn(r)'
        PROVE  PendingRevs' = PendingRevs \ {rev[r]}
    <2>1. \A s \in Calls : Drawn(s) /\ rev[s] = rev[r] => s = r
      BY <1>1, <1>5 DEF RevsIsolated
    <2>2. ASSUME NEW x \in PendingRevs' PROVE x \in PendingRevs \ {rev[r]}
      BY <1>2, <1>3, <1>5, <2>1, <2>2 DEF PendingRevs
    <2>3. ASSUME NEW x \in PendingRevs \ {rev[r]} PROVE x \in PendingRevs'
      BY <1>2, <1>3, <1>5, <2>3 DEF PendingRevs
    <2>4. QED
      BY <2>2, <2>3
  <1>6. Drawn(r)' => Drawn(r)
    BY <1>1, TakesRev
  <1>7. QED
    BY <1>4, <1>5, <1>6

\* Drawing a number is a Reserve of the store.
LEMMA NextRevisionReserves ==
  ASSUME PushOnly, EngineInv, NEW r \in Calls, NextRevision(r)
  PROVE  Store!Reserve
  <1>1. TypeOK /\ CallsTyped /\ CallStep(r)
    BY DEF EngineInv, TypeInv, CallStep, Step
  <1>2. Tx(r) /\ ~Drawn(r)
    BY <1>1, AllTx DEF NextRevision, Drawn
  <1>3. Drawn(r)' /\ rev'[r] = seq + 1
    BY <1>1, <1>2 DEF NextRevision, Drawn, Tx, TypeOK, Goto
  <1>4. \A s \in Calls \ {r} : (Drawn(s)' <=> Drawn(s)) /\ rev'[s] = rev[s]
    BY <1>1, HoldsFrame, Frame
  <1>5. ASSUME NEW x \in PendingRevs' PROVE x \in PendingRevs \cup {seq + 1}
    BY <1>3, <1>4, <1>5 DEF PendingRevs
  <1>6. ASSUME NEW x \in PendingRevs \cup {seq + 1} PROVE x \in PendingRevs'
    <2>1. CASE x = seq + 1
      BY <1>3, <2>1 DEF PendingRevs
    <2>2. CASE x \in PendingRevs
      <3>1. PICK s \in Calls : Drawn(s) /\ x = rev[s]
        BY <2>2 DEF PendingRevs
      <3>2. s # r
        BY <1>2, <3>1
      <3>3. QED
        BY <1>4, <3>1, <3>2 DEF PendingRevs
    <2>3. QED
      BY <1>6, <2>1, <2>2
  <1>7. PendingRevs' = PendingRevs \cup {seq + 1}
    BY <1>5, <1>6
  <1>8. QED
    BY <1>7 DEF NextRevision, Store!Reserve

\* Commit is an Apply of the store.
LEMMA CommitApplies ==
  ASSUME PushOnly, EngineInv, NEW r \in Calls, Commit(r)
  PROVE  /\ rev[r] \in PendingRevs
         /\ Store!Apply(Op(r), Kind(r), item[r], Exp(r), rev[r])
  <1>1. /\ TypeOK /\ CallsTyped /\ LogBounded /\ CallStep(r)
        /\ RowsIsolated /\ OpsIsolated /\ RevsIsolated
    BY DEF EngineInv, TypeInv, CallStep, Step, TxIsolated
  <1>2. pc[r] = "commit" /\ Tx(r)
    BY <1>1, AllTx DEF Commit
  <1>3. HoldsRow(r) /\ HoldsOp(r) /\ Drawn(r)
    BY <1>2 DEF HoldsRow, HoldsOp, Drawn
  <1>4. rev[r] \in PendingRevs
    BY <1>3 DEF PendingRevs
  <1>5. processed[Op(r)] = NoProcessed
    <2>1. Op(r) \in Ops
      BY <1>1, CommitTables
    <2>2. QED
      BY <1>1, <1>3, <2>1 DEF OpsIsolated, LogBounded
  <1>6. IF Kind(r) = "create" THEN ~Present(item[r]) ELSE Matches(item[r], Exp(r))
    BY <1>1, <1>3 DEF RowsIsolated
  <1>7. \A e \in log : e.item = item[r] => e.rev < rev[r]
    BY <1>1, <1>3 DEF RevsIsolated
  <1>8. PendingRevs' = PendingRevs \ {rev[r]}
    <2>1. pc'[r] = "done" /\ ~NextRevision(r)
      BY <1>1, <1>2, CommitTables DEF NextRevision
    <2>2. ~Drawn(r)'
      BY <2>1 DEF Drawn
    <2>3. QED
      BY <1>1, <1>3, <2>1, <2>2, PendingStep
  <1>9. processed' = [processed EXCEPT ![Op(r)] = [item |-> item[r], rev |-> rev[r]]]
    BY <1>5 DEF Commit, Marked
  <1>10. QED
    BY <1>4, <1>5, <1>6, <1>7, <1>8, <1>9
       DEF Commit, Store!Apply, NoProcessed, Store!NoProcessed, Present, Matches,
           Store!Present, Store!Matches, RowAfter, Store!RowAfter, VersionAfter,
           Store!VersionAfter, LogRow, Store!LogRow

LEMMA StoreStep ==
  ASSUME PushOnly, EngineInv, NEW r \in Calls, CallStep(r)
  PROVE  Store!StoreNext \/ UNCHANGED <<items, log, processed, seq, PendingRevs>>
  <1>1. TypeInv /\ CallsTyped
    BY DEF EngineInv, TypeInv
  <1>2. CASE NextRevision(r)
    BY <1>2, NextRevisionReserves DEF Store!StoreNext
  <1>3. CASE Commit(r)
    <2>1. Op(r) \in Ops /\ Kind(r) \in Kinds /\ item[r] \in Items /\ Exp(r) \in Expected
      BY <1>1, <1>3, CallFacts DEF Commit
    <2>2. QED
      BY <1>3, <2>1, CommitApplies
         DEF Store!StoreNext, Kinds, Store!Kinds, Expected, Store!Expected
  <1>4. CASE ~NextRevision(r) /\ ~Commit(r)
    <2>1. UNCHANGED <<items, log, processed, seq, rev>>
      BY <1>1, <1>4, PushTables
    <2>2. CASE Drawn(r)' <=> Drawn(r)
      BY <1>4, <2>1, <2>2, PendingStep
    <2>3. CASE ~(Drawn(r)' <=> Drawn(r))
      <3>1. Drawn(r) /\ PendingRevs' = PendingRevs \ {rev[r]}
        BY <1>4, <2>3, PendingStep
      <3>2. rev[r] \in PendingRevs
        BY <3>1 DEF PendingRevs
      <3>3. Store!Release(rev[r])
        BY <2>1, <3>1 DEF Store!Release
      <3>4. QED
        BY <3>2, <3>3 DEF Store!StoreNext
    <2>4. QED
      BY <2>2, <2>3
  <1>5. QED
    BY <1>2, <1>3, <1>4

\* The push path (WithVaultEngineTx around the engine) implements the atomic
\* store, whatever the interleaving of transactions, retries and failures.
THEOREM PushRefinesStore ==
  ASSUME PushOnly
  PROVE  Spec => Refines
  <1>1. Init => Store!StoreInit
    <2> SUFFICES ASSUME Init PROVE Store!StoreInit
      OBVIOUS
    <2>1. PendingRevs = {}
      BY DEF Init, PendingRevs, Drawn
    <2>2. QED
      BY <2>1 DEF Init, TablesInit, Store!StoreInit, Store!TablesInit, NoRow,
           Store!NoRow, NoProcessed, Store!NoProcessed
  <1>2. EngineInv /\ [Next]_vars => [Store!StoreNext]_(Store!storeVars)
    <2> SUFFICES ASSUME EngineInv, [Next]_vars
                 PROVE  [Store!StoreNext]_(Store!storeVars)
      OBVIOUS
    <2>1. CASE \E r \in Calls : CallStep(r)
      BY <2>1, StoreStep DEF Store!storeVars
    <2>2. CASE UNCHANGED vars
      BY <2>2 DEF vars, Store!storeVars, PendingRevs, Drawn, Tx
    <2>3. QED
      BY <2>1, <2>2 DEF Next, CallStep
  <1>3. QED
    BY <1>1, <1>2, InitEngineInv, EngineInvStep, PTL
       DEF Spec, Refines, Store!StoreSpec

-----------------------------------------------------------------------------
(***************************************************************************)
(* What the push path inherits from the atomic store it implements: the    *)
(* inductive invariant of VaultStoreProofs, read through the refinement.   *)
(***************************************************************************)
SP == INSTANCE VaultStoreProofs WITH pending <- PendingRevs

\* The invariant of the atomic store, of the tables the push path shows.
THEOREM PushStoreInv ==
  ASSUME PushOnly
  PROVE  Spec => []Store!StoreInv
<1>1. Spec => Store!StoreSpec
  BY PushRefinesStore DEF Refines
<1>2. Store!StoreSpec => SP!StoreSpec
  BY PTL DEF Store!StoreSpec, SP!StoreSpec, Store!StoreInit, SP!StoreInit,
     Store!TablesInit, SP!TablesInit, Store!StoreNext, SP!StoreNext,
     Store!storeVars, SP!storeVars, Store!Reserve, SP!Reserve,
     Store!Release, SP!Release, Store!Apply, SP!Apply,
     Store!NoRow, SP!NoRow, Store!NoProcessed, SP!NoProcessed,
     Store!Expected, SP!Expected, Store!Kinds, SP!Kinds,
     Store!Present, SP!Present, Store!Matches, SP!Matches,
     Store!RowAfter, SP!RowAfter, Store!VersionAfter, SP!VersionAfter,
     Store!LogRow, SP!LogRow
<1>3. SP!StoreSpec => []SP!StoreInv
  BY SP!StoreCorrect, VaultAssumption
<1>4. SP!StoreInv => Store!StoreInv
  BY DEF SP!StoreInv, Store!StoreInv, SP!StoreTypeOK, Store!StoreTypeOK,
     SP!TablesTypeOK, Store!TablesTypeOK, SP!ItemRows, Store!ItemRows,
     SP!LogRows, Store!LogRows, SP!ProcessedRows, Store!ProcessedRows,
     SP!Kinds, Store!Kinds, SP!NoProcessed, Store!NoProcessed,
     SP!RevisionsUnique, Store!RevisionsUnique,
     SP!ProcessedMatchesLog, Store!ProcessedMatchesLog,
     SP!LogIsHistory, Store!LogIsHistory,
     SP!RowIsLastChange, Store!RowIsLastChange
<1>. QED
  BY <1>1, <1>2, <1>3, <1>4, PTL

-----------------------------------------------------------------------------
\* The content of a row was written by a logged operation on that very item:
\* the last change, or the one before it when the last change is a delete.
LEMMA ContentLogged ==
  ASSUME Store!StoreInv, NEW i \in Items, Present(i)
  PROVE  \E e \in log : e.item = i /\ e.op = items[i].content
<1>. DEFINE n == items[i].version
<1>1. items[i] \in ItemRows /\ n \in Nat /\ n > 0
  BY DEF Store!StoreInv, Store!StoreTypeOK, Store!TablesTypeOK,
     Store!ItemRows, ItemRows, Present
<1>2. PICK e \in log : e.item = i /\ e.version = n
  BY <1>1 DEF Store!StoreInv, Store!LogIsHistory
<1>3. CASE ~items[i].deleted
  BY <1>2, <1>3 DEF Store!StoreInv, Store!RowIsLastChange
<1>4. CASE items[i].deleted
  <2>1. e.type = "delete"
    BY <1>2, <1>4 DEF Store!StoreInv, Store!RowIsLastChange
  <2>2. n # 1
    BY <1>2, <2>1 DEF Store!StoreInv, Store!RowIsLastChange
  <2>3. PICK f \in log : f.item = i /\ f.version = n - 1
    BY <1>1, <2>2 DEF Store!StoreInv, Store!LogIsHistory
  <2>. QED
    BY <1>1, <1>4, <2>3 DEF Store!StoreInv, Store!RowIsLastChange
<1>. QED
  BY <1>3, <1>4

\* An operation id is logged once, so its content is in one item.
LEMMA StoreOneItem ==
  ASSUME Store!StoreInv
  PROVE  OpMutatesOneItem
<1>1. SUFFICES ASSUME NEW i \in Items, NEW j \in Items,
                      Present(i), Present(j),
                      items[i].content = items[j].content
               PROVE  i = j
  BY DEF OpMutatesOneItem
<1>2. PICK e \in log : e.item = i /\ e.op = items[i].content
  BY <1>1, ContentLogged
<1>3. PICK f \in log : f.item = j /\ f.op = items[j].content
  BY <1>1, ContentLogged
<1>. QED
  BY <1>1, <1>2, <1>3 DEF Store!StoreInv, Store!RevisionsUnique

\* On the push path the revision log is a faithful history of the items: the
\* feed that sync clients replay is the truth, for any number of concurrent
\* calls, retries and failures.
THEOREM PushHistory ==
  ASSUME PushOnly
  PROVE  Spec => []HistoryExplainsItems
<1>1. Store!StoreInv => HistoryExplainsItems
  BY DEF Store!StoreInv, HistoryExplainsItems
<1>. QED
  BY PushStoreInv, <1>1, PTL

\* On the push path an operation is applied to one item at most, however many
\* of its attempts run at the same time or are cut short.
THEOREM PushIdempotent ==
  ASSUME PushOnly
  PROVE  Spec => []OpMutatesOneItem
BY PushStoreInv, StoreOneItem, PTL

=============================================================================
