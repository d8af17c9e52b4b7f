-------------------------- MODULE VaultStoreProofs --------------------------
(***************************************************************************)
(* The revision log of the atomic store is a faithful history of its items *)
(* for every set of operations, items and expected versions.               *)
(***************************************************************************)
EXTENDS VaultStore, TLAPS

LEMMA InitStoreInv == StoreInit => StoreInv
  <1> SUFFICES ASSUME StoreInit PROVE StoreInv
    OBVIOUS
  <1> USE DEF StoreInit, TablesInit, NoRow, NoProcessed
  <1>1. StoreTypeOK
    BY DEF StoreTypeOK, TablesTypeOK, ItemRows, LogRows, ProcessedRows
  <1>2. RevisionsUnique /\ ProcessedMatchesLog /\ RowIsLastChange
    BY DEF RevisionsUnique, ProcessedMatchesLog, RowIsLastChange
  <1>3. LogIsHistory
    BY DEF LogIsHistory
  <1>4. QED
    BY <1>1, <1>2, <1>3 DEF StoreInv

\* Drawing or giving up a number touches no table.
LEMMA NumbersStoreInv ==
  StoreInv /\ (Reserve \/ (\E n \in pending : Release(n))) => StoreInv'
  <1> SUFFICES ASSUME StoreInv, Reserve \/ (\E n \in pending : Release(n))
               PROVE  StoreInv'
    OBVIOUS
  <1>1. /\ UNCHANGED <<items, log, processed>>
        /\ seq' \in Nat /\ seq <= seq'
        /\ pending' \subseteq 1..seq'
        /\ pending' \subseteq pending \cup {seq + 1}
    <2>1. seq \in Nat /\ pending \subseteq 1..seq
      BY DEF StoreInv, StoreTypeOK, TablesTypeOK
    <2>2. CASE Reserve
      BY <2>1, <2>2 DEF Reserve
    <2>3. CASE \E n \in pending : Release(n)
      BY <2>1, <2>3 DEF Release
    <2>4. QED
      BY <2>2, <2>3
  <1>2. StoreTypeOK'
    BY <1>1 DEF StoreInv, StoreTypeOK, TablesTypeOK
  <1>3. RevisionsUnique'
    BY <1>1 DEF StoreInv, StoreTypeOK, TablesTypeOK, RevisionsUnique, LogRows
  <1>4. ProcessedMatchesLog' /\ LogIsHistory' /\ RowIsLastChange'
    BY <1>1 DEF StoreInv, ProcessedMatchesLog, LogIsHistory, RowIsLastChange
  <1>5. QED
    BY <1>2, <1>3, <1>4 DEF StoreInv

\* An applied operation extends the history of its item and of no other.
LEMMA ApplyStoreInv ==
  ASSUME NEW op \in Ops, NEW kind \in Kinds, NEW i \in Items,
         NEW v \in Expected, NEW n \in pending,
         StoreInv, Apply(op, kind, i, v, n)
  PROVE  StoreInv'
  <1> DEFINE new == LogRow(kind, op, i, v, n)
             w   == VersionAfter(kind, v)
  <1>1. v \in Nat /\ n \in Nat /\ n \in 1..seq /\ seq \in Nat
    BY VaultAssumption DEF Expected, StoreInv, StoreTypeOK, TablesTypeOK
  <1>2. /\ items \in [Items -> ItemRows] /\ items[i] \in ItemRows
        /\ items[i].version \in Nat
        /\ \A j \in Items : items[j].version \in Nat
    BY DEF StoreInv, StoreTypeOK, TablesTypeOK, ItemRows
  <1>3. /\ w = items[i].version + 1
        /\ w \in Nat
        /\ ~items[i].deleted \/ kind = "create"
        /\ kind = "create" <=> w = 1
    BY <1>1, <1>2
       DEF Apply, Present, Matches, VersionAfter, StoreInv, LogIsHistory, Kinds
  <1>4. /\ new \in LogRows
        /\ new.rev = n /\ new.op = op /\ new.item = i /\ new.type = kind
        /\ new.version = w
    BY <1>1, <1>3 DEF LogRow, LogRows
  <1>5. log' = log \cup {new}
    BY DEF Apply
  <1>6. /\ items' = [items EXCEPT ![i] = RowAfter(kind, op, i, v)]
        /\ items'[i] = RowAfter(kind, op, i, v)
        /\ \A j \in Items : j # i => items'[j] = items[j]
    BY <1>2 DEF Apply
  <1>7. /\ RowAfter(kind, op, i, v) \in ItemRows
        /\ items'[i].version = w
        /\ items'[i].deleted <=> kind = "delete"
        /\ items'[i].content = IF kind = "delete" THEN items[i].content ELSE op
    BY <1>2, <1>3, <1>6 DEF RowAfter, ItemRows
  <1>8. \A e \in log : /\ e \in LogRows /\ e.item \in Items /\ e.rev \in Nat
                      /\ e.version \in Nat /\ e.op \in Ops
    BY DEF StoreInv, StoreTypeOK, TablesTypeOK, LogRows
  <1>9. \A e \in log : e.op # op /\ e.rev # n
    <2> SUFFICES ASSUME NEW e \in log PROVE e.op # op /\ e.rev # n
      OBVIOUS
    <2>1. e.rev # n
      BY DEF StoreInv, RevisionsUnique
    <2>2. processed[e.op] = [item |-> e.item, rev |-> e.rev]
      BY DEF StoreInv, ProcessedMatchesLog
    <2>3. processed[e.op] # NoProcessed
      BY <2>2, <1>8, VaultAssumption DEF NoProcessed
    <2>4. QED
      BY <2>1, <2>3 DEF Apply
  <1>10. \A e \in log : e.item = i => e.version < w /\ e.version >= 1 /\ e.rev < n
    BY <1>1, <1>2, <1>3, <1>8 DEF StoreInv, LogIsHistory, Apply
  <1>11. StoreTypeOK'
    <2>1. items' \in [Items -> ItemRows]
      BY <1>2, <1>6, <1>7
    <2>2. log' \subseteq LogRows
      BY <1>4, <1>5, <1>8
    <2>3. processed' \in [Ops -> ProcessedRows]
      BY <1>1 DEF Apply, StoreInv, StoreTypeOK, TablesTypeOK, ProcessedRows
    <2>4. seq' \in Nat /\ pending' \subseteq 1..seq'
      BY DEF Apply, StoreInv, StoreTypeOK, TablesTypeOK
    <2>5. QED
      BY <2>1, <2>2, <2>3, <2>4 DEF StoreTypeOK, TablesTypeOK
  <1>12. RevisionsUnique'
    <2>1. \A e, f \in log' : (e.rev = f.rev \/ e.op = f.op) => e = f
      BY <1>4, <1>5, <1>9 DEF StoreInv, RevisionsUnique
    <2>2. \A e \in log' : e.rev \in 1..seq' /\ e.rev \notin pending'
      BY <1>1, <1>4, <1>5 DEF StoreInv, RevisionsUnique, Apply
    <2>3. QED
      BY <2>1, <2>2 DEF RevisionsUnique
  <1>13. ProcessedMatchesLog'
    <2>1. /\ processed'[op] = [item |-> i, rev |-> n]
          /\ \A o \in Ops : o # op => processed'[o] = processed[o]
      BY DEF Apply, StoreInv, StoreTypeOK, TablesTypeOK
    <2>2. \A e \in log' : processed'[e.op] = [item |-> e.item, rev |-> e.rev]
      BY <1>4, <1>5, <1>8, <1>9, <2>1 DEF StoreInv, ProcessedMatchesLog
    <2>3. \A o \in Ops : processed'[o] # NoProcessed => \E e \in log' : e.op = o
      BY <1>4, <1>5, <2>1 DEF StoreInv, ProcessedMatchesLog
    <2>4. QED
      BY <2>2, <2>3 DEF ProcessedMatchesLog
  <1>14. LogIsHistory'
    <2>1. \A e \in log' : e.version \in 1..items'[e.item].version
      BY <1>2, <1>3, <1>4, <1>5, <1>6, <1>7, <1>8, <1>10
         DEF StoreInv, LogIsHistory
    <2>2. \A j \in Items : \A x \in 1..items'[j].version :
            \E e \in log' : e.item = j /\ e.version = x
      BY <1>2, <1>3, <1>4, <1>5, <1>6, <1>7 DEF StoreInv, LogIsHistory
    <2>3. \A e, f \in log' :
            e.item = f.item => (e.version < f.version <=> e.rev < f.rev)
      BY <1>1, <1>3, <1>4, <1>5, <1>8, <1>10 DEF StoreInv, LogIsHistory
    <2>4. QED
      BY <2>1, <2>2, <2>3 DEF LogIsHistory
  <1>15. RowIsLastChange'
    <2> SUFFICES ASSUME NEW e \in log'
        PROVE LET row == items'[e.item]
              IN  /\ e.type = "create" <=> e.version = 1
                  /\ e.type = "delete" => e.version = row.version /\ row.deleted
                  /\ e.version = row.version =>
                       /\ (row.deleted <=> e.type = "delete")
                       /\ e.type # "delete" => row.content = e.op
                  /\ e.version + 1 = row.version /\ row.deleted =>
                       row.content = e.op
      BY DEF RowIsLastChange
    <2>1. CASE e = new
      <3>1. e.item = i /\ e.op = op /\ e.type = kind /\ e.version = w /\ w \in Nat
        BY <2>1, <1>3, <1>4
      <3>2. QED
        BY <3>1, <1>3, <1>7
    <2>2. CASE e \in log /\ e.item # i
      BY <2>2, <1>6, <1>8 DEF StoreInv, RowIsLastChange
    <2>3. CASE e \in log /\ e.item = i
      <3>1. e.version < w /\ e.version \in Nat /\ items[i].version + 1 = w
        BY <2>3, <1>3, <1>8, <1>10
      <3>2. kind # "create"
        BY <2>3, <1>3, <1>10, <3>1
      <3>3. e.type # "delete" /\ ~items[i].deleted
        BY <2>3, <3>2, <1>3 DEF StoreInv, RowIsLastChange
      <3>4. e.version = items[i].version => items[i].content = e.op
        BY <2>3, <3>3 DEF StoreInv, RowIsLastChange
      <3>5. e.type = "create" <=> e.version = 1
        BY <2>3 DEF StoreInv, RowIsLastChange
      <3>6. QED
        BY <2>3, <3>1, <3>3, <3>4, <3>5, <1>2, <1>7
    <2>4. QED
      BY <2>1, <2>2, <2>3, <1>5
  <1>16. QED
    BY <1>11, <1>12, <1>13, <1>14, <1>15 DEF StoreInv

\* The log, the processed operations and the items of the atomic store always
\* agree, whatever operations are applied.
THEOREM StoreCorrect == StoreSpec => []StoreInv
  <1>1. StoreInv /\ [StoreNext]_storeVars => StoreInv'
    <2> SUFFICES ASSUME StoreInv, [StoreNext]_storeVars PROVE StoreInv'
      OBVIOUS
    <2>1. CASE Reserve \/ \E n \in pending : Release(n)
      BY <2>1, NumbersStoreInv
    <2>2. CASE \E op \in Ops, kind \in Kinds, i \in Items, v \in Expected,
                n \in pending : Apply(op, kind, i, v, n)
      BY <2>2, ApplyStoreInv
    <2>3. CASE UNCHANGED storeVars
      BY <2>3 DEF storeVars, StoreInv, StoreTypeOK, TablesTypeOK,
                  RevisionsUnique, ProcessedMatchesLog, LogIsHistory,
                  RowIsLastChange
    <2>4. QED
      BY <2>1, <2>2, <2>3 DEF StoreNext
  <1>2. QED
    BY InitStoreInv, <1>1, PTL DEF StoreSpec

=============================================================================
