----------------------------- MODULE VaultStore -----------------------------
(***************************************************************************)
(* What the vault promises, with no transactions, locks or retries in      *)
(* sight: one atomic step per applied operation.                           *)
(*                                                                         *)
(* The only thing an implementation may show of its insides is that a      *)
(* revision number is drawn before the operation that carries it commits   *)
(* (a BIGSERIAL is not transactional), so numbers may be lost and may      *)
(* become visible out of order.                                            *)
(***************************************************************************)
EXTENDS VaultTables

VARIABLE pending    \* revision numbers drawn, neither logged nor given up

storeVars == <<items, log, processed, seq, pending>>

StoreInit == TablesInit /\ pending = {}

\* nextval: the number is gone from the sequence whatever happens to it.
Reserve ==
  /\ seq' = seq + 1
  /\ pending' = pending \cup {seq + 1}
  /\ UNCHANGED <<items, log, processed>>

\* The attempt that drew n ended without effect.
Release(n) ==
  /\ pending' = pending \ {n}
  /\ UNCHANGED <<items, log, processed, seq>>

(***************************************************************************)
(* An operation takes effect, in all three tables at once: never twice,    *)
(* never on a version other than the one the client expected, and with a   *)
(* revision later than every revision of the same item.                    *)
(***************************************************************************)
Apply(op, kind, i, v, n) ==
  /\ processed[op] = NoProcessed
  /\ IF kind = "create" THEN ~Present(i) ELSE Matches(i, v)
  /\ \A e \in log : e.item = i => e.rev < n
  /\ items' = [items EXCEPT ![i] = RowAfter(kind, op, i, v)]
  /\ log' = log \cup {LogRow(kind, op, i, v, n)}
  /\ processed' = [processed EXCEPT ![op] = [item |-> i, rev |-> n]]
  /\ pending' = pending \ {n}
  /\ UNCHANGED seq

StoreNext ==
  \/ Reserve
  \/ \E n \in pending : Release(n)
  \/ \E op \in Ops, kind \in Kinds, i \in Items, v \in Expected, n \in pending :
       Apply(op, kind, i, v, n)

StoreSpec == StoreInit /\ [][StoreNext]_storeVars

-----------------------------------------------------------------------------
StoreTypeOK ==
  /\ TablesTypeOK
  /\ pending \subseteq 1..seq

\* Numbers are used once, by one operation, and are all drawn from the sequence.
RevisionsUnique ==
  /\ \A e, f \in log : (e.rev = f.rev \/ e.op = f.op) => e = f
  /\ \A e \in log : e.rev \in 1..seq /\ e.rev \notin pending

\* The processed operations are exactly the logged ones, with their revision.
ProcessedMatchesLog ==
  /\ \A e \in log : processed[e.op] = [item |-> e.item, rev |-> e.rev]
  /\ \A op \in Ops : processed[op] # NoProcessed => \E e \in log : e.op = op

\* The log holds one row for each version an item ever had, in revision order.
LogIsHistory ==
  /\ \A e \in log : e.version \in 1..items[e.item].version
  /\ \A i \in Items : \A v \in 1..items[i].version :
       \E e \in log : e.item = i /\ e.version = v
  /\ \A e, f \in log :
       e.item = f.item => (e.version < f.version <=> e.rev < f.rev)

\* The row is what the last log row left: deleted iff the last change deleted
\* it, and its content written by the last change that was not a delete.
RowIsLastChange ==
  \A e \in log :
    LET row == items[e.item]
    IN  /\ e.type = "create" <=> e.version = 1
        /\ e.type = "delete" => e.version = row.version /\ row.deleted
        /\ e.version = row.version =>
             /\ (row.deleted <=> e.type = "delete")
             /\ e.type # "delete" => row.content = e.op
        /\ e.version + 1 = row.version /\ row.deleted => row.content = e.op

\* Together the four are inductive.
StoreInv ==
  StoreTypeOK /\ RevisionsUnique /\ ProcessedMatchesLog /\ LogIsHistory
    /\ RowIsLastChange

=============================================================================
