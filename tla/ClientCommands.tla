--------------------------- MODULE ClientCommands ---------------------------
(***************************************************************************)
(* The commands of the client on one data directory, with several          *)
(* accounts: who a command speaks for, with which key it seals, and what   *)
(* of the directory outlives a login.                                      *)
(*                                                                         *)
(* Every command is a process.  It opens the directory and takes the       *)
(* access token (Open), loads the sync state with two SELECTs              *)
(* (LoadRevision, LoadQueue), asks for the password and reads auth_state   *)
(* again for the key (Unlock); only then does its own work begin, so it is *)
(* then that the model chooses which command it is.                        *)
(* Between any two of these steps other commands may run.  Fail ends a     *)
(* command anywhere: errors, timeouts, lost answers, refused tokens.       *)
(*                                                                         *)
(* SyncClient has the versions of items; here an operation on an item that *)
(* exists may be in conflict or not.                                       *)
(* What is sealed is known by the key that opens it; of a payload it also  *)
(* counts whether the server keeps it in the item's row.                   *)
(***************************************************************************)
EXTENDS Naturals, Sequences

CONSTANTS Users,   \* accounts: their login, their password and their user id
          Keys,    \* vault keys that registrations generate
          Ops,     \* operation ids; a create also names its item
          Large,   \* operations with a payload above InlineThresholdBytes
          Blobs,   \* uploads
          Slots,   \* commands that may run at the same time
          Beside,  \* bound: how many commands start while another one runs
          Changes, \* bound: how often the directory changes its account
          None

ASSUME CommandsAssumption ==
  /\ None \notin Users \cup Keys \cup Ops \cup Blobs
  /\ None \notin [owner : Users, key : Keys]
  /\ Large \subseteq Ops
  /\ Beside \in Nat /\ Changes \in Nat

VARIABLES
  account,   \* server: the vault key of each registered user
  log,       \* server: what pushes did, by revision
  blobs,     \* server: committed blobs
  auth,      \* auth_state: the row with id 1
  rows,      \* vault_items
  queue,     \* pending_operations
  lastRev,   \* sync_state.last_revision
  proc,      \* the commands that are running
  used,      \* operation ids generated so far
  beside,    \* commands that started beside another so far
  changes,   \* how often the directory has changed its account so far
  had,       \* history: the accounts the directory has had
  strays,    \* history: operations and blobs an account change caught on the way
  raced      \* history: operations saved while another command ran

server  == <<account, log, blobs>>
store   == <<auth, rows, queue, lastRev>>
history == <<changes, had, strays, raced>>
vars    == <<server, store, proc, used, beside, history>>

Maybe(S) == S \cup {None}

\* An item is known by the create that made it: under the id its client
\* generated, or under the id the server gave it in a user's vault.
LocalId(op) == <<None, op>>
Ids         == Maybe(Users) \X Ops

-----------------------------------------------------------------------------
(***************************************************************************)
(* Keys.  A box opens with the key it was sealed with.                     *)
(***************************************************************************)
DeriveKey(password, salt) == <<password, salt>>
Encrypt(key, text)        == [key |-> key, text |-> text]
Decrypt(key, box)         == box # None /\ box.key = key

WrappedKeys == [key : Users \X Keys, text : Keys]

AuthStates == [user : Maybe(Users), token : Maybe(Users),
               salt : Maybe(Keys), dek : Maybe(WrappedKeys)]

\* Load without a row.
NoAuth == [user |-> None, token |-> None, salt |-> None, dek |-> None]

\* A row of vault_items: the key its fields are sealed with, None where they are
\* NULL; whether there is a payload among them; and its blob.
Row     == [sealed : Maybe(Keys), payload : BOOLEAN, blob : Maybe(Blobs)]
Kinds   == {"create", "update", "delete"}
Pending == [op : Ops, kind : Kinds, id : Ids, key : Maybe(Keys)]

\* What a push did to an item of a user.
Pushed == [user : Users, op : Ops, id : Users \X Ops, kind : Kinds,
           key : Maybe(Keys)]

\* An event of an answer: the key its item is sealed with now, and whether its
\* payload comes with it.
Events == [rev : Nat, id : Ids, sealed : Maybe(Keys), payload : BOOLEAN]

\* A command in memory.
Commands ==
  [pc : {"idle", "login", "opened", "revision", "ready", "unlocked", "uploaded",
         "push", "apply", "save"},
   token : Maybe(Users),   \* the connection's
   auth : AuthStates,      \* what a register or login will save
   queue : Seq(Pending), rev : Nat, dek : Maybe(Keys), blob : Maybe(Blobs),
   done : Nat,             \* operations of the queue the server went through
   conflict : BOOLEAN,     \* one of them was in conflict
   inbox : SUBSET Events,  \* events not applied yet
   stray : BOOLEAN]        \* history: the account changed beside it

Idle == [pc |-> "idle", token |-> None, auth |-> NoAuth, queue |-> <<>>,
         rev |-> 0, dek |-> None, blob |-> None, done |-> 0,
         conflict |-> FALSE, inbox |-> {}, stray |-> FALSE]

Init ==
  /\ account = [u \in Users |-> None]
  /\ log = <<>>
  /\ blobs = [b \in Blobs |-> None]
  /\ auth = NoAuth
  /\ rows = [i \in Ids |-> None]
  /\ queue = <<>> /\ lastRev = 0
  /\ proc = [p \in Slots |-> Idle]
  /\ used = {} /\ beside = 0 /\ changes = 0
  /\ had = {} /\ strays = {} /\ raced = {}

At(p, l)   == proc[p].pc = l
Running    == {p \in Slots : ~At(p, "idle")}
OpsOf(q)   == {q[k].op : k \in DOMAIN q}

\* The command goes on as c, or is over.
Becomes(p, c) == proc' = [proc EXCEPT ![p] = c]
End(p)        == Becomes(p, Idle)

-----------------------------------------------------------------------------
(***************************************************************************)
(* The server, as a command meets it.                                      *)
(***************************************************************************)

\* The client's interceptors: a bearer token, if there is one.
Bearer(token) == IF token = None THEN {} ELSE {token}

\* The server's interceptors: the user a call is made for is the subject of its
\* token and nothing else.  Without a token no handler runs.
Caller(metadata, u) == u \in metadata

\* The last revision of item i in the vault of u.
Revisions(u, i) == {r \in DOMAIN log : log[r].user = u /\ log[r].id = i}
LastOf(S)       == CHOOSE r \in S : \A s \in S : s <= r
LiveItem(u, i)  ==
  Revisions(u, i) # {} /\ log[LastOf(Revisions(u, i))].kind # "delete"

Processed(u, op) == \E r \in DOMAIN log : log[r].user = u /\ log[r].op = op

OfUser(u)      == {r \in DOMAIN log : log[r].user = u}
MaxRevision(u) == IF OfUser(u) = {} THEN 0 ELSE LastOf(OfUser(u))

\* What an item holds now: what its last change that carried content wrote.
Content(u, i) == log[LastOf({r \in Revisions(u, i) : log[r].kind # "delete"})]

\* resolveVaultPayload: the ciphertext of a payload above the threshold becomes an
\* object (see BlobUpload).  Both columns of the row are NULL, the nonce's too.
Inline(op) == op \notin Large

\* Event r of u, with its item as it is now.
Event(u, r) ==
  LET now     == Content(u, log[r].id)
      deleted == log[r].kind = "delete"
  IN  [rev |-> r, id |-> log[r].id,
       sealed  |-> IF deleted THEN None ELSE now.key,
       payload |-> ~deleted /\ Inline(now.op)]

\* The events of u after a revision.  Where a bundle is cut off (RevisionFeed,
\* SyncClient) it has fewer of them.
EventsAfter(u, rev) == {Event(u, r) : r \in {s \in OfUser(u) : s > rev}}

-----------------------------------------------------------------------------
(***************************************************************************)
(* register and login.                                                     *)
(***************************************************************************)
FreshKey(k) ==
  /\ \A u \in Users : account[u] # k
  /\ \A p \in Slots : proc[p].auth.salt # k

\* The state a registration saves has no salt and no wrapped key.
RegisterState(u, k) == [NoAuth EXCEPT !.user = u, !.token = u]

\* Mutant: the key just generated is saved, whatever the server said.
registerCmdFirst(p, u) ==
  /\ At(p, "idle")
  /\ \E k \in Keys :
       /\ FreshKey(k)
       /\ account' = [account EXCEPT ![u] = IF @ = None THEN k ELSE @]
       /\ Becomes(p, [Idle EXCEPT !.pc = "login", !.auth =
            [user |-> u, token |-> u, salt |-> k,
             dek |-> Encrypt(DeriveKey(u, k), k)]])
  /\ UNCHANGED <<log, blobs, store, used, history>>

\* The key and its salt are made before the call; a login that is taken is
\* refused, and the key forgotten.
registerCmd(p, u) ==
  /\ At(p, "idle")
  /\ account[u] = None
  /\ \E k \in Keys :
       /\ FreshKey(k)
       /\ account' = [account EXCEPT ![u] = k]
       /\ Becomes(p, [Idle EXCEPT !.pc = "login", !.auth = RegisterState(u, k)])
  /\ UNCHANGED <<log, blobs, store, used, history>>

LoginState(u) ==
  [user |-> u, token |-> u, salt |-> account[u],
   dek |-> Encrypt(DeriveKey(u, account[u]), account[u])]

loginCmd(p, u) ==
  /\ At(p, "idle")
  /\ account[u] # None
  /\ Becomes(p, [Idle EXCEPT !.pc = "login", !.auth = LoginState(u)])
  /\ UNCHANGED <<server, store, used, history>>

\* Mutant: ON CONFLICT forgets the wrapped key and its salt.
SavedTokens(s) ==
  IF auth.dek = None THEN s ELSE [s EXCEPT !.salt = auth.salt, !.dek = auth.dek]

\* The upsert replaces every column.
Saved(s) == s

\* Save: one row, whatever account it was.  Items, queue and revision stay.
Save(p) ==
  /\ At(p, "login")
  /\ auth' = Saved(proc[p].auth)
  /\ had' = had \cup {proc[p].auth.user}
  /\ LET change == auth.user \notin {None, proc[p].auth.user}
     IN  /\ changes' = IF change THEN changes + 1 ELSE changes
         /\ changes' <= Changes
         /\ strays' = IF change
                      THEN strays \cup OpsOf(queue)
                             \cup (UNION {OpsOf(proc[q].queue) : q \in Slots})
                             \cup ({proc[q].blob : q \in Slots} \ {None})
                      ELSE strays
         /\ proc' = [q \in Slots |->
              IF q = p THEN Idle
              ELSE IF change /\ q \in Running
                   THEN [proc[q] EXCEPT !.stray = TRUE] ELSE proc[q]]
  /\ UNCHANGED <<server, rows, queue, lastRev, used, raced>>

-----------------------------------------------------------------------------
(***************************************************************************)
(* What the other commands begin with.                                     *)
(***************************************************************************)
\* NewSQLiteStorage, Load, and a connection with the token found.
Open(p) ==
  /\ At(p, "idle")
  /\ Becomes(p, [Idle EXCEPT !.pc = "opened", !.token = auth.token])
  /\ UNCHANGED <<server, store, used, history>>

\* New: LoadSync, whose two SELECTs are not in a transaction.
LoadRevision(p) ==
  /\ At(p, "opened")
  /\ Becomes(p, [proc[p] EXCEPT !.pc = "revision", !.rev = lastRev])
  /\ UNCHANGED <<server, store, used, history>>

LoadQueue(p) ==
  /\ At(p, "revision")
  /\ Becomes(p, [proc[p] EXCEPT !.pc = "ready", !.queue = queue])
  /\ UNCHANGED <<server, store, used, history>>

\* Mutant: the error of Decrypt is not looked at.
UnlockAnyway(p, password) ==
  /\ At(p, "ready")
  /\ Becomes(p, [proc[p] EXCEPT !.pc = "unlocked",
                    !.dek = IF auth.dek = None THEN None ELSE auth.dek.text])
  /\ UNCHANGED <<server, store, used, history>>

\* promptPassword and Unlock, which reads auth_state again.
Unlock(p, password) ==
  /\ At(p, "ready")
  /\ IF Decrypt(DeriveKey(password, auth.salt), auth.dek)
     THEN Becomes(p, [proc[p] EXCEPT !.pc = "unlocked", !.dek = auth.dek.text])
     ELSE End(p)
  /\ UNCHANGED <<server, store, used, history>>

-----------------------------------------------------------------------------
(***************************************************************************)
(* The commands on items.  Each writes the row, then the queue.            *)
(***************************************************************************)

\* The row of item i becomes row, and the operation joins the queue in memory.
Edit(p, op, kind, i, row, key) ==
  /\ op \notin used
  /\ used' = used \cup {op}
  /\ rows' = [rows EXCEPT ![i] = row]
  /\ Becomes(p, [Idle EXCEPT !.pc = "save", !.rev = proc[p].rev,
       !.queue = Append(proc[p].queue,
                        [op |-> op, kind |-> kind, id |-> i, key |-> key])])
  /\ strays' = IF proc[p].stray THEN strays \cup {op} ELSE strays
  /\ UNCHANGED <<server, auth, queue, lastRev, changes, had, raced>>

\* The snapshot that is queued has no blob.
AddItem(p, op, b) ==
  Edit(p, op, "create", LocalId(op),
       [sealed |-> proc[p].dek, payload |-> TRUE, blob |-> b], proc[p].dek)

addCmd(p) == At(p, "unlocked") /\ \E op \in Ops : AddItem(p, op, None)

\* Get also finds what is deleted.  The blob of the row is kept.
updateCmd(p) ==
  /\ At(p, "unlocked")
  /\ \E op \in Ops, i \in Ids :
       /\ rows[i] # None
       /\ Edit(p, op, "update", i,
               [rows[i] EXCEPT !.sealed = proc[p].dek, !.payload = TRUE],
               proc[p].dek)

deleteCmd(p) ==
  /\ At(p, "unlocked")
  /\ \E op \in Ops, i \in Ids :
       rows[i] # None /\ Edit(p, op, "delete", i, None, None)

\* Mutant: the row is written before the file is stored.
uploadCmdLate(p) ==
  \E b \in Blobs, op \in Ops \ Large :
    /\ At(p, "unlocked") /\ blobs[b] = None
    /\ AddItem(p, op, b)

\* UploadFile: the file is sealed, stored and committed, for the caller.
uploadCmd(p) ==
  \E b \in Blobs, u \in Users :
    /\ At(p, "unlocked") /\ Caller(Bearer(proc[p].token), u)
    /\ blobs[b] = None
    /\ blobs' = [blobs EXCEPT ![b] = [owner |-> u, key |-> proc[p].dek]]
    /\ Becomes(p, [proc[p] EXCEPT !.pc = "uploaded", !.blob = b, !.token = None])
    /\ strays' = IF proc[p].stray THEN strays \cup {b} ELSE strays
    /\ UNCHANGED <<account, log, store, used, changes, had, raced>>

\* Its last step: an item that refers to the file, with an empty payload.
AddUploaded(p) ==
  At(p, "uploaded") /\ \E op \in Ops \ Large : AddItem(p, op, proc[p].blob)

-----------------------------------------------------------------------------
(***************************************************************************)
(* The commands that only read.                                            *)
(***************************************************************************)
\* The title first, the payload last.  A field that is nil is dereferenced, not
\* reported.
DecryptItem(key, row) ==
  CASE row.sealed = None -> "panic"
    [] row.sealed \notin {None, key} -> "error"
    [] row.sealed = key -> IF row.payload THEN "ok" ELSE "panic"

\* SELECT without WHERE: tombstones too.
List == {i \in Ids : rows[i] # None}

\* A reading command ends with one of the results, and changes nothing.
Show(p, results) ==
  /\ At(p, "unlocked") /\ results # {}
  /\ End(p)
  /\ UNCHANGED <<server, store, used, history>>

\* The rows are decrypted in turn, up to the first that cannot be.
ListResults(p) ==
  LET results == {DecryptItem(proc[p].dek, rows[i]) : i \in List}
  IN  IF results \subseteq {"ok"} THEN {"ok"} ELSE results \ {"ok"}

listCmd(p) == Show(p, ListResults(p))

GetResults(p) == {DecryptItem(proc[p].dek, rows[i]) : i \in List}

getCmd(p) == Show(p, GetResults(p))

\* The argument is the id of a blob; the server has it if it is the caller's.
DownloadBlob(p) ==
  {b \in Blobs : blobs[b] # None /\ Caller(Bearer(proc[p].token), blobs[b].owner)}

DownloadResults(p) ==
  {IF blobs[b].key = proc[p].dek THEN "ok" ELSE "error" : b \in DownloadBlob(p)}

downloadCmd(p) == Show(p, DownloadResults(p))

-----------------------------------------------------------------------------
(***************************************************************************)
(* sync.                                                                   *)
(***************************************************************************)
\* The call: the queue and the revision of the command, for the caller.
syncCmd(p) ==
  \E u \in Users :
    /\ At(p, "ready") /\ Caller(Bearer(proc[p].token), u)
    /\ Becomes(p, [proc[p] EXCEPT !.pc = "push"])
    /\ strays' = IF proc[p].stray THEN strays \cup OpsOf(proc[p].queue) ELSE strays
    /\ UNCHANGED <<server, store, used, changes, had, raced>>

\* runPushOperations: the operation whose turn it is.
NextOperation(p) == proc[p].queue[proc[p].done + 1]

\* The handler goes on to the next operation.
NextTurn(p, conflict) ==
  Becomes(p, [proc[p] EXCEPT !.done = @ + 1, !.conflict = conflict])

\* One operation, in a transaction of its own.  It was applied before; or it
\* updates an item that u does not have, which fails the call, and those before
\* stay applied; or its version is gone, or there is nothing to delete: a
\* conflict; or it is applied now.  A create gets an id of the server's.
applyPendingOperation(p) ==
  \E u \in Users :
    /\ At(p, "push") /\ proc[p].done < Len(proc[p].queue)
    /\ Caller(Bearer(proc[p].token), u)
    /\ LET o == NextOperation(p)
           i == IF o.kind = "create" THEN <<u, o.op>> ELSE o.id
       IN  \/ /\ Processed(u, o.op)
              /\ NextTurn(p, proc[p].conflict)
              /\ UNCHANGED log
           \/ /\ ~Processed(u, o.op) /\ o.kind = "update" /\ ~LiveItem(u, i)
              /\ End(p)
              /\ UNCHANGED log
           \/ /\ ~Processed(u, o.op)
              /\ o.kind = "delete" \/ (o.kind = "update" /\ LiveItem(u, i))
              /\ NextTurn(p, TRUE)
              /\ UNCHANGED log
           \/ /\ ~Processed(u, o.op) /\ (o.kind = "create" \/ LiveItem(u, i))
              /\ log' = Append(log, [user |-> u, op |-> o.op, id |-> i,
                                     kind |-> o.kind, key |-> o.key])
              /\ NextTurn(p, proc[p].conflict)
    /\ UNCHANGED <<account, blobs, store, used, history>>

\* Mutant: the queue is cleared although the answer lists a conflict.
QueueDropped(p) == <<>>

\* The queue is cleared only if the answer lists no conflict.
QueueAfter(p) == IF proc[p].conflict THEN proc[p].queue ELSE <<>>

\* The answer: the events since the command's revision, and the newest revision.
Answer(p) ==
  \E u \in Users :
    /\ At(p, "push") /\ proc[p].done = Len(proc[p].queue)
    /\ Caller(Bearer(proc[p].token), u)
    /\ Becomes(p, [Idle EXCEPT !.pc = "apply",
                      !.inbox = EventsAfter(u, proc[p].rev),
                      !.rev = MaxRevision(u), !.queue = QueueAfter(p)])
    /\ UNCHANGED <<server, store, used, history>>

\* Mutant: an item that was created or updated loses its fields.
EventRowEmpty(e) == [sealed |-> None, payload |-> FALSE, blob |-> None]

\* What an event leaves in the row: the fields that came with it.  The blob_id that
\* came instead of a payload is not looked at, and the row's own is gone.
EventRow(e) == [sealed |-> e.sealed, payload |-> e.payload, blob |-> None]

\* The events, in the order of their revisions.
applyEvent(p) ==
  /\ At(p, "apply")
  /\ \E e \in proc[p].inbox :
       /\ \A f \in proc[p].inbox : e.rev <= f.rev
       /\ rows' = [rows EXCEPT ![e.id] = EventRow(e)]
       /\ Becomes(p, [proc[p] EXCEPT !.inbox = @ \ {e}])
  /\ UNCHANGED <<server, auth, queue, lastRev, used, history>>

\* The commands that have loaded the queue and may save it.
Holding == {p \in Running : proc[p].pc \notin {"login", "opened", "revision"}}

\* The revision and the whole queue, as this command knows them.
SaveSync(p) ==
  /\ At(p, "save") \/ (At(p, "apply") /\ proc[p].inbox = {})
  /\ queue' = proc[p].queue /\ lastRev' = proc[p].rev
  /\ raced' = IF At(p, "save") /\ Holding # {p}
              THEN raced \cup {proc[p].queue[Len(proc[p].queue)].op} ELSE raced
  /\ End(p)
  /\ UNCHANGED <<server, auth, rows, used, changes, had, strays>>

\* The command stops where it is; what it wrote so far stays.
Fail(p) ==
  /\ ~At(p, "idle")
  /\ End(p)
  /\ UNCHANGED <<server, store, used, history>>

-----------------------------------------------------------------------------
Start(p) ==
  /\ beside' = IF Running = {} THEN beside ELSE beside + 1
  /\ beside' <= Beside
  /\ Open(p) \/ \E u \in Users : registerCmd(p, u) \/ loginCmd(p, u)

Continue(p) ==
  /\ UNCHANGED beside
  /\ \/ Save(p) \/ LoadRevision(p) \/ LoadQueue(p) \/ \E u \in Users : Unlock(p, u)
     \/ addCmd(p) \/ updateCmd(p) \/ deleteCmd(p) \/ uploadCmd(p) \/ AddUploaded(p)
     \/ listCmd(p) \/ getCmd(p) \/ downloadCmd(p)
     \/ syncCmd(p) \/ applyPendingOperation(p) \/ Answer(p) \/ applyEvent(p)
     \/ SaveSync(p) \/ Fail(p)

Next == \E p \in Slots : Start(p) \/ Continue(p)

Spec == Init /\ [][Next]_vars

-----------------------------------------------------------------------------
(***************************************************************************)
(* Properties.                                                             *)
(***************************************************************************)

\* The type invariant; a command that got past Unlock has a key.
TypeOK ==
  /\ account \in [Users -> Maybe(Keys)]
  /\ log \in Seq(Pushed)
  /\ blobs \in [Blobs -> Maybe([owner : Users, key : Keys])]
  /\ auth \in AuthStates
  /\ rows \in [Ids -> Maybe(Row)]
  /\ queue \in Seq(Pending) /\ lastRev \in 0..Len(log)
  /\ proc \in [Slots -> Commands]
  /\ \A p \in Slots :
       /\ proc[p].pc \in {"unlocked", "uploaded"} => proc[p].dek \in Keys
       /\ proc[p].rev <= Len(log) /\ proc[p].done <= Len(proc[p].queue)
  /\ used \cup raced \subseteq Ops /\ strays \subseteq Ops \cup Blobs
  /\ had \subseteq Users

\* Nothing is ever sealed with a key that is lost: the key of every row, queued
\* operation, stored item and file is the vault key of an account, which a login
\* on any device hands out.  A registration whose answer is lost, and a second
\* one that is refused, leave no key behind on the device.
KeysRecoverable ==
  LET held == {rows[i].sealed : i \in List}
                \cup {queue[k].key : k \in DOMAIN queue}
                \cup {log[r].key : r \in DOMAIN log}
                \cup {blobs[b].key : b \in {c \in Blobs : blobs[c] # None}}
                \cup {proc[p].dek : p \in Slots}
  IN  held \subseteq {None} \cup {account[u] : u \in Users}

\* A vault holds only what its owner can open.  The exceptions are what a change
\* of account caught on the way: operations that were queued, and commands that
\* were running, when a login or a registration put another account into the
\* directory.  The queue is not emptied then, and a command keeps the token it
\* started with.
SealedForOwner ==
  /\ \A r \in DOMAIN log :
       log[r].key \in {None, account[log[r].user]} \/ log[r].op \in strays
  /\ \A b \in Blobs : blobs[b] # None =>
       blobs[b].key = account[blobs[b].owner] \/ b \in strays

\* A row refers to a file only if the file is committed, wherever the upload or
\* a later command stopped.
RowBlobCommitted ==
  \A i \in List : rows[i].blob # None => blobs[rows[i].blob] # None

\* What the right password opens.  An item that cannot be decrypted is sealed with
\* the key of another account that the directory has had.  An item on which list
\* and get stop for a missing field is one that was deleted on the server, or one
\* that was written there with a payload above the threshold.  A file of the
\* caller's that cannot be decrypted was uploaded, or is downloaded, by a command
\* beside which the account changed.
OwnDataReadable ==
  \A p \in Slots : At(p, "unlocked") =>
    /\ \A i \in List :
         LET result == DecryptItem(proc[p].dek, rows[i])
         IN  /\ result = "error" =>
                  \E u \in had : rows[i].sealed = account[u] /\ account[u] # proc[p].dek
             /\ result = "panic" =>
                  \E r \in DOMAIN log :
                    log[r].id = i /\ (log[r].kind = "delete" \/ log[r].op \in Large)
    /\ \A b \in DownloadBlob(p) :
         blobs[b].key = proc[p].dek \/ b \in strays \/ proc[p].stray

\* A saved operation stays queued until the server has applied it for some
\* account, unless the command that saved it ran beside another command that
\* had the queue in memory: each of the two saves the queue it knows.
QueuedOpSurvives ==
  [][\A op \in OpsOf(queue) \ OpsOf(queue') :
       op \in raced \/ \E u \in Users : Processed(u, op)]_vars

=============================================================================
