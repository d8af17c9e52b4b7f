# GophKeeper: TLA+ models and proofs

GophKeeper is a password manager: a gRPC server over PostgreSQL and an object
store (MinIO), and a command line client with a SQLite database that works
offline and synchronises later. This directory models the parts of it that keep
state, checks them with TLC and proves most of what they promise with TLAPS.

## Inventory

| Part | State | Operations | What is hard |
|---|---|---|---|
| Vault engine (`internal/server/vault`, `vault_repositories.go`, `vault_engine_tx.go`) | `vault_items`, `revision_log`, `processed_operations`, the `revision_id` sequence | create, update, delete, each with an operation id and an expected version | concurrent calls, retries of calls that may have succeeded, failures between statements; the engine runs in a transaction for sync and on the pool for `VaultService` |
| Sync service (`sync_handler.go`, `revision_list.go`) | none of its own | `Sync`, `PushChanges`, `PullChanges` | revision numbers appear out of order; bundles and pages are cut; events carry the current row |
| Client sync (`client/app`, `client/storage`) | `vault_items`, `pending_operations`, `sync_state` | add, update, delete, sync | a command may stop anywhere; answers get lost; several devices |
| Accounts and sessions (`internal/server/auth`, `auth_repositories.go`, `device_handler.go`) | `users`, `devices`, `refresh_tokens` | register, login, refresh, logout, revoke device | one-time tokens under concurrency; revocation racing login and refresh; lock order |
| Blob upload (`blob_handler.go`, `upload_store.go`, `upload_session_lock.go`) | `blobs`, `upload_sessions`, objects in the bucket, a mutex per session | start, upload, commit, abort, download | three stores without a common transaction; expiry between check and use |
| Cleanup job (`internal/server/jobs`) | none of its own | periodic removal of expired sessions | races with commits; failures; batches |
| Payload resolution (`vault_payload.go`) | objects and blob rows of large payloads; `vault_items.blob_id` | called before the engine | checks a blob in one place and uses it in another; leaves objects behind on retries |
| Item listing (`ListItems`) | none | pages over `vault_items` | the page token; items that change between pages |
| Commands, login and keys (`client/cli`, `client/app/auth.go`, `client/crypto`, `client/transport`) | `auth_state`, one row; the vault key in memory | register, login, and the nine commands on items, files and the queue | every command is a process; two may share the data directory, and it may change its account |
| Access tokens and interceptors | none | name the user of a call | a token outlives the login that gave it out |
| TLS, configuration, logging, migrations | none that changes after start | | |

How they interact: the client sends its queue with `Sync`; the sync service runs
one engine transaction per operation and then reads the revision log in one
snapshot; the client applies the events and stores the revision as its cursor.
`VaultService` calls the same engine without a transaction. Vault items refer to
committed blobs; the blob handlers and the job share rows and object keys. Every
call is made under an access token that the session tables gave out.

## Modules

`VaultTables` declares one user's rows and what an operation does to them; every
other vault module extends it. All statements are keyed by `user_id`, so one user
is enough; other users only open gaps in the revision sequence.

`VaultEngine` is the engine, one SQL statement per action: `Lookup`, `Replay`,
`GetItem`, `CreateItem` / `UpdateItem` / `DeleteItem`, `NextRevision` (the
BIGSERIAL is drawn before the unique index is asked), `AppendRevision`,
`MarkProcessed`, `Commit`, `versionConflict`. `pushCreate` ... `directDelete` are
the handlers. The writes of an open transaction are not stored anywhere: which
rows it has written follows from its program counter (`HoldsRow`, `HoldsOp`), and
`Commit` writes them. `Abort` is every failure: errors, cancelled requests, lost
connections and a server that stops. A commit whose acknowledgement is lost is
the second answer of `Commit`. A retry is another call with the same operation id.

`VaultStore` is what the vault promises: `Apply` does the whole operation at once,
never twice and never on another version than expected. The one thing it lets
an implementation show is that a number is drawn (`Reserve`) before it is used.

`RevisionLog` and `RevisionFeed` are the read side over `VaultStore`: `Sync` and
`PullChanges` by readers that keep a cursor, a page token and a copy of the items.

`ItemPaging` is `ListItems` beside them: one client's listing, page by page, with
the number of times each item was delivered and the rows page tokens were made
from. The key of a row is the revision of its last change, which orders rows as
`updated_at` does while a user's pushes do not overlap.

`SyncClient` is the client's queue and rows, on several devices: each command loads
the sync state, edits the row, and saves the queue; `Sync` pushes the queue
operation by operation, takes the answer, applies events one by one and saves.
`Fail` stops a command anywhere. The server's side of one operation is a single
step, which `VaultEngine` implements. `used`, `base` and `torn` are history:
generated ids, the content an edit was made on, and the rows edited by a command
that stopped before it queued the operation. `content` stands for the write a row
carries, not for its bytes: that the payload of an item above 256 KiB does not reach
the device is outside this module, and `ClientCommands` has it. `LoadSync` is one
step here and two SELECTs in the code; between commands of one device that do not
overlap this is the same, and `ClientCommands` takes them apart.

`ClientCommands` is one data directory, with several accounts and commands that run
at the same time. A command takes the token (`Open`), loads the revision and the
queue with two SELECTs (`LoadRevision`, `LoadQueue`), asks for the password and
reads `auth_state` again for the key (`Unlock`), and only then differs from the
others; so it is there that the model decides which command it is. `register` and
`login` call the server and then `Save`. Sealed data is known by the key that opens
it; the wrapped key opens with the password and the salt of its account. The
server's side is a log of what pushes did for which user. A sync pushes one
operation per step (`applyPendingOperation`), since other commands and devices come
in between, and reads its `Answer` in one, as the handler does from a snapshot. The
answer is not cut at 500 events here: each property is about the events one by one,
and a shorter answer has no others. An event shows the item as it is now
(`Content`); the payload of an operation in `Large` is above the inline threshold,
so the server keeps it, without its nonce, as an object, the event comes without a
payload (`Inline`), and `applyEvent` leaves a row without one (`EventRow`). `Caller`
is the whole of its authentication: the user of a call is the subject of the bearer
token. `had`, `strays` and `raced` are history: the accounts the directory has had,
what a change of account caught on its way, and which operations were saved beside a
command that held the queue.

`AuthSessions` has one action per statement of the auth transactions, with the
row locks they hold (`locked`, `hit`), PostgreSQL's waits (`UserFree`,
`DeviceFree`, `TokenFree`) and its deadlock detector (`Deadlocked`). Registered
logins, device rows and token rows become visible at the `Commit...` actions.

`BlobUpload` has one action per statement, transaction or storage call of
`UploadBlob`, `abortUpload`, `CommitBlobUpload` and the job. Every storage and
database call may fail, `Drop` ends a call anywhere, `Restart` ends them all. The
lock that `CommitUploadedBlob` holds between its expiry check and its commit is
kept (`SessionFree`). Where two transactions lock the rows of an upload in
opposite orders PostgreSQL fails one of them, which is one of the failures the
model allows each of them anyway. Saving an item is part of it, as far as blobs
go: `SaveReference` and `StatReference` for a blob the client names, `SavePayload`
to `Compensate` for a payload too large for its row, and `WriteItem`; the job's
DELETE takes the `blob_id` of items with it. A client may call `CommitBlobUpload`
whatever its `UploadBlob` answered, and while that one is still running, and it may
name in an item any blob whose id it was given (`told`); the handlers check no more
than the rows and the object. `acked`, `hidden` and `listed` are history: the uploads
answered with success, those completed by a transaction that reported an error, and
the blobs the job has listed.

The `MC...` modules add symmetry sets, and `MCVaultEngine` adds `PushSpec`, the
behaviours that take calls, operations and items in the order of their numbers:
with liveness TLC may use no symmetry set, and every behaviour is a renaming of
one of these. Definitions marked "Mutant" are
variants of the definition below them, with a plausible mistake; nothing in the
specifications uses them. They show that the properties can fail.

## Runs

| Run | Checks | Result |
|---|---|---|
| `VaultPush` | `TxIsolated`, `HistoryExplainsItems`, `OpMutatesOneItem`, `Refines`, `Terminates` | the push path implements the atomic store, and lock waits end |
| `VaultMixed` | `TypeInv`, `AckIsLogged`, `OneWinnerPerVersion`, `NoLostUpdate` | what both paths together keep |
| `VaultDirect` | `OpMutatesOneItem` | **violated** on the direct path |
| `FeedSerial` | `FeedTypeOK`, `NothingSkipped`, `CaughtUpReaderAgrees`, `ListingAccountsForItems`, `ReplicaMovesForward` | hold while a user's pushes do not overlap and the bundle is not cut |
| `FeedCommitOrder` | `NothingSkipped` | **violated** with two pushes in flight |
| `FeedBundle` | `NothingSkipped` | **violated** with a backlog longer than the bundle |
| `ClientSync` | `TypeOK`, `SyncedDeviceAgrees`, `RetriesApplyOnce`, `NoOperationLost` | hold for two devices and failures anywhere |
| `ClientStuckQueue` | `QueueDrains` | **violated**: some operations are never cleared |
| `ClientBlindOverwrite` | `NoBlindOverwrite` | **violated**: an unseen version can be overwritten |
| `ClientCommands` | `TypeOK`, `KeysRecoverable`, `SealedForOwner`, `RowBlobCommitted`, `OwnDataReadable`, `QueuedOpSurvives` | hold, with the exceptions below |
| `AuthSessions` | `TypeOK`, `RevokedDeviceHasNoSession`, `OneTimeRefresh`, `SessionBelongsToDeviceOwner`, `RegistrationIsAtomic`, `EveryCallEnds` | hold; token and device locks can deadlock, and the detector resolves it |
| `BlobUpload` | `TypeOK`, `AckedUploadIsSafe`, `CommittedIsStored`, `ItemBlobIsStored`, `SessionMatchesBlob`, `CommittedStays`, `ExpiredSessionEnds` | hold, with the exceptions below |

The violations are where the code and what its documentation says part:

- *Direct calls are not idempotent.* `VaultService` uses an engine on the pool. A
  create that fails after its first statement and is retried makes a second item.
- *A cursor may pass an event.* `Sync` answers the maximum revision of the user.
  An earlier number that commits later, or an event beyond the bundle of 500, is
  below the cursor by then and is never delivered.
- *Some queues never drain.* A create gets a new id on the server; an update or
  delete queued for the local id is not found, or conflicts, in every later sync,
  and one conflict keeps all operations of the queue.
- *A local version is not the server's.* After a conflict the device's row has
  a version it counted itself; once the server's row has that number too, the
  next edit is accepted although the device never saw that row.

`CommittedIsStored` and `ItemBlobIsStored` except two kinds of blobs:

- one the job has listed. The job lists a session right after it expired; a commit that
  checked the expiry before is still under way; the job then deletes the object and the
  row of a blob that is committed by now, because neither DELETE looks at the status
  again;
- one of `hidden`. `CompleteClientUpload` commits and reports an error (a lost
  acknowledgement), and `UploadBlob` deletes the object it has stored. The session
  awaits its commit by now, so `CommitBlobUpload`, which finds the object still there,
  and an item that names the blob may both come before that DELETE, and the item is
  left without its object. TLC finds this when the exception is taken away.

`CommittedStays` has the first exception only: the undo takes the object and never the
row. Nothing else takes the object of a committed blob whose id was given out, answered
upload or not. The properties say *stored*, not *readable*: the nonce of a large payload
is not kept (`vault_payload.go:176`), so its object opens for nobody. And a committed
row may stand without an object where nobody was told its id: the INSERT for a large
payload commits but reports an error, and the handler deletes the object it had stored.

`ListingAccountsForItems` is exact about what a listing loses: the row a page token
is made from is the extra row, which the page does not deliver, and the next page
begins strictly below it. With pages of n rows every (n+1)-th item is on no page.

Four properties of `ClientCommands` name their exceptions:

- `SealedForOwner`: a login to another account leaves the queue and the revision
  in the data directory. The next sync pushes the former account's operations into
  the new account's vault, sealed with a key its owner does not have. The same
  happens to a command that was waiting for the password: its token is the old
  account's, its key the new one's. Nothing else gets into the wrong vault.
- `OwnDataReadable`, item by item: one that fails to open is sealed with the key of
  another account the directory has had, whose rows stay; one on which `list` and `get`
  panic was deleted on the server, which leaves a row without fields, or was written
  there with a payload above the threshold. Such a payload does not come back: the
  server keeps it, without its nonce, as an object, the event has none, `applyEvent`
  does not look at the blob id that came instead and writes a row without a payload,
  over the one that had it if the item was updated here, and `DecryptItem` dereferences
  the missing field. TLC finds this too when the exception is taken away. A file of the
  caller's opens unless the account changed beside its upload or its download.
- `QueuedOpSurvives`: of two commands that hold the queue at the same time, the
  later one to save drops what the other has queued.
- `KeysRecoverable` has none: whatever fails, no data is sealed with a key that a
  login could not hand out. One reason is that `register` saves no key at all, so
  that until a login the right password is refused.

### Bounds

Calls, operations, items, devices and tokens are small sets of model values.
Three calls are the least in which a retry overlaps its first attempt while
another operation touches the item; two operations and two items let a duplicate
show as a second item; an edit may expect version 1 in `VaultPush`, and in
`VaultMixed` a stale or the current one.
`MaxOpen` and `MaxRev` bound open pushes and drawn numbers in `RevisionFeed`; five
revisions over pages of two give three pages, and three items over pages of one a
listing with a row above and one below the token's. Readers do not affect each
other, so one is enough. `FeedSerial` sets `MaxOpen` to 1 and
`Bundle` above `MaxRev`: exactly the two assumptions whose loss the two violation
runs show. `ClientSync` gives each device one command at a time (`Slots`), three
operations and two devices. `ClientCommands` has two slots, two accounts, two
operations, one of them with a large payload, and a file; `Beside` lets one command
start while another runs, at any
point of any history of commands, and `Changes` lets the account change and change
back. In `AuthSessions` three tokens are a login and two
rotations; two users contend for one device. In `BlobUpload` one upload has two
calls in flight and another is abandoned after its start, with a batch of one, so
that the job must go on to a second batch; the first blob may be an upload or a
large payload. Each call is made once in
`VaultEngine`, so its behaviours are finite; this is why deadlock is not checked
there. The other models stop when their model values (tokens, operations, blobs)
are used up, where the program would go on.

### Fairness

`VaultEngine`: weak fairness of a call's own steps (the server runs what it has
accepted); nothing forces a client to call or a call to fail. `Terminates` excepts
a create for which the model has no uuid left. `SyncClient`: the user keeps
calling sync, commands keep running, and from some time on nothing fails; even
then `QueueDrains` is violated. `AuthSessions`: strong fairness of a call's steps,
because PostgreSQL queues the waiters of a lock, and weak fairness of the abort of
a deadlocked call. `BlobUpload`: calls run, passes start, and the SELECT and the
DELETE of the job do not fail for ever; a pass may be cut short any number of
times.

## Proofs

TLAPS checks these for every value of the constants: any number of calls,
operations, items, devices, tokens, blobs, readers, and any page or batch size.
Each component has one inductive invariant, which a TLC run had passed before it was
proved; the properties follow from it. Every action has its own lemma.

**Vault engine** (`VaultEngineProofs`, `VaultStoreProofs`)

- `TypeCorrect`: `[]TypeInv`, on both paths. The type
  invariant is not inductive without `CallsTyped` (a call inside the engine has a
  request, and an item unless it is a create before its write) and
  `ProcessedTyped` (a replay finds an item id).
- `AcknowledgedIsLogged`, `OneWriterWins` and `NoUpdateLost`: `AckIsLogged`,
  `OneWinnerPerVersion` and `NoLostUpdate` on both paths together. `MixedInv` adds
  to the type invariant what a call on the pool relies on between its statements
  (`Unlogged`): once it has written its row, that version of the item is its
  own, whatever transactions run beside it, until its log row is there. This is why
  no two log rows share an item and a version, although the two are
  written in different transactions.
- `PushIsolated`: with `Paths = {"push"}`, `[]TxIsolated`. This
  is the inductive invariant of the concurrent part: the row an open transaction
  wrote is still as it found it and nobody else's, its operation is in no log row,
  and its number is later than every logged number of its item. The row lock gives
  the first, the unique index the second, drawing the number under the row lock
  the third. `Marked` being consistent with the log makes it inductive.
- `PushRefinesStore`: the push path implements `VaultStore`,
  with `pending` mapped to the numbers open transactions have drawn. `Commit` maps
  to `Apply`, `NextRevision` to `Reserve`, an end without commit to `Release`, all
  other steps to stuttering.
- `StoreCorrect`: the atomic store keeps `StoreInv`: unique
  revisions, processed operations that are the logged ones, one log row per
  version in revision order, and rows that are what their last change left.
  `PushHistory` and `PushIdempotent` carry this over to the push path through the
  refinement.

**Feed and listing** (`RevisionFeedProofs`)

- `FeedTypes` and `CopyMovesForward` need no condition: `FeedInv` says that no copy is
  ahead of its item and no cursor ahead of the sequence, also when pushes commit out of
  order and bundles are cut. What a reader may lose is an event, never a newer version.
- `CursorNotAhead`, `CaughtUpAgrees` and `ListingAccounts` hold under `SerialWriters`:
  one open push at a time, and no more revisions than a bundle holds. These are the
  conditions that `FeedCommitOrder` and `FeedBundle` drop, one each, and lose
  `NothingSkipped` by it; so the two runs and the theorem say together what the cursor
  depends on. `SerialInv` adds `OpenIsLast` (the number drawn is later than the log) and
  `Agrees` (a reader has an item as it is, or an event of it is still ahead of its
  cursor or its page token). `ListingInv` says where a listing is: what it has delivered
  is at or above the row its next page starts from.

**Client** (`SyncClientProofs`)

- `ClientTypes` and `AppliedOnce` hold for overlapping commands too, from `BaseInv`: the
  log, the processed operations and the items of the server agree.
- `QueuedIsNotLost` holds if the commands of one device do not overlap (`OneCommand`).
  The condition is needed: with two commands of one device TLC violates
  `NoOperationLost` (the later SaveSync writes the queue it loaded before the other
  one saved), which is the exception that `QueuedOpSurvives` of `ClientCommands` names.
  `KeptInv` relates the copy of the queue in memory to the saved one: the same
  while it is pushed, longer by one while an edit is saved, and empty only if all of
  it was applied.
- `DeviceAgrees` holds if, besides, an answer holds the whole log (`BundleHoldsLog`,
  the condition of `FeedBundle` again). `AgreeInv` says for every device and item,
  between any two steps: the row is as the server has it, or an event that is newer
  than the saved revision will say so, or an operation on it is still to be pushed, or
  the edit was cut short before SaveSync; and while events are being applied, the last one
  in the inbox of an item brings its present row. `applyEvent` may leave rows that are too
  old on the way (a command that fails between two events), which is why the first
  alternatives are needed.

**Commands, accounts and keys** (`ClientCommandsProofs`): `CommandsTyped`,
`KeysAreRecoverable`, `VaultsSealedForOwner`, `RowBlobsCommitted`, `OwnDataIsReadable`
and `QueuedOpsSurvive`, with no condition: any number of accounts, of commands at the
same time and of changes of account, and any set of large operations. `CommandsInv` has
one part for each place where
data may be, and says of it what may be there:

- `ServerInv` and `DirectoryInv`: a key in a vault, in a row or in the queue is one a
  login hands out; what is not a stray is sealed for the owner of the vault, or the
  account of the directory.
- `GoodRows` and `GoodEvents`, for each item: its row, and every event of it in an
  answer not applied yet, is sealed with the key of an account the directory has had,
  and lacks a field only if the log has a delete, or for the payload a large write, of
  that item. `OwnDataIsReadable` follows from it.
- `CommandInv`: a command beside which the account did not change has the token and the
  key of the account; one beside which it changed has only strays to push. So
  `SealedForOwner` has no exceptions but those it names.
- `RaceInv`: each command that may save the queue knows what is saved, and what it
  knows is saved, except for operations that were saved beside another command or are
  applied. It is what makes `QueuedOpSurvives` hold when one of two commands saves.

All steps but a change of account only add to what the server and the history know
(`Later`), and what may be in a place stays allowed there (`LaterSets`). The step of one
command therefore keeps what is said of the others, and each action's lemma is left with
its own command and what it writes.

**Sessions** (`AuthSessionsProofs`): `AuthTypes`, `RevocationHolds`,
`RefreshRotatesOnce`, `DevicesStayOwned`, `RegistrationAtomic`. `AuthInv` adds to the
properties the shape of each call (what its variables hold at its step), the locks it
relies on (`LocksHeld`: a call that was let through holds its rows alone, and what it
read under the lock is still so) and that tokens not issued yet are in no row
(`NoGhosts`).

**Uploads** (`BlobUploadProofs`): `UploadTypes`, `AnsweredUploadIsKept`,
`CommittedHasObject`, `ItemHasItsBlob`, `RowsAgree`, `CommitIsFinal`. `UploadInv` has,
for each call, what it has found out so far and may still rely on (`CallInv`), that one
call at a time is past the mutex of a session (`Exclusive`), and that the job only
deletes what it listed after its deadline (`JobInv`). A call that may still
delete an object never has a blob that is complete, known to a client and not one of
`hidden` (`Kept`); this is why the exceptions of `ItemHasItsBlob` are complete although
any client may commit and refer to a blob at any time.

`OrderFacts` holds what these need about numbers: least and greatest elements, and
what `ORDER BY ... LIMIT n` selects.

The assumptions are those of the modules (`VaultAssumption`, `PathsAssumption`,
`FeedAssumption`, `ClientAssumption`, `CommandsAssumption` and so on, each evaluated by TLC
in the runs), and, where a theorem says so, `PushOnly`, `SerialWriters`, `OneCommand` and
`BundleHoldsLog`, each of which an instance of the passing runs satisfies.

Only model-checked: all liveness (`Terminates`, `QueueDrains`, `EveryCallEnds`,
`ExpiredSessionEnds`), which needs ENABLED and fairness and is outside the prover.

## Not modelled

TLS, configuration, logging, migrations, the connection set-up of PostgreSQL and
MinIO, and generated code keep no state that the above depends on. Cryptography is
modelled by which key opens what and whether a payload is there; nonces, checksums
and the contents of files are left out. The signature and the expiry of an access
token are a refusal of the call, which is one of the failures a command may meet;
that a token stays valid after its device was revoked is how the interceptor is
built, and no property is about it. Objects that nothing refers to any more (an
upload repeated after its session expired, a large payload whose operation failed or
was a replay) arise in `BlobUpload`, but no property forbids them: they are garbage,
and every DELETE of the bucket may fail as well. `PROJECT.json` lists each part with
its reason, and under "hazards" what no property covers.

## Plan

1. Done: the vault engine, its abstract store and the refinement proof; the feed;
   the client's queue; sessions; uploads; the listing; payload resolution and the
   blobs of items; the commands, accounts and keys of a data directory.
2. Proved: every invariant and action property of the passing runs.
3. Left to model: access tokens in `AuthSessions`, which are issued after the
   session commits.
