----------------------------- MODULE BlobUpload -----------------------------
(***************************************************************************)
(* Uploading a file: the blob and session rows, the object in the bucket,  *)
(* the UploadBlob and CommitBlobUpload handlers running side by side, the  *)
(* job that removes expired sessions, and the items that refer to a blob:  *)
(* one that was uploaded, or one that holds their own large payload.       *)
(*                                                                         *)
(* A step is one statement, one transaction or one call of the object      *)
(* storage.  Each of them may fail, and the process may stop between any   *)
(* two.  The row lock that CommitUploadedBlob holds between its check and  *)
(* its commit is a step boundary; the other transactions lock and write in *)
(* one step.  The clock is the set of sessions whose expires_at has passed.*)
(* The object key and the session id are made with the blob id, so all     *)
(* three are named by the blob.                                            *)
(***************************************************************************)
EXTENDS Naturals, FiniteSets, FiniteSetsExt

CONSTANTS Blobs,     \* blob ids: numbers, because the job goes through them
                     \* in order
          Abandoned, \* those whose client starts the upload and never calls
                     \* again
          Workers,   \* calls in flight
          Batch,     \* UploadSessionCleanupListBatchSize
          None

ASSUME BlobAssumption ==
  /\ Blobs \subseteq Nat /\ Abandoned \subseteq Blobs
  /\ Batch \in Nat \ {0}
  /\ None \notin Blobs

VARIABLES
  status,   \* blobs: status of the row ("none", and "removed" once deleted)
  session,  \* upload_sessions: status of the row ("none": no row)
  object,   \* the bucket: blobs whose object is stored
  expired,  \* blobs whose session has passed expires_at
  attached, \* vault_items.blob_id: blobs some item refers to
  told,     \* ids given out: by the answer of StartBlobUpload, or in an item
  acked,    \* history: blobs whose UploadBlob was answered with success
  hidden,   \* history: blobs whose CompleteClientUpload took effect and
            \* reported an error
  pc,       \* the step a call is at
  blob,     \* the blob it is about
  key,      \* objectKey argument of its abortUpload: is the object deleted?
  job,      \* the step the cleanup job is at
  cutoff,   \* sessions expired at the start of its pass
  refs,     \* blobs of its batch it has still to remove
  full,     \* the batch was full, so it lists again
  listed    \* history: the blobs the job has ever listed

rows   == <<status, session>>
uses   == <<attached, told, acked, hidden>>
calls  == <<pc, blob, key>>
clean  == <<job, cutoff, refs, full, listed>>
vars   == <<rows, object, expired, uses, calls, clean>>

InFlight == {"pending", "uploading"}

\* The calls of UploadBlob and CommitBlobUpload, by the step they are at.
Uploading  == {"blob", "stream", "put", "complete", "undo",
               "deleteSession", "markFailed", "deleteObject"}
Committing == {"session", "check", "stat", "lock", "commit"}
Saving     == {"payload", "create", "compensate", "reference", "write"}

Init ==
  /\ status  = [b \in Blobs |-> "none"]
  /\ session = [b \in Blobs |-> "none"]
  /\ object = {} /\ expired = {}
  /\ attached = {} /\ told = {} /\ acked = {} /\ hidden = {}
  /\ pc   = [w \in Workers |-> "idle"]
  /\ blob = [w \in Workers |-> None]
  /\ key  = [w \in Workers |-> FALSE]
  /\ job = "idle" /\ cutoff = {} /\ refs = {} /\ full = FALSE /\ listed = {}

\* CommitUploadedBlob of another call holds the session row.
SessionFree(b) == \A w \in Workers : ~(pc[w] = "commit" /\ blob[w] = b)

Goto(w, l) == pc' = [pc EXCEPT ![w] = l] /\ UNCHANGED <<blob, key>>

Return(w) ==
  /\ pc' = [pc EXCEPT ![w] = "idle"]
  /\ blob' = [blob EXCEPT ![w] = None]
  /\ key' = [key EXCEPT ![w] = FALSE]

abortUpload(w, withKey) ==
  /\ pc' = [pc EXCEPT ![w] = "deleteSession"]
  /\ key' = [key EXCEPT ![w] = withKey]
  /\ UNCHANGED blob

-----------------------------------------------------------------------------
(***************************************************************************)
(* StartBlobUpload and UploadBlob.                                         *)
(***************************************************************************)
\* uuid.NewString: an id no row, object or call has.
Fresh(b) ==
  status[b] = "none" /\ b \notin object /\ \A w \in Workers : blob[w] # b

StartBlobUpload(b) ==
  /\ Fresh(b)
  /\ status'  = [status EXCEPT ![b] = "pending"]
  /\ session' = [session EXCEPT ![b] = "open"]
  /\ told' = told \cup {b}
  /\ UNCHANGED <<object, expired, attached, acked, hidden, calls, clean>>

\* Mutant: no mutex.
Unserialized(b) == b \in Blobs

\* The mutex of the session is free.
acquire(b) == \A w \in Workers : ~(pc[w] \in Uploading /\ blob[w] = b)

\* acquire and GetSession.  An expired session is aborted, but not its object.
\* Without a session, or with one that is not open, the call only fails.
UploadBlob(w, b) ==
  /\ pc[w] = "idle" /\ acquire(b)
  /\ session[b] # "none"
  /\ b \in expired \/ session[b] = "open"
  /\ pc' = [pc EXCEPT ![w] = IF b \in expired THEN "deleteSession" ELSE "blob"]
  /\ blob' = [blob EXCEPT ![w] = b]
  /\ UNCHANGED <<rows, object, expired, uses, key, clean>>

GetPending(w) ==
  /\ pc[w] = "blob"
  /\ IF status[blob[w]] = "pending" THEN Goto(w, "stream") ELSE Return(w)
  /\ UNCHANGED <<rows, object, expired, uses, clean>>

\* All chunks arrived and fit; the clock is read again.
ReceiveAll(w) ==
  /\ pc[w] = "stream"
  /\ IF blob[w] \in expired THEN abortUpload(w, TRUE) ELSE Goto(w, "put")
  /\ UNCHANGED <<rows, object, expired, uses, clean>>

\* A chunk out of order or too long, a wrong size or a wrong checksum.
ReceiveBad(w) ==
  /\ pc[w] = "stream"
  /\ abortUpload(w, TRUE)
  /\ UNCHANGED <<rows, object, expired, uses, clean>>

Put(w) ==
  /\ pc[w] = "put"
  /\ object' = object \cup {blob[w]}
  /\ Goto(w, "complete")
  /\ UNCHANGED <<rows, expired, uses, clean>>

\* The storage answers with an error, whether or not it has the object.
PutFails(w) ==
  /\ pc[w] = "put"
  /\ object' \in {object, object \cup {blob[w]}}
  /\ abortUpload(w, TRUE)
  /\ UNCHANGED <<rows, expired, uses, clean>>

\* Mutant: the UPDATE of blobs is not part of the transaction.
CompletedSessionOnly(b) ==
  /\ session[b] = "open" /\ status[b] = "pending"
  /\ session' = [session EXCEPT ![b] = "awaiting"]
  /\ UNCHANGED status

\* Both UPDATEs find their row, and the transaction commits.
Completed(b) ==
  /\ session[b] = "open" /\ status[b] = "pending"
  /\ session' = [session EXCEPT ![b] = "awaiting"]
  /\ status' = [status EXCEPT ![b] = "uploading"]

CompleteClientUpload(w) ==
  /\ pc[w] = "complete"
  /\ Completed(blob[w])
  /\ acked' = acked \cup {blob[w]}
  /\ Return(w)
  /\ UNCHANGED <<object, expired, attached, told, hidden, clean>>

\* Not found, or any other error, the one included that hides a commit.
\* ErrUploadSessionNotOpen alone leaves the object to whoever completed it.
CompleteFails(w) ==
  /\ pc[w] = "complete"
  /\ \/ Completed(blob[w]) /\ hidden' = hidden \cup {blob[w]}
     \/ UNCHANGED <<rows, hidden>>
  /\ \E undo \in IF session[blob[w]] = "awaiting" THEN BOOLEAN ELSE {TRUE} :
       IF undo THEN Goto(w, "undo") ELSE Return(w)
  /\ UNCHANGED <<object, expired, attached, told, acked, clean>>

\* blobStorage.Delete, and abortUpload without the key.
Undo(w) ==
  /\ pc[w] = "undo"
  /\ object' \in {object, object \ {blob[w]}}
  /\ abortUpload(w, FALSE)
  /\ UNCHANGED <<rows, expired, uses, clean>>

-----------------------------------------------------------------------------
(***************************************************************************)
(* abortUpload: three calls, and the error of each is ignored.             *)
(***************************************************************************)
DeleteSession(w) ==
  /\ pc[w] = "deleteSession"
  /\ \/ /\ SessionFree(blob[w])
        /\ session' = [session EXCEPT ![blob[w]] = "none"]
     \/ UNCHANGED session
  /\ Goto(w, "markFailed")
  /\ UNCHANGED <<status, object, expired, uses, clean>>

\* Mutant: MarkFailed without AND status IN ($5, $6).
AnyRow(b) == status[b] \notin {"none", "removed"}

\* WHERE ... AND status IN (pending, uploading)
Abortable(b) == status[b] \in InFlight

MarkFailed(w) ==
  /\ pc[w] = "markFailed"
  /\ \/ /\ Abortable(blob[w])
        /\ status' = [status EXCEPT ![blob[w]] = "failed"]
     \/ UNCHANGED status
  /\ IF key[w] THEN Goto(w, "deleteObject") ELSE Return(w)
  /\ UNCHANGED <<session, object, expired, uses, clean>>

DeleteObject(w) ==
  /\ pc[w] = "deleteObject"
  /\ object' \in {object, object \ {blob[w]}}
  /\ Return(w)
  /\ UNCHANGED <<rows, expired, uses, clean>>

-----------------------------------------------------------------------------
(***************************************************************************)
(* CommitBlobUpload.  A client may call it whatever its UploadBlob said,   *)
(* and while another one is still running.                                 *)
(***************************************************************************)
\* Without a session the call only fails.
CommitBlobUpload(w, b) ==
  /\ pc[w] = "idle" /\ session[b] # "none"
  /\ pc' = [pc EXCEPT ![w] = "session"]
  /\ blob' = [blob EXCEPT ![w] = b]
  /\ UNCHANGED <<rows, object, expired, uses, key, clean>>

\* The check of a handler: it goes on to step l if ok, or returns an error.
Check(w, at, ok, l) ==
  /\ pc[w] = at
  /\ IF ok THEN Goto(w, l) ELSE Return(w)
  /\ UNCHANGED <<rows, object, expired, uses, clean>>

Ready(b) == session[b] = "awaiting" /\ b \notin expired

GetSession(w)   == Check(w, "session", Ready(blob[w]), "check")
GetUploading(w) == Check(w, "check", status[blob[w]] = "uploading", "stat")
Stat(w)         == Check(w, "stat", blob[w] \in object, "lock")

\* SELECT ... FOR UPDATE, and the two checks in the transaction.
LockSession(w) ==
  /\ SessionFree(blob[w])
  /\ Check(w, "lock", Ready(blob[w]), "commit")

CommitUploadedBlob(w) ==
  /\ pc[w] = "commit"
  /\ \/ /\ status[blob[w]] = "uploading"
        /\ session' = [session EXCEPT ![blob[w]] = "none"]
        /\ status' = [status EXCEPT ![blob[w]] = "committed"]
     \/ status[blob[w]] # "uploading" /\ UNCHANGED rows
  /\ Return(w)
  /\ UNCHANGED <<object, expired, uses, clean>>

-----------------------------------------------------------------------------
(***************************************************************************)
(* Saving an item: resolveVaultPayload, then the item's row.  What it      *)
(* stores it stores before the engine runs, so an operation that fails, or *)
(* turns out to be a replay, leaves it behind; that is a Drop.             *)
(***************************************************************************)
\* Mutant: any row will do.
AnyStatus(b) == status[b] # "none"

\* GetByID and its checks: blob_id must name a committed blob.
Referable(b) == status[b] = "committed"

\* Ids are UUIDs: a request names one that the server has given out.
SaveReference(w, b) ==
  /\ pc[w] = "idle" /\ b \in told /\ Referable(b)
  /\ pc' = [pc EXCEPT ![w] = "reference"]
  /\ blob' = [blob EXCEPT ![w] = b]
  /\ UNCHANGED <<rows, object, expired, uses, key, clean>>

StatReference(w) == Check(w, "reference", blob[w] \in object, "write")

\* A payload above InlineThresholdBytes becomes an object of its own.
SavePayload(w, b) ==
  /\ pc[w] = "idle" /\ Fresh(b)
  /\ pc' = [pc EXCEPT ![w] = "payload"]
  /\ blob' = [blob EXCEPT ![w] = b]
  /\ UNCHANGED <<rows, object, expired, uses, key, clean>>

PutPayload(w) ==
  /\ pc[w] = "payload"
  /\ \/ object' = object \cup {blob[w]} /\ Goto(w, "create")
     \/ object' \in {object, object \cup {blob[w]}} /\ Return(w)
  /\ UNCHANGED <<rows, expired, uses, clean>>

\* blobRepo.Create with status committed; an error may hide the INSERT.
CreatePayload(w) ==
  /\ pc[w] = "create"
  /\ \/ status' = [status EXCEPT ![blob[w]] = "committed"] /\ Goto(w, "write")
     \/ /\ status' \in {status, [status EXCEPT ![blob[w]] = "committed"]}
        /\ Goto(w, "compensate")
  /\ UNCHANGED <<session, object, expired, uses, clean>>

Compensate(w) ==
  /\ pc[w] = "compensate"
  /\ object' \in {object, object \ {blob[w]}}
  /\ Return(w)
  /\ UNCHANGED <<rows, expired, uses, clean>>

\* The row of the item, by a create or an update; its foreign key wants the row
\* of the blob.
WriteItem(w) ==
  /\ pc[w] = "write"
  /\ status[blob[w]] # "removed"
  /\ attached' = attached \cup {blob[w]} /\ told' = told \cup {blob[w]}
  /\ Return(w)
  /\ UNCHANGED <<rows, object, expired, acked, hidden, clean>>

\* An update of the last item that refers to a blob gives it another payload.
ReplacePayload(b) ==
  /\ b \in attached
  /\ attached' = attached \ {b}
  /\ UNCHANGED <<rows, object, expired, told, acked, hidden, calls, clean>>

-----------------------------------------------------------------------------
(***************************************************************************)
(* RunUploadSessionCleanup.                                                *)
(***************************************************************************)
\* Mutant: an upload that waits for its commit is not looked for.
ExpirablePending == {b \in cutoff : session[b] # "none" /\ status[b] = "pending"}

\* Expired session, and a blob that is pending or uploading.
Expirable == {b \in cutoff : session[b] # "none" /\ status[b] \in InFlight}

\* Mutant: no LIMIT.
AllBlobs(S) == {b \in S : b \in Blobs}

\* ORDER BY blob_id LIMIT
FirstBlobs(S) == {b \in S : Cardinality({c \in S : c < b}) < Batch}

StartPass ==
  /\ job = "idle"
  /\ cutoff' = expired
  /\ job' = "list"
  /\ UNCHANGED <<rows, object, expired, uses, calls, refs, full, listed>>

EndPass == job' = "idle" /\ cutoff' = {} /\ refs' = {} /\ full' = FALSE

ListExpiredUploadBlobRefs ==
  /\ job = "list"
  /\ \/ Expirable = {} /\ EndPass /\ UNCHANGED listed
     \/ /\ Expirable # {}
        /\ refs' = FirstBlobs(Expirable)
        /\ full' = (Cardinality(refs') = Batch)
        /\ listed' = listed \cup refs'
        /\ job' = "object"
        /\ UNCHANGED cutoff
  /\ UNCHANGED <<rows, object, expired, uses, calls>>

CleanObject ==
  /\ job = "object"
  /\ object' \in {object, object \ {Min(refs)}}
  /\ job' = "row"
  /\ UNCHANGED <<rows, expired, uses, calls, cutoff, refs, full, listed>>

\* On to the next blob of the batch, the next batch, or the end of the pass.
NextRef ==
  \/ /\ refs # {Min(refs)} \/ full
     /\ refs' = refs \ {Min(refs)}
     /\ job' = IF refs' # {} THEN "object" ELSE "list"
     /\ UNCHANGED <<cutoff, full>>
  \/ refs = {Min(refs)} /\ ~full /\ EndPass

\* DELETE by primary key; the session goes with it, and items lose their blob.
DeleteBlobByID(b) ==
  /\ job = "row" /\ b = Min(refs)
  /\ SessionFree(b)
  /\ status' = [status EXCEPT ![b] = "removed"]
  /\ session' = [session EXCEPT ![b] = "none"]
  /\ attached' = attached \ {b}
  /\ NextRef
  /\ UNCHANGED <<object, expired, told, acked, hidden, calls, listed>>

\* The error is logged, and the row left for the next pass.
DeleteBlobFails ==
  /\ job = "row"
  /\ NextRef
  /\ UNCHANGED <<rows, object, expired, uses, calls, listed>>

\* The pass runs out of its timeout, or its SELECT fails.
StopPass ==
  /\ job # "idle"
  /\ EndPass
  /\ UNCHANGED <<rows, object, expired, uses, calls, listed>>

-----------------------------------------------------------------------------
\* The request is cancelled or its connection lost: nothing more gets done.
Drop(w) ==
  /\ pc[w] # "idle"
  /\ Return(w)
  /\ UNCHANGED <<rows, object, expired, uses, clean>>

\* The process stops and starts again: calls, mutexes and the pass are gone.
Restart ==
  /\ pc' = [w \in Workers |-> "idle"]
  /\ blob' = [w \in Workers |-> None]
  /\ key' = [w \in Workers |-> FALSE]
  /\ EndPass
  /\ UNCHANGED <<rows, object, expired, uses, listed>>

Expire(b) ==
  /\ status[b] # "none" /\ b \notin expired
  /\ expired' = expired \cup {b}
  /\ UNCHANGED <<rows, object, uses, calls, clean>>

-----------------------------------------------------------------------------
Upload(w) ==
  \/ GetPending(w) \/ ReceiveAll(w) \/ ReceiveBad(w) \/ Put(w) \/ PutFails(w)
  \/ CompleteClientUpload(w) \/ CompleteFails(w) \/ Undo(w)
  \/ DeleteSession(w) \/ MarkFailed(w) \/ DeleteObject(w)

Commit(w) ==
  \/ GetSession(w) \/ GetUploading(w) \/ Stat(w) \/ LockSession(w)
  \/ CommitUploadedBlob(w)

SaveItem(w) ==
  \/ StatReference(w) \/ PutPayload(w) \/ CreatePayload(w) \/ Compensate(w)
  \/ WriteItem(w)

Cleanup ==
  \/ StartPass \/ ListExpiredUploadBlobRefs \/ CleanObject
  \/ \E b \in Blobs : DeleteBlobByID(b)

Next ==
  \/ \E w \in Workers :
       \/ Upload(w) \/ Commit(w) \/ SaveItem(w) \/ Drop(w)
       \/ \E b \in Blobs \ Abandoned :
            \/ UploadBlob(w, b) \/ CommitBlobUpload(w, b)
            \/ SaveReference(w, b) \/ SavePayload(w, b)
  \/ \E b \in Blobs : StartBlobUpload(b) \/ Expire(b) \/ ReplacePayload(b)
  \/ Cleanup \/ DeleteBlobFails \/ StopPass \/ Restart

Spec == Init /\ [][Next]_vars

\* Calls end.  The job runs for ever, and what it does fails now and then, but
\* not always: its SELECT, and the DELETE of a row it reaches again and again,
\* succeed in the end.
FairSpec ==
  /\ Spec
  /\ \A w \in Workers : WF_vars(Upload(w) \/ Commit(w) \/ SaveItem(w))
  /\ WF_vars(StartPass)
  /\ SF_vars(ListExpiredUploadBlobRefs)
  /\ SF_vars(CleanObject)
  /\ \A b \in Blobs : SF_vars(DeleteBlobByID(b))

-----------------------------------------------------------------------------
(***************************************************************************)
(* Properties.                                                             *)
(***************************************************************************)

\* The type invariant; the job never works on more than one batch.
TypeOK ==
  /\ status \in [Blobs -> {"none", "pending", "uploading", "committed",
                           "failed", "removed"}]
  /\ session \in [Blobs -> {"none", "open", "awaiting"}]
  /\ object \subseteq Blobs /\ expired \subseteq Blobs /\ told \subseteq Blobs
  /\ attached \cup acked \cup hidden \subseteq told
  /\ pc \in [Workers -> {"idle"} \cup Uploading \cup Committing \cup Saving]
  /\ blob \in [Workers -> Blobs \cup {None}]
  /\ \A w \in Workers : pc[w] # "idle" => blob[w] \in Blobs
  /\ key \in [Workers -> BOOLEAN]
  /\ job \in {"idle", "list", "object", "row"}
  /\ cutoff \subseteq expired /\ refs \subseteq cutoff /\ listed \subseteq expired
  /\ Cardinality(refs) <= Batch
  /\ full \in BOOLEAN

\* An upload that was answered with success is not lost before its deadline:
\* the blob stays committed, or ready to be, and its object stays in the bucket,
\* whatever other UploadBlob calls of the session, a retry that waits for the
\* mutex among them, do with the same key.
AckedUploadIsSafe ==
  \A b \in acked \ expired :
    /\ b \in object
    /\ \/ status[b] = "committed"
       \/ status[b] = "uploading" /\ session[b] = "awaiting"

\* A committed blob whose id was given out can be downloaded: its object is in
\* the bucket, whether or not its upload was ever answered.  (The row of a large
\* payload whose INSERT reported an error may stand without one; nobody was told
\* its id.)  There are two exceptions.  The job may have listed the blob while
\* its commit was under way: the check of expires_at comes before the commit,
\* and the job's DELETEs do not look at the status again.  And UploadBlob may
\* have taken an error of CompleteClientUpload for a failure: it deletes the
\* object of a session that awaits its commit.
CommittedIsStored ==
  \A b \in told : status[b] = "committed" /\ b \notin listed \cup hidden =>
    b \in object

\* The blob of an item is a committed one, and its object stored, however the
\* checks of resolveVaultPayload and the write of the item's row, some steps
\* later, mix with commits, late aborts and the job.  The exceptions are the
\* same two; when the job deletes the row, the item loses its blob_id with it.
\* (A stored object is not yet a readable one: the nonce of a payload that was
\* made into an object is not kept.  See OwnDataReadable in ClientCommands.)
ItemBlobIsStored ==
  \A b \in attached :
    status[b] = "committed" /\ (b \in object \/ b \in listed \cup hidden)

\* Committed is final, with the same exception: an abortUpload that comes late
\* does not fail the blob, and no pass that starts later removes it.
CommittedStays ==
  [][\A b \in Blobs : status[b] = "committed" /\ b \notin listed =>
       status'[b] = "committed"]_vars

\* The two rows of an upload move together through CompleteClientUpload,
\* CommitUploadedBlob and DeleteBlobByID; only abortUpload, which is no
\* transaction, can leave a session behind with a failed blob.
SessionMatchesBlob ==
  \A b \in Blobs :
    /\ session[b] = "open" => status[b] \in {"pending", "failed"}
    /\ session[b] = "awaiting" => status[b] \in {"uploading", "failed"}

\* An abandoned upload does not stay: what the job is there to find, an expired
\* session of a blob in flight, is gone in the end, however often calls of the
\* job fail, and although one batch may not hold all of them.
ExpiredSessionEnds ==
  \A b \in Blobs :
    b \in expired /\ session[b] # "none" /\ status[b] \in InFlight
      ~> ~(session[b] # "none" /\ status[b] \in InFlight)

=============================================================================
