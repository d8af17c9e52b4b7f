-------------------------- MODULE BlobUploadProofs --------------------------
(***************************************************************************)
(* The upload mutex, the two-row transactions and the order of the steps   *)
(* are enough: whatever calls, aborts, crashes and passes of the cleanup   *)
(* job run side by side, an answered upload and the blob of an item keep   *)
(* their object, for any number of blobs and calls and any batch size; but *)
(* for a completion that took effect and was reported as an error.         *)
(***************************************************************************)
EXTENDS BlobUpload, OrderFacts, TLAPS

\* An item's own payload on its way to the bucket: nobody else knows its id.
Private(w) ==
  \/ pc[w] \in {"payload", "create", "compensate"}
  \/ pc[w] = "write" /\ blob[w] \notin told

\* A blob whose object must stay: complete, and not behind a hidden error.
Kept(b) == b \in told \ hidden /\ status[b] \in {"uploading", "committed"}

USE DEF Kept

\* An upload that may still end in success, or that is being taken back.
Unanswered == {"blob", "stream", "put", "complete", "undo", "deleteObject"}

CallInv(w) ==
  /\ pc[w] = "idle" => blob[w] = None /\ ~key[w]
  /\ pc[w] \in Unanswered => ~Kept(blob[w])
  /\ pc[w] \in {"deleteSession", "markFailed"} /\ Kept(blob[w]) =>
       ~key[w] /\ blob[w] \in expired
  /\ pc[w] = "complete" => blob[w] \in object \cup listed
  /\ pc[w] = "reference" => blob[w] \in told
  /\ pc[w] \in {"reference", "write"} => status[blob[w]] \in {"committed", "removed"}
  /\ pc[w] \in {"payload", "create"} => status[blob[w]] = "none"
  /\ pc[w] = "create" => blob[w] \in object
  /\ pc[w] = "compensate" => status[blob[w]] \in {"none", "committed"}
  /\ pc[w] = "write" /\ blob[w] \notin told =>
       status[blob[w]] = "committed" /\ blob[w] \in object
  /\ Private(w) => /\ session[blob[w]] = "none"
                   /\ blob[w] \notin told \cup listed

\* The mutex of a session, and the id of a payload, have one holder.
Exclusive ==
  \A v, w \in Workers :
    v # w /\ blob[v] = blob[w] =>
      /\ pc[v] \in Uploading => pc[w] \notin Uploading
      /\ ~Private(v)

BlobInv(b) ==
  /\ Kept(b) => b \in object \cup listed
  /\ b \in told => status[b] # "none"
  /\ status[b] \in {"pending", "uploading", "failed"} => b \in told
  /\ b \in acked \cup hidden =>
       session[b] # "open" /\ status[b] \notin {"none", "pending"}
  /\ b \in acked => b \notin hidden
  /\ b \in expired => status[b] # "none"

JobInv ==
  /\ IsFiniteSet(expired)
  /\ refs \subseteq listed
  /\ job \in {"object", "row"} => refs # {}

UploadInv ==
  /\ TypeOK /\ JobInv /\ Exclusive
  /\ \A w \in Workers : CallInv(w)
  /\ \A b \in Blobs : BlobInv(b)
  /\ AckedUploadIsSafe /\ ItemBlobIsStored /\ SessionMatchesBlob

Labels == {"idle"} \cup Uploading \cup Committing \cup Saving

\* Every row, object and use is as it was.
Quiet == UNCHANGED <<rows, object, expired, uses, clean>>

\* A step of one call moves that call alone.
LEMMA Frame ==
  ASSUME TypeOK, NEW w \in Workers,
         \/ Upload(w) \/ Commit(w) \/ SaveItem(w) \/ Drop(w)
         \/ \E b \in Blobs : \/ UploadBlob(w, b) \/ CommitBlobUpload(w, b)
                             \/ SaveReference(w, b) \/ SavePayload(w, b)
  PROVE  /\ pc' \in [Workers -> Labels]
         /\ blob' \in [Workers -> Blobs \cup {None}]
         /\ key' \in [Workers -> BOOLEAN]
         /\ pc'[w] # "idle" => blob'[w] \in Blobs
         /\ \A v \in Workers \ {w} :
              pc'[v] = pc[v] /\ blob'[v] = blob[v] /\ key'[v] = key[v]
  <1> USE DEF TypeOK, Labels, Uploading, Committing, Saving
  <1>1. CASE \E l \in Labels : pc[w] # "idle" /\ Goto(w, l)
    BY <1>1 DEF Goto
  <1>2. CASE Return(w)
    BY <1>2 DEF Return
  <1>3. CASE \E k \in BOOLEAN : pc[w] # "idle" /\ abortUpload(w, k)
    BY <1>3 DEF abortUpload
  <1>4. CASE Upload(w)
    BY <1>1, <1>2, <1>3, <1>4 DEF Upload, GetPending, ReceiveAll, ReceiveBad, Put,
       PutFails, CompleteClientUpload, CompleteFails, Undo, DeleteSession,
       MarkFailed, DeleteObject
  <1>5. CASE Commit(w)
    BY <1>1, <1>2, <1>5 DEF Commit, GetSession, GetUploading, Stat, LockSession,
       Check, CommitUploadedBlob
  <1>6. CASE SaveItem(w)
    BY <1>1, <1>2, <1>6 DEF SaveItem, StatReference, Check, PutPayload,
       CreatePayload, Compensate, WriteItem
  <1>7. CASE Drop(w)
    BY <1>2, <1>7 DEF Drop
  <1>8. CASE \E b \in Blobs : \/ UploadBlob(w, b) \/ CommitBlobUpload(w, b)
                              \/ SaveReference(w, b) \/ SavePayload(w, b)
    BY <1>8 DEF UploadBlob, CommitBlobUpload, SaveReference, SavePayload
  <1>9. QED
    BY <1>4, <1>5, <1>6, <1>7, <1>8

\* A step that only moves a call keeps the invariant if it keeps what is said
\* of that call.
LEMMA QuietStep ==
  ASSUME UploadInv, NEW w \in Workers, Quiet,
         pc' \in [Workers -> Labels], blob' \in [Workers -> Blobs \cup {None}],
         key' \in [Workers -> BOOLEAN], pc'[w] # "idle" => blob'[w] \in Blobs,
         \A v \in Workers \ {w} :
           pc'[v] = pc[v] /\ blob'[v] = blob[v] /\ key'[v] = key[v],
         CallInv(w)',
         \A v \in Workers \ {w} : blob[v] = blob'[w] =>
           /\ pc[v] \in Uploading => pc'[w] \notin Uploading
           /\ ~Private(v) /\ ~Private(w)'
  PROVE  UploadInv'
  <1> USE DEF Quiet, rows, uses, clean
  <1>1. TypeOK'
    BY DEF UploadInv, TypeOK, Labels
  <1>2. JobInv'
    BY DEF UploadInv, JobInv
  <1>3. ASSUME NEW v \in Workers PROVE CallInv(v)'
    BY DEF UploadInv, CallInv, Private
  <1>4. ASSUME NEW v \in Workers, NEW u \in Workers, v # u, blob'[v] = blob'[u]
        PROVE  (pc'[v] \in Uploading => pc'[u] \notin Uploading) /\ ~Private(v)'
    BY <1>4 DEF UploadInv, Exclusive, Private
  <1>5. Exclusive'
    BY <1>4 DEF Exclusive
  <1>6. (\A b \in Blobs : BlobInv(b)') /\ AckedUploadIsSafe' /\ ItemBlobIsStored'
          /\ SessionMatchesBlob'
    BY DEF UploadInv, BlobInv, AckedUploadIsSafe, ItemBlobIsStored, SessionMatchesBlob
  <1>7. QED
    BY <1>1, <1>2, <1>3, <1>5, <1>6 DEF UploadInv

\* A call that returns holds nothing.
LEMMA ReturnStep ==
  ASSUME UploadInv, NEW w \in Workers, Return(w), Quiet
  PROVE  UploadInv'
  <1>1. /\ pc' \in [Workers -> Labels] /\ blob' \in [Workers -> Blobs \cup {None}]
        /\ key' \in [Workers -> BOOLEAN]
        /\ pc'[w] = "idle" /\ blob'[w] = None /\ key'[w] = FALSE
        /\ \A v \in Workers \ {w} :
             pc'[v] = pc[v] /\ blob'[v] = blob[v] /\ key'[v] = key[v]
    BY DEF Return, UploadInv, TypeOK, Labels
  <1>2. CallInv(w)' /\ ~Private(w)'
    BY <1>1 DEF CallInv, Private, Unanswered, Committing
  <1>3. ASSUME NEW v \in Workers \ {w}, blob[v] = blob'[w]
        PROVE  /\ pc[v] \in Uploading => pc'[w] \notin Uploading
               /\ ~Private(v)
    BY <1>1, <1>3, BlobAssumption DEF UploadInv, TypeOK, Uploading, Private
  <1>4. QED
    BY <1>1, <1>2, <1>3, QuietStep

\* A call that goes on from a step to the next with the same blob.
LEMMA GotoStep ==
  ASSUME UploadInv, NEW w \in Workers, Quiet, blob' = blob,
         NEW l \in Labels \ {"idle"}, pc' = [pc EXCEPT ![w] = l],
         NEW k \in BOOLEAN, key' = [key EXCEPT ![w] = k],
         pc[w] # "idle", pc[w] \in Uploading <=> l \in Uploading,
         Private(w) <=> Private(w)', CallInv(w)'
  PROVE  UploadInv'
  <1>1. /\ pc' \in [Workers -> Labels] /\ key' \in [Workers -> BOOLEAN]
        /\ pc'[w] = l /\ blob'[w] = blob[w] /\ blob[w] \in Blobs
        /\ \A v \in Workers \ {w} :
             pc'[v] = pc[v] /\ blob'[v] = blob[v] /\ key'[v] = key[v]
    BY DEF UploadInv, TypeOK, Labels
  <1>2. ASSUME NEW v \in Workers \ {w}, blob[v] = blob'[w]
        PROVE  /\ pc[v] \in Uploading => pc'[w] \notin Uploading
               /\ ~Private(v) /\ ~Private(w)'
    BY <1>1, <1>2 DEF UploadInv, Exclusive
  <1>3. blob' \in [Workers -> Blobs \cup {None}]
    BY DEF UploadInv, TypeOK
  <1>4. QED
    BY <1>1, <1>2, <1>3, QuietStep

-----------------------------------------------------------------------------
(***************************************************************************)
(* The steps of a call that write nothing.                                 *)
(***************************************************************************)
LEMMA ReadingStep ==
  ASSUME UploadInv, NEW w \in Workers,
         \/ GetPending(w) \/ ReceiveAll(w) \/ ReceiveBad(w)
         \/ GetSession(w) \/ GetUploading(w) \/ Stat(w) \/ LockSession(w)
         \/ StatReference(w) \/ Drop(w)
  PROVE  UploadInv'
  <1> DEFINE Move(l) == Goto(w, l) /\ Quiet
  <1>1. /\ \/ \E l \in {"stream", "put", "check", "stat", "lock", "commit", "write"} :
                Move(l)
           \/ abortUpload(w, TRUE) /\ Quiet
           \/ Return(w) /\ Quiet
        /\ Goto(w, "stream") => pc[w] = "blob"
        /\ Goto(w, "put") => pc[w] = "stream"
        /\ abortUpload(w, TRUE) => pc[w] = "stream"
        /\ Goto(w, "check") => pc[w] = "session"
        /\ Goto(w, "stat") => pc[w] = "check"
        /\ Goto(w, "lock") => pc[w] = "stat"
        /\ Goto(w, "commit") => pc[w] = "lock"
        /\ Goto(w, "write") => pc[w] = "reference"
    BY DEF GetPending, ReceiveAll, ReceiveBad, GetSession, GetUploading, Stat,
       LockSession, StatReference, Drop, Check, Quiet, Goto, Return, abortUpload,
       UploadInv, TypeOK
  <1>2. CASE Return(w) /\ Quiet
    BY <1>2, ReturnStep
  <1>3. CASE abortUpload(w, TRUE) /\ Quiet
    <2>1. pc[w] = "stream" /\ pc'[w] = "deleteSession"
      BY <1>1, <1>3 DEF abortUpload, UploadInv, TypeOK
    <2>2. CallInv(w)' /\ ~Private(w) /\ ~Private(w)'
      BY <1>3, <2>1 DEF abortUpload, UploadInv, TypeOK, CallInv, Private, Quiet,
         rows, uses, Unanswered, Committing
    <2>3. QED
      BY <1>3, <2>1, <2>2, GotoStep DEF abortUpload, Labels, Uploading
  <1>4. ASSUME NEW l \in {"stream", "put", "check", "stat", "lock", "commit", "write"},
               Move(l)
        PROVE  UploadInv'
    <2>1. /\ pc' = [pc EXCEPT ![w] = l] /\ blob' = blob /\ Quiet /\ pc'[w] = l
          /\ key' = [key EXCEPT ![w] = key[w]] /\ key[w] \in BOOLEAN
          /\ l \in Labels \ {"idle"}
      BY <1>4 DEF Goto, UploadInv, TypeOK, Labels, Uploading, Committing, Saving
    <2>2. /\ l \in {"stream", "put"} => pc[w] \in {"blob", "stream"}
          /\ l \in {"check", "stat", "lock", "commit"} => pc[w] \in Committing
          /\ l = "write" => pc[w] = "reference"
      BY <1>1, <1>4 DEF Committing
    <2>3. pc[w] # "idle" /\ (pc[w] \in Uploading <=> l \in Uploading)
      BY <2>2 DEF Uploading, Committing
    <2>4. CallInv(w)' /\ ~Private(w) /\ ~Private(w)'
      BY <2>1, <2>2 DEF UploadInv, CallInv, Private, Quiet, rows, uses, clean,
         Unanswered, Committing
    <2>5. QED
      BY <2>1, <2>3, <2>4, GotoStep
  <1>5. QED
    BY <1>1, <1>2, <1>3, <1>4

\* A call starts: an upload holds the mutex, a payload has an id of its own.
LEMMA StartStep ==
  ASSUME UploadInv, NEW w \in Workers, NEW b \in Blobs,
         \/ UploadBlob(w, b) \/ CommitBlobUpload(w, b)
         \/ SaveReference(w, b) \/ SavePayload(w, b)
  PROVE  UploadInv'
  <1>1. /\ Quiet /\ pc[w] = "idle" /\ key' = key /\ ~key[w]
        /\ blob' = [blob EXCEPT ![w] = b] /\ pc' = [pc EXCEPT ![w] = pc'[w]]
        /\ \/ pc'[w] = "deleteSession" /\ b \in expired /\ acquire(b) /\ session[b] # "none"
           \/ pc'[w] = "blob" /\ acquire(b) /\ session[b] = "open"
           \/ pc'[w] = "session" /\ session[b] # "none"
           \/ pc'[w] = "reference" /\ b \in told /\ status[b] = "committed"
           \/ pc'[w] = "payload" /\ Fresh(b)
    BY DEF UploadBlob, CommitBlobUpload, SaveReference, Referable,
       SavePayload, Quiet, UploadInv, TypeOK, CallInv
  <1>2. /\ pc' \in [Workers -> Labels] /\ blob' \in [Workers -> Blobs \cup {None}]
        /\ key' \in [Workers -> BOOLEAN] /\ blob'[w] = b
        /\ \A v \in Workers \ {w} :
             pc'[v] = pc[v] /\ blob'[v] = blob[v] /\ key'[v] = key[v]
    BY <1>1 DEF UploadInv, TypeOK, Labels, Uploading, Committing, Saving
  <1>3. BlobInv(b) /\ (b \in listed => b \in expired)
          /\ (status[b] = "none" => session[b] = "none")
          /\ (session[b] = "open" => status[b] \in {"pending", "failed"})
    BY DEF UploadInv, TypeOK, SessionMatchesBlob
  <1>4. CallInv(w)'
    BY <1>1, <1>2, <1>3 DEF CallInv, Private, BlobInv, Fresh, Quiet, rows, uses,
       clean, Unanswered, Committing
  <1>5. ASSUME NEW v \in Workers \ {w}, blob[v] = blob'[w]
        PROVE  /\ pc[v] \in Uploading => pc'[w] \notin Uploading
               /\ ~Private(v) /\ ~Private(w)'
    <2>1. pc'[w] # "payload" /\ (pc'[w] \in Uploading => acquire(b))
      BY <1>1, <1>2, <1>5 DEF Fresh, Uploading
    <2>2. ~Private(w)'
      BY <1>1, <2>1 DEF Private
    <2>3. CallInv(v)
      BY DEF UploadInv
    <2>4. ~Private(v)
      BY <1>1, <1>2, <1>5, <2>1, <2>3 DEF CallInv
    <2>5. QED
      BY <1>2, <1>5, <2>1, <2>2, <2>4 DEF acquire
  <1>6. QED
    BY <1>1, <1>2, <1>4, <1>5, QuietStep

-----------------------------------------------------------------------------
(***************************************************************************)
(* The steps of a call that write: another call with the same blob is not  *)
(* past the mutex, and has no interest in a private payload.               *)
(***************************************************************************)
\* What a step of call w leaves to show once the calls are known to be framed.
LEMMA WritingStep ==
  ASSUME UploadInv, NEW w \in Workers, pc[w] # "idle", UNCHANGED clean,
         Upload(w) \/ Commit(w) \/ SaveItem(w),
         expired' = expired, object' \subseteq Blobs,
         status' \in [Blobs -> {"none", "pending", "uploading", "committed",
                                "failed", "removed"}],
         session' \in [Blobs -> {"none", "open", "awaiting"}],
         told \subseteq told', told' \subseteq Blobs,
         attached' \cup acked' \cup hidden' \subseteq told',
         \A v \in Workers : CallInv(v)',
         \A b \in Blobs : BlobInv(b)',
         Private(w)' => Private(w), pc'[w] \in Uploading => pc[w] \in Uploading,
         blob'[w] \in {None, blob[w]}, pc'[w] = "idle" \/ blob'[w] = blob[w],
         AckedUploadIsSafe', ItemBlobIsStored', SessionMatchesBlob'
  PROVE  UploadInv'
  <1>1. /\ pc' \in [Workers -> Labels]
        /\ blob' \in [Workers -> Blobs \cup {None}]
        /\ key' \in [Workers -> BOOLEAN]
        /\ pc'[w] # "idle" => blob'[w] \in Blobs
        /\ \A v \in Workers \ {w} :
             pc'[v] = pc[v] /\ blob'[v] = blob[v] /\ key'[v] = key[v]
    BY Frame DEF UploadInv
  <1>2. TypeOK' /\ JobInv'
    BY <1>1 DEF UploadInv, TypeOK, JobInv, Labels, clean
  <1>3. ASSUME NEW v \in Workers, NEW u \in Workers, v # u, blob'[v] = blob'[u]
        PROVE  (pc'[v] \in Uploading => pc'[u] \notin Uploading) /\ ~Private(v)'
    <2>1. ASSUME NEW x \in Workers
          PROVE  /\ Private(x)' => Private(x) /\ blob'[x] \in Blobs
                 /\ pc'[x] \in Uploading => pc[x] \in Uploading /\ blob'[x] \in Blobs
                 /\ blob'[x] \in {None, blob[x]}
      BY <1>1, BlobAssumption DEF UploadInv, TypeOK, Private, Uploading
    <2>2. QED
      BY <1>1, <1>3, <2>1, BlobAssumption DEF UploadInv, Exclusive, TypeOK
  <1>4. Exclusive'
    BY <1>3 DEF Exclusive
  <1>5. QED
    BY <1>2, <1>4 DEF UploadInv

\* The steps that write the object, or delete it: the blob is not complete, its
\* completion is hidden, or nobody was told of it.
LEMMA ObjectStep ==
  ASSUME UploadInv, NEW w \in Workers,
         \/ Put(w) \/ PutFails(w) \/ Undo(w) \/ DeleteObject(w)
         \/ PutPayload(w) \/ Compensate(w)
  PROVE  UploadInv'
  <1>1. /\ UNCHANGED <<rows, expired, uses, clean>>
        /\ object' \in {object, object \cup {blob[w]}, object \ {blob[w]}}
        /\ pc[w] \in {"put", "undo", "deleteObject", "payload", "compensate"}
        /\ \/ pc[w] = "put" /\ pc'[w] = "complete" /\ blob[w] \in object'
           \/ pc[w] \in {"put", "undo"} /\ pc'[w] = "deleteSession"
           \/ pc[w] = "payload" /\ pc'[w] = "create" /\ blob[w] \in object'
           \/ pc'[w] = "idle" /\ ~key'[w] /\ blob'[w] = None
        /\ pc'[w] = "idle" \/ blob'[w] = blob[w]
    BY DEF Put, PutFails, Undo, DeleteObject, PutPayload, Compensate, Goto, Return,
       abortUpload, UploadInv, TypeOK
  <1>2. /\ Upload(w) \/ Commit(w) \/ SaveItem(w)
        /\ \A v \in Workers \ {w} :
             pc'[v] = pc[v] /\ blob'[v] = blob[v] /\ key'[v] = key[v]
    <2>1. Upload(w) \/ SaveItem(w)
      BY DEF Upload, SaveItem
    <2>2. QED
      BY <2>1, Frame DEF UploadInv
  <1>3. /\ blob[w] \in Blobs /\ ~Kept(blob[w])
        /\ pc[w] \in Uploading \/ Private(w)
        /\ BlobInv(blob[w])
    BY <1>1 DEF UploadInv, TypeOK, CallInv, Unanswered, Private, Uploading
  <1>4. CallInv(w)'
    BY <1>1, <1>3 DEF UploadInv, CallInv, Private, rows, uses, clean, Unanswered,
       Committing
  <1>5. ASSUME NEW v \in Workers \ {w} PROVE CallInv(v)'
    <2>1. CallInv(v) /\ (blob[v] = blob[w] => pc[v] # "complete" /\ ~Private(v))
      BY <1>3 DEF UploadInv, Exclusive, Uploading
    <2>2. QED
      BY <1>1, <1>2, <2>1 DEF CallInv, Private, rows, uses, clean
  <1>6. ASSUME NEW b \in Blobs PROVE BlobInv(b)'
    BY <1>1, <1>3 DEF UploadInv, BlobInv, rows, uses, clean
  <1>7. AckedUploadIsSafe' /\ ItemBlobIsStored' /\ SessionMatchesBlob'
    BY <1>1, <1>3 DEF UploadInv, TypeOK, BlobInv, AckedUploadIsSafe,
       ItemBlobIsStored, SessionMatchesBlob, rows, uses, clean
  <1>8. /\ Private(w)' => Private(w)
        /\ pc'[w] \in Uploading => pc[w] \in Uploading
    BY <1>1 DEF Private, Uploading
  <1>9. QED
    <2>1. /\ pc[w] # "idle" /\ blob'[w] \in {None, blob[w]} /\ object' \subseteq Blobs
          /\ UNCHANGED <<status, session, expired, uses, clean>>
      BY <1>1, <1>3 DEF UploadInv, TypeOK, rows, uses
    <2>2. QED
      BY <1>1, <1>2, <1>4, <1>5, <1>6, <1>7, <1>8, <2>1, WritingStep
         DEF UploadInv, TypeOK, uses

\* The steps that write a row, for the blob b of the call: what they may do.
RowMove(w, b) ==
  \/ /\ pc[w] = "complete" /\ session[b] = "open" /\ status[b] = "pending"
     /\ session'[b] = "awaiting" /\ status'[b] = "uploading"
     /\ \/ acked' = acked \cup {b} /\ hidden' = hidden /\ pc'[w] = "idle"
        \/ acked' = acked /\ hidden' = hidden \cup {b} /\ pc'[w] = "undo"
  \/ /\ pc[w] = "complete" /\ session'[b] = session[b] /\ status'[b] = status[b]
     /\ UNCHANGED <<acked, hidden>> /\ pc'[w] \in {"idle", "undo"}
  \/ /\ pc[w] = "deleteSession" /\ session'[b] \in {session[b], "none"}
     /\ status'[b] = status[b] /\ UNCHANGED <<acked, hidden>> /\ pc'[w] = "markFailed"
  \/ /\ pc[w] = "markFailed" /\ session'[b] = session[b] /\ UNCHANGED <<acked, hidden>>
     /\ \/ status[b] \in InFlight /\ status'[b] = "failed"
        \/ status'[b] = status[b]
     /\ pc'[w] = IF key[w] THEN "deleteObject" ELSE "idle"
  \/ /\ pc[w] = "commit" /\ UNCHANGED <<acked, hidden>> /\ pc'[w] = "idle"
     /\ \/ /\ status[b] = "uploading"
           /\ session'[b] = "none" /\ status'[b] = "committed"
        \/ session'[b] = session[b] /\ status'[b] = status[b]
  \/ /\ pc[w] = "create" /\ session'[b] = session[b] /\ UNCHANGED <<acked, hidden>>
     /\ \/ status'[b] = "committed" /\ pc'[w] \in {"write", "compensate"}
        \/ status'[b] = status[b] /\ pc'[w] = "compensate"

LEMMA RowMoves ==
  ASSUME UploadInv, NEW w \in Workers,
         \/ CompleteClientUpload(w) \/ CompleteFails(w) \/ DeleteSession(w)
         \/ MarkFailed(w) \/ CommitUploadedBlob(w) \/ CreatePayload(w)
  PROVE  /\ blob[w] \in Blobs /\ RowMove(w, blob[w])
         /\ UNCHANGED <<object, expired, attached, told, clean>>
         /\ status' = [status EXCEPT ![blob[w]] = status'[blob[w]]]
         /\ session' = [session EXCEPT ![blob[w]] = session'[blob[w]]]
         /\ pc'[w] # "idle" => blob'[w] = blob[w] /\ key'[w] = key[w]
         /\ pc'[w] = "idle" => blob'[w] = None /\ ~key'[w]
  <1> USE DEF UploadInv, TypeOK, uses, rows
  <1>1. CASE CompleteClientUpload(w)
    BY <1>1 DEF CompleteClientUpload, Completed, Return, RowMove
  <1>2. CASE CompleteFails(w)
    <2>1. Goto(w, "undo") \/ Return(w)
      BY <1>2 DEF CompleteFails
    <2>2. QED
      BY <1>2, <2>1 DEF CompleteFails, Completed, Return, Goto, RowMove
  <1>3. CASE DeleteSession(w)
    BY <1>3 DEF DeleteSession, Goto, RowMove
  <1>4. CASE MarkFailed(w)
    <2>1. /\ pc[w] = "markFailed"
          /\ \/ key[w] /\ Goto(w, "deleteObject")
             \/ ~key[w] /\ Return(w)
      BY <1>4 DEF MarkFailed
    <2>2. QED
      BY <1>4, <2>1 DEF MarkFailed, Abortable, Return, Goto, RowMove
  <1>5. CASE CommitUploadedBlob(w)
    BY <1>5 DEF CommitUploadedBlob, Return, RowMove
  <1>6. CASE CreatePayload(w)
    BY <1>6 DEF CreatePayload, Goto, RowMove
  <1>7. QED
    BY <1>1, <1>2, <1>3, <1>4, <1>5, <1>6

LEMMA RowStep ==
  ASSUME UploadInv, NEW w \in Workers,
         \/ CompleteClientUpload(w) \/ CompleteFails(w) \/ DeleteSession(w)
         \/ MarkFailed(w) \/ CommitUploadedBlob(w) \/ CreatePayload(w)
  PROVE  UploadInv'
  <1> DEFINE b == blob[w]
  <1>1. /\ b \in Blobs /\ RowMove(w, b)
        /\ UNCHANGED <<object, expired, attached, told, clean>>
        /\ status' = [status EXCEPT ![b] = status'[b]]
        /\ session' = [session EXCEPT ![b] = session'[b]]
        /\ pc'[w] # "idle" => blob'[w] = b /\ key'[w] = key[w]
        /\ pc'[w] = "idle" => blob'[w] = None /\ ~key'[w]
    BY RowMoves
  <1>2. /\ Upload(w) \/ Commit(w) \/ SaveItem(w)
        /\ \A v \in Workers \ {w} :
             pc'[v] = pc[v] /\ blob'[v] = blob[v] /\ key'[v] = key[v]
    <2>1. Upload(w) \/ Commit(w) \/ SaveItem(w)
      BY DEF Upload, Commit, SaveItem
    <2>2. QED
      BY <2>1, Frame DEF UploadInv
  <1>3. /\ CallInv(w) /\ BlobInv(b)
        /\ status \in [Blobs -> {"none", "pending", "uploading", "committed",
                                 "failed", "removed"}]
        /\ session \in [Blobs -> {"none", "open", "awaiting"}]
        /\ session[b] = "open" => status[b] \in {"pending", "failed"}
        /\ session[b] = "awaiting" => status[b] \in {"uploading", "failed"}
    BY <1>1 DEF UploadInv, TypeOK, SessionMatchesBlob
  <1> HIDE DEF b
  <1>4. /\ status' \in [Blobs -> {"none", "pending", "uploading", "committed",
                                  "failed", "removed"}]
        /\ session' \in [Blobs -> {"none", "open", "awaiting"}]
        /\ \A c \in Blobs \ {b} : status'[c] = status[c] /\ session'[c] = session[c]
        /\ acked' \in {acked, acked \cup {b}} /\ hidden' \in {hidden, hidden \cup {b}}
        /\ pc[w] # "idle" /\ (pc[w] = "complete" \/ UNCHANGED <<acked, hidden>>)
        /\ pc[w] = "complete" => UNCHANGED <<acked, hidden>> \/ b \in told
        /\ listed' = listed
    BY <1>1, <1>3 DEF RowMove, BlobInv, clean
  <1>5. CallInv(w)'
    BY <1>1, <1>3, <1>4 DEF CallInv, Private, BlobInv, RowMove, Unanswered,
       Committing, b
  <1>6. ASSUME NEW v \in Workers \ {w} PROVE CallInv(v)'
    <2>1. /\ CallInv(v)
          /\ blob[v] = b =>
               /\ ~Private(v) /\ ~Private(w)
               /\ pc[w] \in Uploading => pc[v] \notin Uploading
          /\ pc[v] # "idle" => blob[v] \in Blobs
      BY DEF UploadInv, Exclusive, TypeOK, b
    <2>2. CASE blob[v] # b
      BY <1>1, <1>2, <1>4, <2>1, <2>2 DEF CallInv, Private, Unanswered, Committing
    <2>3. CASE blob[v] = b
      BY <1>1, <1>2, <1>4, <2>1, <2>3 DEF CallInv, Private, RowMove, InFlight,
         Unanswered, Uploading, Committing
    <2>4. QED
      BY <2>2, <2>3
  <1>7. ASSUME NEW c \in Blobs PROVE BlobInv(c)'
    <2>1. BlobInv(c)
      BY DEF UploadInv
    <2>2. CASE c # b
      BY <1>1, <1>4, <2>1, <2>2 DEF BlobInv
    <2>3. CASE c = b
      BY <1>1, <1>3, <1>4, <2>3 DEF BlobInv, CallInv, Private, RowMove, InFlight, b
    <2>4. QED
      BY <2>2, <2>3
  <1>8. AckedUploadIsSafe'
    <2>1. SUFFICES ASSUME NEW c \in acked' \ expired
                   PROVE  /\ c \in object
                          /\ \/ status'[c] = "committed"
                             \/ status'[c] = "uploading" /\ session'[c] = "awaiting"
      BY <1>1 DEF AckedUploadIsSafe
    <2>2. CASE c \in acked
      BY <1>1, <1>3, <1>4, <2>2 DEF UploadInv, TypeOK, AckedUploadIsSafe, CallInv,
         BlobInv, Private, RowMove, Unanswered, InFlight, b
    <2>3. CASE c \notin acked
      BY <1>1, <1>3, <2>3 DEF UploadInv, TypeOK, CallInv, RowMove, b
    <2>4. QED
      BY <2>2, <2>3
  <1>9. ItemBlobIsStored'
    BY <1>1, <1>3, <1>4 DEF UploadInv, TypeOK, ItemBlobIsStored, RowMove, InFlight
  <1>10. SessionMatchesBlob'
    BY <1>1, <1>3, <1>4 DEF UploadInv, SessionMatchesBlob, CallInv, Private, RowMove,
       InFlight, b
  <1>11. /\ Private(w)' => Private(w)
         /\ pc'[w] \in Uploading => pc[w] \in Uploading
    BY <1>1 DEF Private, RowMove, Uploading
  <1>12. QED
    <2>1. /\ told \subseteq told' /\ told' \subseteq Blobs /\ object' \subseteq Blobs
          /\ attached' \cup acked' \cup hidden' \subseteq told'
      BY <1>1, <1>4 DEF UploadInv, TypeOK
    <2>2. blob'[w] \in {None, blob[w]} /\ (pc'[w] = "idle" \/ blob'[w] = blob[w])
            /\ expired' = expired /\ UNCHANGED clean
      BY <1>1 DEF b
    <2>3. QED
      BY <1>2, <1>4, <1>5, <1>6, <1>7, <1>8, <1>9, <1>10, <1>11, <2>1, <2>2, WritingStep

\* The item's row is written: its blob is committed, and stored or listed.
LEMMA ItemStep ==
  ASSUME UploadInv, NEW w \in Workers, WriteItem(w)
  PROVE  UploadInv'
  <1> DEFINE b == blob[w]
  <1>1. /\ UNCHANGED <<rows, object, expired, clean>> /\ pc[w] = "write"
        /\ told' = told \cup {b} /\ attached' = attached \cup {b}
        /\ UNCHANGED <<acked, hidden>>
        /\ pc'[w] = "idle" /\ blob'[w] = None /\ ~key'[w]
        /\ b \in Blobs /\ status[b] = "committed" /\ CallInv(w) /\ BlobInv(b)
    BY DEF WriteItem, Return, UploadInv, TypeOK, CallInv
  <1>2. /\ Upload(w) \/ Commit(w) \/ SaveItem(w)
        /\ \A v \in Workers \ {w} :
             pc'[v] = pc[v] /\ blob'[v] = blob[v] /\ key'[v] = key[v]
    <2>1. SaveItem(w)
      BY DEF SaveItem
    <2>2. QED
      BY <2>1, Frame DEF UploadInv
  <1>3. ASSUME NEW v \in Workers PROVE CallInv(v)'
    <2>1. v # w /\ blob[v] = b => b \in told
      BY <1>1 DEF UploadInv, Exclusive, Private
    <2>2. v = w => CallInv(v)'
      BY <1>1 DEF CallInv, Private, Unanswered, Committing
    <2>3. v # w => CallInv(v)'
      BY <1>1, <1>2, <2>1 DEF UploadInv, CallInv, Private, rows, clean
    <2>4. QED
      BY <2>2, <2>3
  <1>4. ASSUME NEW c \in Blobs PROVE BlobInv(c)'
    BY <1>1 DEF UploadInv, SessionMatchesBlob, BlobInv, CallInv, rows, clean
  <1>5. AckedUploadIsSafe'
    BY <1>1 DEF UploadInv, TypeOK, AckedUploadIsSafe, CallInv, rows
  <1>6. ItemBlobIsStored'
    BY <1>1 DEF UploadInv, TypeOK, ItemBlobIsStored, CallInv, BlobInv, rows, clean
  <1>7. SessionMatchesBlob' /\ ~Private(w)' /\ pc'[w] \notin Uploading
    BY <1>1 DEF UploadInv, SessionMatchesBlob, Private, Uploading, rows
  <1>8. QED
    <2>1. /\ told \subseteq told' /\ told' \subseteq Blobs
          /\ attached' \cup acked' \cup hidden' \subseteq told'
          /\ UNCHANGED <<object, status, session, expired>>
      BY <1>1 DEF UploadInv, TypeOK, rows
    <2>2. QED
      BY <1>1, <1>2, <1>3, <1>4, <1>5, <1>6, <1>7, <2>1, WritingStep
         DEF UploadInv, TypeOK

-----------------------------------------------------------------------------
(***************************************************************************)
(* The steps of a client and of the clock, and the cleanup job.            *)
(***************************************************************************)
\* FirstBlobs is ORDER BY LIMIT with the id as its own key.
LEMMA BatchIsLimited ==
  ASSUME NEW S \in SUBSET Blobs, IsFiniteSet(S)
  PROVE  /\ FirstBlobs(S) \subseteq S
         /\ Cardinality(FirstBlobs(S)) <= Batch
         /\ S # {} => FirstBlobs(S) # {}
  <1> DEFINE id == [b \in S |-> b]
  <1>1. S \subseteq Nat /\ Batch \in Nat \ {0} /\ id \in [S -> Nat]
          /\ \A x, y \in S : id[x] = id[y] => x = y
    BY BlobAssumption
  <1>2. FirstBlobs(S) = First(S, id, Batch)
    <2>1. ASSUME NEW b \in S PROVE {c \in S : c < b} = Lower(S, id, b)
      BY DEF Lower
    <2>2. QED
      BY <2>1 DEF FirstBlobs, First
  <1> HIDE DEF id
  <1>3. Cardinality(First(S, id, Batch)) <= Batch
    BY <1>1, FirstIsLimited
  <1>4. S # {} => First(S, id, Batch) # {}
    BY <1>1, FirstNotEmpty
  <1>5. QED
    BY <1>2, <1>3, <1>4 DEF FirstBlobs

\* The blob the job is at is one of its batch.
LEMMA MinRef ==
  ASSUME UploadInv, job \in {"object", "row"}
  PROVE  Min(refs) \in refs /\ Min(refs) \in listed /\ Min(refs) \in Blobs
  <1>1. refs \in SUBSET Nat /\ refs # {} /\ refs \subseteq listed /\ refs \subseteq Blobs
    BY BlobAssumption DEF UploadInv, TypeOK, JobInv
  <1>2. QED
    BY <1>1, MinIsLeast

\* The rest of a batch is no longer than the batch.
LEMMA RestOfBatch ==
  ASSUME UploadInv
  PROVE  /\ IsFiniteSet(refs) /\ Cardinality({}) <= Batch
         /\ \A T \in SUBSET refs : Cardinality(T) <= Batch
  <1>1. IsFiniteSet(refs)
    BY FS_Subset DEF UploadInv, TypeOK, JobInv
  <1>2. Cardinality(refs) \in Nat /\ Cardinality(refs) <= Batch /\ Batch \in Nat
    BY <1>1, FS_CardinalityType, BlobAssumption DEF UploadInv, TypeOK
  <1>3. ASSUME NEW T \in SUBSET refs PROVE Cardinality(T) <= Batch
    <2>1. IsFiniteSet(T) /\ Cardinality(T) <= Cardinality(refs)
      BY <1>1, FS_Subset
    <2>2. Cardinality(T) \in Nat
      BY <2>1, FS_CardinalityType
    <2>3. QED
      BY <1>2, <2>1, <2>2
  <1>4. QED
    BY <1>1, <1>3

\* The job and its bookkeeping: at the end of a pass, or one blob further.
LEMMA JobMoves ==
  ASSUME UploadInv, expired' = expired, listed' = listed,
         EndPass \/ (job = "row" /\ NextRef)
  PROVE  /\ job' \in {"idle", "list", "object", "row"} /\ full' \in BOOLEAN
         /\ cutoff' \subseteq expired' /\ refs' \subseteq cutoff'
         /\ Cardinality(refs') <= Batch /\ JobInv'
  <1>1. CASE EndPass
    BY <1>1, RestOfBatch DEF EndPass, JobInv, UploadInv
  <1>2. CASE job = "row" /\ NextRef /\ ~EndPass
    <2>1. /\ refs' = refs \ {Min(refs)} /\ UNCHANGED <<cutoff, full>>
          /\ job' = IF refs' # {} THEN "object" ELSE "list"
      BY <1>2 DEF NextRef
    <2>2. Cardinality(refs') <= Batch
      BY <2>1, RestOfBatch
    <2>3. QED
      BY <2>1, <2>2 DEF UploadInv, TypeOK, JobInv
  <1>3. QED
    BY <1>1, <1>2

\* The steps that start a pass, end it, go on or stop everything.
LEMMA QuietJobStep ==
  ASSUME UploadInv, StartPass \/ DeleteBlobFails \/ StopPass \/ Restart
  PROVE  UploadInv'
  <1>1. /\ UNCHANGED <<rows, object, expired, uses, listed>>
        /\ \/ calls' = calls
           \/ /\ pc' = [w \in Workers |-> "idle"] /\ blob' = [w \in Workers |-> None]
              /\ key' = [w \in Workers |-> FALSE]
    BY DEF StartPass, DeleteBlobFails, StopPass, Restart
  <1>2. /\ job' \in {"idle", "list", "object", "row"} /\ full' \in BOOLEAN
        /\ cutoff' \subseteq expired' /\ refs' \subseteq cutoff'
        /\ Cardinality(refs') <= Batch /\ JobInv'
    <2>1. CASE StartPass
      BY <2>1 DEF StartPass, UploadInv, TypeOK, JobInv
    <2>2. CASE DeleteBlobFails \/ StopPass \/ Restart
      <3>1. expired' = expired /\ listed' = listed
        BY <1>1
      <3>2. CASE DeleteBlobFails
        BY <3>1, <3>2, JobMoves DEF DeleteBlobFails
      <3>3. CASE StopPass
        BY <3>1, <3>3, JobMoves DEF StopPass
      <3>4. CASE Restart
        BY <3>1, <3>4, JobMoves DEF Restart
      <3>5. QED
        BY <2>2, <3>2, <3>3, <3>4
    <2>3. QED
      BY <2>1, <2>2
  <1>3. TypeOK'
    <2>1. /\ pc' \in [Workers -> Labels] /\ blob' \in [Workers -> Blobs \cup {None}]
          /\ key' \in [Workers -> BOOLEAN]
          /\ \A w \in Workers : pc'[w] # "idle" => blob'[w] \in Blobs
      BY <1>1 DEF UploadInv, TypeOK, calls, Labels
    <2>2. QED
      BY <1>1, <1>2, <2>1 DEF UploadInv, TypeOK, Labels, rows, uses
  <1>4. /\ \A w \in Workers : CallInv(w)'
        /\ Exclusive'
    <2>1. CASE calls' = calls
      BY <1>1, <2>1 DEF UploadInv, CallInv, Private, Exclusive, rows, uses, calls
    <2>2. CASE calls' # calls
      BY <1>1, <2>2 DEF CallInv, Private, Exclusive, Unanswered, Uploading, Committing
    <2>3. QED
      BY <2>1, <2>2
  <1>5. (\A b \in Blobs : BlobInv(b)') /\ AckedUploadIsSafe' /\ ItemBlobIsStored'
          /\ SessionMatchesBlob'
    BY <1>1 DEF UploadInv, BlobInv, AckedUploadIsSafe, ItemBlobIsStored,
       SessionMatchesBlob, rows, uses
  <1>6. QED
    BY <1>2, <1>3, <1>4, <1>5 DEF UploadInv

\* What the job lists has expired, and a session: it is nobody's payload.
LEMMA ListStep ==
  ASSUME UploadInv, ListExpiredUploadBlobRefs
  PROVE  UploadInv'
  <1>1. CASE EndPass /\ UNCHANGED listed
    <2>1. UNCHANGED <<rows, object, expired, uses, calls>>
      BY DEF ListExpiredUploadBlobRefs
    <2>2. job # "idle" /\ StopPass
      BY <1>1, <2>1 DEF ListExpiredUploadBlobRefs, StopPass
    <2>3. QED
      BY <2>2, QuietJobStep
  <1>2. CASE ~(EndPass /\ UNCHANGED listed)
    <2>1. /\ Expirable # {} /\ refs' = FirstBlobs(Expirable) /\ job' = "object"
          /\ full' \in BOOLEAN /\ listed' = listed \cup refs'
          /\ UNCHANGED <<cutoff, rows, object, expired, uses, calls>>
      BY <1>2 DEF ListExpiredUploadBlobRefs
    <2>2. /\ Expirable \in SUBSET Blobs /\ Expirable \subseteq cutoff
          /\ IsFiniteSet(Expirable) /\ \A b \in Expirable : session[b] # "none"
      <3>1. Expirable \subseteq expired /\ IsFiniteSet(expired)
        BY DEF Expirable, UploadInv, TypeOK, JobInv
      <3>2. QED
        BY <3>1, FS_Subset DEF Expirable, UploadInv, TypeOK
    <2>3. refs' \subseteq Expirable /\ Cardinality(refs') <= Batch /\ refs' # {}
      BY <2>1, <2>2, BatchIsLimited
    <2>4. TypeOK' /\ JobInv'
      BY <2>1, <2>2, <2>3 DEF UploadInv, TypeOK, JobInv, rows, uses, calls
    <2>5. ASSUME NEW w \in Workers PROVE CallInv(w)'
      BY <2>1, <2>2, <2>3 DEF UploadInv, CallInv, Private, rows, uses, calls
    <2>6. Exclusive'
      BY <2>1 DEF UploadInv, Exclusive, Private, uses, calls
    <2>7. (\A b \in Blobs : BlobInv(b)') /\ AckedUploadIsSafe' /\ ItemBlobIsStored'
            /\ SessionMatchesBlob'
      BY <2>1 DEF UploadInv, BlobInv, AckedUploadIsSafe, ItemBlobIsStored,
         SessionMatchesBlob, rows, uses
    <2>8. QED
      BY <2>4, <2>5, <2>6, <2>7 DEF UploadInv
  <1>3. QED
    BY <1>1, <1>2

\* The job takes the object and the row of a blob it listed.
LEMMA CleanStep ==
  ASSUME UploadInv, CleanObject \/ \E b \in Blobs : DeleteBlobByID(b)
  PROVE  UploadInv'
  <1> DEFINE b == Min(refs)
  <1>1. b \in refs /\ b \in listed /\ b \in Blobs /\ b \in expired
    BY MinRef DEF CleanObject, DeleteBlobByID, UploadInv, TypeOK
  <1> HIDE DEF b
  <1>2. CASE CleanObject
    <2>1. /\ object' \in {object, object \ {b}} /\ job' = "row" /\ job = "object"
          /\ UNCHANGED <<rows, expired, uses, calls, cutoff, refs, full, listed>>
      BY <1>2 DEF CleanObject, b
    <2>2. TypeOK' /\ JobInv' /\ Exclusive'
      BY <2>1 DEF UploadInv, TypeOK, JobInv, Exclusive, Private, rows, uses, calls
    <2>3. ASSUME NEW w \in Workers PROVE CallInv(w)'
      BY <1>1, <2>1 DEF UploadInv, CallInv, Private, rows, uses, calls
    <2>4. (\A c \in Blobs : BlobInv(c)') /\ AckedUploadIsSafe' /\ ItemBlobIsStored'
            /\ SessionMatchesBlob'
      BY <1>1, <2>1 DEF UploadInv, BlobInv, AckedUploadIsSafe, ItemBlobIsStored,
         SessionMatchesBlob, rows, uses
    <2>5. QED
      BY <2>2, <2>3, <2>4 DEF UploadInv
  <1>3. CASE \E c \in Blobs : DeleteBlobByID(c)
    <2>1. /\ status' = [status EXCEPT ![b] = "removed"]
          /\ session' = [session EXCEPT ![b] = "none"]
          /\ attached' = attached \ {b} /\ job = "row" /\ NextRef
          /\ UNCHANGED <<object, expired, told, acked, hidden, calls, listed>>
      BY <1>3 DEF DeleteBlobByID, b
    <2>2. /\ job' \in {"idle", "list", "object", "row"} /\ full' \in BOOLEAN
          /\ cutoff' \subseteq expired' /\ refs' \subseteq cutoff'
          /\ Cardinality(refs') <= Batch /\ JobInv'
      BY <2>1, JobMoves
    <2>3. TypeOK' /\ Exclusive'
      BY <1>1, <2>1, <2>2 DEF UploadInv, TypeOK, Exclusive, Private, calls
    <2>4. ASSUME NEW w \in Workers PROVE CallInv(w)'
      <3>1. CallInv(w) /\ (Private(w) => blob[w] # b)
              /\ (pc[w] # "idle" => blob[w] \in Blobs)
        BY <1>1 DEF UploadInv, CallInv, TypeOK
      <3>2. status \in [Blobs -> {"none", "pending", "uploading", "committed",
                                  "failed", "removed"}]
              /\ session \in [Blobs -> {"none", "open", "awaiting"}]
        BY DEF UploadInv, TypeOK
      <3>3. QED
        BY <1>1, <2>1, <3>1, <3>2 DEF CallInv, Private, calls, Unanswered, Committing
    <2>5. ASSUME NEW c \in Blobs PROVE BlobInv(c)'
      BY <1>1, <2>1 DEF UploadInv, TypeOK, BlobInv
    <2>6. AckedUploadIsSafe' /\ ItemBlobIsStored' /\ SessionMatchesBlob'
      BY <1>1, <2>1 DEF UploadInv, TypeOK, AckedUploadIsSafe, ItemBlobIsStored,
         SessionMatchesBlob
    <2>7. QED
      BY <2>2, <2>3, <2>4, <2>5, <2>6 DEF UploadInv
  <1>4. QED
    BY <1>2, <1>3

\* An upload starts with a new id, an item lets its blob go, a session expires.
LEMMA ClientStep ==
  ASSUME UploadInv, NEW b \in Blobs,
         StartBlobUpload(b) \/ Expire(b) \/ ReplacePayload(b)
  PROVE  UploadInv'
  <1>1. CASE StartBlobUpload(b)
    <2>1. /\ Fresh(b) /\ told' = told \cup {b}
          /\ UNCHANGED <<object, expired, attached, acked, hidden, calls, clean>>
          /\ status'  = [status EXCEPT ![b] = "pending"]
          /\ session' = [session EXCEPT ![b] = "open"]
      BY <1>1 DEF StartBlobUpload
    <2>2. /\ b \notin told /\ b \notin expired /\ \A w \in Workers : blob[w] # b
      BY <2>1 DEF UploadInv, BlobInv, Fresh
    <2>3. TypeOK' /\ JobInv' /\ Exclusive'
      BY <2>1 DEF UploadInv, TypeOK, JobInv, Exclusive, Private, uses, calls, clean
    <2>4. ASSUME NEW w \in Workers PROVE CallInv(w)'
      <3>1. CallInv(w) /\ blob[w] # b /\ (pc[w] # "idle" => blob[w] \in Blobs)
        BY <2>2 DEF UploadInv, TypeOK
      <3>2. QED
        BY <2>1, <3>1 DEF UploadInv, TypeOK, CallInv, Private, uses, calls, clean,
           Unanswered, Committing
    <2>5. ASSUME NEW c \in Blobs PROVE BlobInv(c)'
      BY <2>1, <2>2 DEF UploadInv, TypeOK, BlobInv, uses, clean
    <2>6. AckedUploadIsSafe' /\ ItemBlobIsStored' /\ SessionMatchesBlob'
      BY <2>1, <2>2 DEF UploadInv, TypeOK, AckedUploadIsSafe, ItemBlobIsStored,
         SessionMatchesBlob, uses, clean
    <2>7. QED
      BY <2>3, <2>4, <2>5, <2>6 DEF UploadInv
  <1>2. CASE Expire(b)
    <2>1. /\ status[b] # "none" /\ expired' = expired \cup {b}
          /\ UNCHANGED <<rows, object, uses, calls, clean>>
      BY <1>2 DEF Expire
    <2>2. IsFiniteSet(expired')
      BY <2>1, FS_AddElement DEF UploadInv, JobInv
    <2>3. TypeOK' /\ JobInv' /\ Exclusive'
      BY <2>1, <2>2 DEF UploadInv, TypeOK, JobInv, Exclusive, Private, rows, uses,
         calls, clean
    <2>4. ASSUME NEW w \in Workers PROVE CallInv(w)'
      BY <2>1 DEF UploadInv, CallInv, Private, rows, uses, calls, clean
    <2>5. (\A c \in Blobs : BlobInv(c)') /\ AckedUploadIsSafe' /\ ItemBlobIsStored'
            /\ SessionMatchesBlob'
      BY <2>1 DEF UploadInv, BlobInv, AckedUploadIsSafe, ItemBlobIsStored,
         SessionMatchesBlob, rows, uses, clean
    <2>6. QED
      BY <2>3, <2>4, <2>5 DEF UploadInv
  <1>3. CASE ReplacePayload(b)
    <2>1. /\ attached' = attached \ {b}
          /\ UNCHANGED <<rows, object, expired, told, acked, hidden, calls, clean>>
      BY <1>3 DEF ReplacePayload
    <2>2. TypeOK' /\ JobInv' /\ Exclusive'
      BY <2>1 DEF UploadInv, TypeOK, JobInv, Exclusive, Private, rows, calls, clean
    <2>3. ASSUME NEW w \in Workers PROVE CallInv(w)'
      BY <2>1 DEF UploadInv, CallInv, Private, rows, calls, clean
    <2>4. (\A c \in Blobs : BlobInv(c)') /\ AckedUploadIsSafe' /\ ItemBlobIsStored'
            /\ SessionMatchesBlob'
      BY <2>1 DEF UploadInv, BlobInv, AckedUploadIsSafe, ItemBlobIsStored,
         SessionMatchesBlob, rows, clean
    <2>5. QED
      BY <2>2, <2>3, <2>4 DEF UploadInv
  <1>4. QED
    BY <1>1, <1>2, <1>3

-----------------------------------------------------------------------------
(***************************************************************************)
(* The theorems.                                                           *)
(***************************************************************************)
LEMMA UploadInit == Init => UploadInv
  <1> SUFFICES ASSUME Init PROVE UploadInv
    OBVIOUS
  <1>1. IsFiniteSet({}) /\ Cardinality({}) <= Batch
    BY FS_EmptySet, BlobAssumption
  <1>2. TypeOK /\ JobInv
    BY <1>1 DEF Init, TypeOK, JobInv
  <1>3. Exclusive /\ \A w \in Workers : CallInv(w)
    BY DEF Init, Exclusive, CallInv, Private, Unanswered, Uploading, Committing
  <1>4. (\A b \in Blobs : BlobInv(b)) /\ AckedUploadIsSafe /\ ItemBlobIsStored
          /\ SessionMatchesBlob
    BY DEF Init, BlobInv, AckedUploadIsSafe, ItemBlobIsStored, SessionMatchesBlob
  <1>5. QED
    BY <1>2, <1>3, <1>4 DEF UploadInv

LEMMA UploadStep == UploadInv /\ [Next]_vars => UploadInv'
  <1> SUFFICES ASSUME UploadInv, [Next]_vars PROVE UploadInv'
    OBVIOUS
  <1>1. CASE UNCHANGED vars
    <2>1. UNCHANGED <<status, session, object, expired, attached, told, acked,
                      hidden, pc, blob, key, job, cutoff, refs, full, listed>>
      BY <1>1 DEF vars, rows, uses, calls, clean
    <2>2. TypeOK' /\ JobInv' /\ Exclusive' /\ \A w \in Workers : CallInv(w)'
      BY <2>1 DEF UploadInv, TypeOK, JobInv, Exclusive, CallInv, Private
    <2>3. (\A b \in Blobs : BlobInv(b)') /\ AckedUploadIsSafe' /\ ItemBlobIsStored'
            /\ SessionMatchesBlob'
      BY <2>1 DEF UploadInv, BlobInv, AckedUploadIsSafe, ItemBlobIsStored,
         SessionMatchesBlob
    <2>4. QED
      BY <2>2, <2>3 DEF UploadInv
  <1>2. ASSUME NEW w \in Workers, Upload(w) PROVE UploadInv'
    BY <1>2, ReadingStep, ObjectStep, RowStep DEF Upload
  <1>3. ASSUME NEW w \in Workers, Commit(w) PROVE UploadInv'
    BY <1>3, ReadingStep, RowStep DEF Commit
  <1>4. ASSUME NEW w \in Workers, SaveItem(w) PROVE UploadInv'
    BY <1>4, ReadingStep, ObjectStep, RowStep, ItemStep DEF SaveItem
  <1>5. ASSUME NEW w \in Workers, Drop(w) PROVE UploadInv'
    BY <1>5, ReadingStep
  <1>6. ASSUME NEW w \in Workers, NEW b \in Blobs \ Abandoned,
               \/ UploadBlob(w, b) \/ CommitBlobUpload(w, b)
               \/ SaveReference(w, b) \/ SavePayload(w, b)
        PROVE  UploadInv'
    BY <1>6, StartStep
  <1>7. ASSUME NEW b \in Blobs, StartBlobUpload(b) \/ Expire(b) \/ ReplacePayload(b)
        PROVE  UploadInv'
    BY <1>7, ClientStep
  <1>8. CASE Cleanup
    BY <1>8, QuietJobStep, ListStep, CleanStep DEF Cleanup
  <1>9. CASE DeleteBlobFails \/ StopPass \/ Restart
    BY <1>9, QuietJobStep
  <1>10. QED
    BY <1>1, <1>2, <1>3, <1>4, <1>5, <1>6, <1>7, <1>8, <1>9 DEF Next

\* The inductive invariant holds: rows, objects and what each call of UploadBlob,
\* CommitBlobUpload and the job has found out so far agree.
THEOREM UploadInvariant == Spec => []UploadInv
  BY UploadInit, UploadStep, PTL DEF Spec

\* The type invariant: among others, a call is always about some blob, and the
\* job never works on more blobs than one batch holds.
THEOREM UploadTypes == Spec => []TypeOK
  <1>1. UploadInv => TypeOK
    BY DEF UploadInv
  <1>2. QED
    BY <1>1, UploadInvariant, PTL

\* An upload that UploadBlob answered with success stays stored and ready to be
\* committed until its deadline, whatever the other calls do.
THEOREM AnsweredUploadIsKept == Spec => []AckedUploadIsSafe
  <1>1. UploadInv => AckedUploadIsSafe
    BY DEF UploadInv
  <1>2. QED
    BY <1>1, UploadInvariant, PTL

\* A committed blob whose id was given out has its object, unless the cleanup job
\* had listed it before its commit, or UploadBlob was told that its completion had
\* failed when it had not.
THEOREM CommittedHasObject == Spec => []CommittedIsStored
  <1>1. UploadInv => CommittedIsStored
    BY DEF UploadInv, TypeOK, BlobInv, CommittedIsStored
  <1>2. QED
    BY <1>1, UploadInvariant, PTL

\* Between the checks of resolveVaultPayload and the write of the item's row
\* nothing takes the blob away: an item refers to a committed blob that is stored,
\* but for the same two exceptions, whether or not its upload was ever answered.
THEOREM ItemHasItsBlob == Spec => []ItemBlobIsStored
  <1>1. UploadInv => ItemBlobIsStored
    BY DEF UploadInv
  <1>2. QED
    BY <1>1, UploadInvariant, PTL

\* The session row and the blob row agree on how far an upload has come.
THEOREM RowsAgree == Spec => []SessionMatchesBlob
  <1>1. UploadInv => SessionMatchesBlob
    BY DEF UploadInv
  <1>2. QED
    BY <1>1, UploadInvariant, PTL

\* MarkFailed, CompleteClientUpload and the job never undo a commit, except
\* that the job deletes what it had listed.
THEOREM CommitIsFinal == Spec => CommittedStays
  <1> DEFINE Stays == \A b \in Blobs : status[b] = "committed" /\ b \notin listed =>
                        status'[b] = "committed"
  <1>1. UploadInv /\ [Next]_vars => [Stays]_vars
    <2> SUFFICES ASSUME UploadInv, Next, NEW b \in Blobs,
                        status[b] = "committed", b \notin listed
                 PROVE  status'[b] = "committed"
      OBVIOUS
    <2>1. CASE status' = status
      BY <2>1
    <2>2. ASSUME NEW w \in Workers,
                 \/ CompleteClientUpload(w) \/ CompleteFails(w) \/ DeleteSession(w)
                 \/ MarkFailed(w) \/ CommitUploadedBlob(w) \/ CreatePayload(w)
          PROVE  status'[b] = "committed"
      BY <2>2, RowMoves DEF RowMove, InFlight, UploadInv, TypeOK
    <2>3. ASSUME NEW c \in Blobs, StartBlobUpload(c) PROVE status'[b] = "committed"
      BY <2>3 DEF StartBlobUpload, Fresh, UploadInv, TypeOK
    <2>4. ASSUME NEW c \in Blobs, DeleteBlobByID(c) PROVE status'[b] = "committed"
      <3>1. c # b
        BY <2>4, MinRef DEF DeleteBlobByID
      <3>2. QED
        BY <2>4, <3>1 DEF DeleteBlobByID, UploadInv, TypeOK
    <2>5. ASSUME NEW w \in Workers, Upload(w) PROVE status'[b] = "committed"
      BY <2>1, <2>2, <2>5 DEF Upload, GetPending, ReceiveAll, ReceiveBad, Put,
         PutFails, Undo, DeleteObject, rows
    <2>6. ASSUME NEW w \in Workers, Commit(w) PROVE status'[b] = "committed"
      BY <2>1, <2>2, <2>6 DEF Commit, GetSession, GetUploading, Stat, LockSession,
         Check, rows
    <2>7. ASSUME NEW w \in Workers, SaveItem(w) PROVE status'[b] = "committed"
      BY <2>1, <2>2, <2>7 DEF SaveItem, StatReference, Check, PutPayload,
         Compensate, WriteItem, rows
    <2>8. ASSUME NEW w \in Workers,
                 Drop(w) \/ \E c \in Blobs :
                   \/ UploadBlob(w, c) \/ CommitBlobUpload(w, c)
                   \/ SaveReference(w, c) \/ SavePayload(w, c)
          PROVE  status'[b] = "committed"
      BY <2>1, <2>8 DEF Drop, UploadBlob, CommitBlobUpload, SaveReference,
         SavePayload, rows
    <2>9. ASSUME NEW c \in Blobs, Expire(c) \/ ReplacePayload(c)
          PROVE  status'[b] = "committed"
      BY <2>1, <2>9 DEF Expire, ReplacePayload, rows
    <2>10. CASE \/ Cleanup \/ DeleteBlobFails \/ StopPass \/ Restart
      BY <2>1, <2>4, <2>10 DEF Cleanup, StartPass, ListExpiredUploadBlobRefs,
         CleanObject, DeleteBlobFails, StopPass, Restart, rows
    <2>11. QED
      BY <2>3, <2>5, <2>6, <2>7, <2>8, <2>9, <2>10 DEF Next
  <1>2. QED
    BY <1>1, UploadInvariant, PTL DEF Spec, CommittedStays

=============================================================================
