----------------------------- MODULE VaultUpload -----------------------------
(***************************************************************************)
(* The device vault: files a phone uploads in chunks, one content-addressed *)
(* store of verified files (blobs), and the copies in the backup target.   *)
(* A receipt (records/<id>.json) and a part file belong to one upload; a   *)
(* blob to every upload of the same content.  Requests run in threads of   *)
(* one server, and a completion in a background thread under the transfer  *)
(* lock of its upload, which lives in memory only.                         *)
(*                                                                         *)
(* A file has Size chunks.  A part file is a sequence of chunks, each the  *)
(* right one or damaged on its way; its SHA-256 agrees exactly when all of *)
(* them are there and right.  Everything done under the process lock _LOCK *)
(* is one step, or one that the death of the process cuts short.  The      *)
(* endpoints of a data path are an edition number.                         *)
(***************************************************************************)
EXTENDS Naturals, Sequences, SequencesExt, FiniteSets

CONSTANTS
    Uploads,      \* upload ids; one the phone created is never used again
    Rescued,      \* those that come from an imported emergency file instead
    ContentOf,    \* upload -> its content
    Cloud,        \* uploads whose target is reached through rclone
    Size,         \* chunks of a file
    Damage,       \* how many chunks and target copies may come out damaged
    MaxRoadEdits, MaxRemovals, MaxVaultCrashes, MaxDownloads  \* bounds

ASSUME VaultAssumptions ==
    /\ Rescued \subseteq Uploads /\ Cloud \subseteq Uploads
    /\ Size \in Nat \ {0}
    /\ {Damage, MaxRoadEdits, MaxRemovals, MaxVaultCrashes, MaxDownloads} \subseteq Nat

Whole == [i \in 1 .. Size |-> "right"]
Statuses == {"none", "gone", "receiving", "uploaded", "queued", "transferring",
             "ready", "error", "remote"}

VARIABLES
    receipt,    \* its status, bytes acknowledged and endpoints at its creation
    part,       \* the part file; a missing one is empty
    blobs,      \* contents that have a blob
    targetCopy, \* what lies at the place of the upload in the target
    seen,       \* a creation that has looked for the blob and not yet saved
    due,        \* uploads with a completion waiting for its thread
    worker,     \* where that thread is
    rescue,     \* a download that holds a receipt it read
    road,       \* endpoints of the data path in the configuration now
    told,       \* phone: chunks it was told have arrived
    cut,        \* history: removals a crash cut short, until the phone is told
    faults, removals, vaultCrashes, downloads   \* counters of the bounds

vaultFiles == <<receipt, part, blobs, targetCopy>>
vaultThreads == <<seen, due, worker, rescue>>
vaultBounds == <<cut, faults, removals, vaultCrashes, downloads>>
vaultVars == <<vaultFiles, vaultThreads, road, told, vaultBounds>>

VaultInit ==
    /\ receipt = [u \in Uploads |-> [status |-> "none", received |-> 0, road |-> 0]]
    /\ part = [u \in Uploads |-> << >>] /\ blobs = {}
    /\ targetCopy = [u \in Uploads |-> "none"]
    /\ seen = [u \in Uploads |-> "no"] /\ due = {}
    /\ worker = [u \in Uploads |-> "idle"] /\ rescue = [u \in Uploads |-> "idle"]
    /\ road = 0 /\ told = [u \in Uploads |-> << >>]
    /\ cut = {} /\ faults = 0 /\ removals = 0 /\ vaultCrashes = 0 /\ downloads = 0

-----------------------------------------------------------------------------
StatusOf(u) == receipt[u].status
Known(u) == StatusOf(u) \notin {"none", "gone"}
StatusBecomes(u, s) == receipt' = [receipt EXCEPT ![u].status = s]
WorkerAt(u, s) == worker' = [worker EXCEPT ![u] = s]

(* _validate_destination: the data path still has the endpoints of the      *)
(* receipt.                                                                 *)
RoadHolds(u) == receipt[u].road = road

(* _TRANSFER_LOCKS: held by the completion or by a download.                *)
Transferring(u) == worker[u] # "idle" \/ rescue[u] = "holds"

(* The other receipts that name the same content.                           *)
Others(u) == {v \in Uploads \ {u} : Known(v) /\ ContentOf[v] = ContentOf[u]}

(* Mutant: the reconciliation trusts the receipt and keeps the whole part.  *)
ReconciledWhole(u) ==
    IF StatusOf(u) = "receiving" /\ Len(part[u]) < receipt[u].received
    THEN [file |-> << >>, entry |-> [receipt[u] EXCEPT !.received = 0]]
    ELSE [file |-> part[u], entry |-> receipt[u]]

(* _reconcile_received: what the part file has beyond the receipt is cut    *)
(* off, and a receipt ahead of the file follows it.                         *)
Reconciled(u) ==
    LET kept == IF Len(part[u]) > receipt[u].received
                THEN SubSeq(part[u], 1, receipt[u].received) ELSE part[u]
        done == Len(kept) = Size
    IN  IF StatusOf(u) = "receiving"
        THEN [file |-> kept,
              entry |-> [receipt[u] EXCEPT !.received = Len(kept),
                             !.status = IF done THEN "uploaded" ELSE "receiving"]]
        ELSE [file |-> part[u], entry |-> receipt[u]]

(* An answer that reaches the phone says what the part file holds.           *)
Learns(u, chunks) == told' = [told EXCEPT ![u] = chunks] /\ cut' = cut \ {u}

Refresh(u) == /\ part' = [part EXCEPT ![u] = Reconciled(u).file]
              /\ receipt' = [receipt EXCEPT ![u] = Reconciled(u).entry]

-----------------------------------------------------------------------------
(* create_upload, first half: the endpoints of the configuration it read,   *)
(* and whether a blob of this content exists already.                       *)
CreateLook(u) ==
    /\ u \notin Rescued /\ StatusOf(u) = "none" /\ seen[u] = "no"
    /\ seen' = [seen EXCEPT ![u] = IF ContentOf[u] \in blobs THEN "blob" ELSE "absent"]
    /\ receipt' = [receipt EXCEPT ![u].road = road]
    /\ UNCHANGED <<part, blobs, targetCopy, due, worker, rescue, road, told, vaultBounds>>

(* Second half, under _LOCK: the receipt is saved by what was seen.         *)
CreateSave(u) ==
    /\ seen[u] # "no"
    /\ seen' = [seen EXCEPT ![u] = "no"]
    /\ receipt' = [receipt EXCEPT ![u].received = IF seen[u] = "blob" THEN Size ELSE 0,
                       ![u].status = IF seen[u] = "blob" THEN "uploaded" ELSE "receiving"]
    /\ UNCHANGED <<part, blobs, targetCopy, due, worker, rescue, road, told, vaultBounds>>

(* import_handover: the receipt of a file that lies in the target.  The id  *)
(* follows from the file: one that was removed can be imported again.       *)
ImportReceipt(u) ==
    /\ u \in Rescued /\ ~Known(u)
    /\ receipt' = [receipt EXCEPT ![u] = [status |-> "remote", received |-> 0, road |-> road]]
    /\ targetCopy' = [targetCopy EXCEPT ![u] = "whole"]
    /\ UNCHANGED <<part, blobs, vaultThreads, road, told, vaultBounds>>

(* Mutant: an upload that has all its chunks takes another one.             *)
AppendableAlways(u) == Known(u) /\ RoadHolds(u) /\ Len(told[u]) = Len(Reconciled(u).file)

(* What append_chunk asks for before it writes: the offset of the phone is  *)
(* the length of the reconciled part file.                                  *)
Appendable(u) == /\ Known(u) /\ Reconciled(u).entry.status = "receiving" /\ RoadHolds(u)
                 /\ Len(told[u]) = Len(Reconciled(u).file)

Grown(u, chunk) == Append(Reconciled(u).file, chunk)

(* append_chunk; the answer may be lost.                                    *)
AppendChunk(u, chunk, answered) ==
    /\ Appendable(u)
    /\ chunk = "wrong" => faults < Damage
    /\ faults' = IF chunk = "wrong" THEN faults + 1 ELSE faults
    /\ part' = [part EXCEPT ![u] = Grown(u, chunk)]
    /\ receipt' = [receipt EXCEPT ![u].received = Len(Grown(u, chunk)),
                       ![u].status = IF Len(Grown(u, chunk)) = Size THEN "uploaded"
                                     ELSE "receiving"]
    /\ IF answered THEN Learns(u, Grown(u, chunk)) ELSE UNCHANGED <<told, cut>>
    /\ UNCHANGED <<blobs, targetCopy, vaultThreads, road, removals, vaultCrashes, downloads>>

(* upload_status, and what the phone learns from it.                        *)
UploadStatus(u) ==
    /\ Known(u) /\ u \notin Rescued /\ Refresh(u)
    /\ IF Reconciled(u).entry.status \in {"receiving", "uploaded"}
       THEN Learns(u, Reconciled(u).file) ELSE UNCHANGED <<told, cut>>
    /\ UNCHANGED <<blobs, targetCopy, vaultThreads, road, faults, removals, vaultCrashes,
                   downloads>>

-----------------------------------------------------------------------------
(* Mutant: a repeated request does not start the completion again.          *)
QueueableOnce(u) == Reconciled(u).entry.status = "uploaded"

(* The statuses finish_upload adds a background task for.                   *)
Queueable(u) == Reconciled(u).entry.status \in {"uploaded", "queued", "transferring"}

(* queue_completion and the background task finish_upload adds for it.  A   *)
(* phone repeats the request while the upload is queued or transferring.    *)
FinishUpload(u) ==
    /\ Known(u) /\ RoadHolds(u) /\ u \notin due /\ Queueable(u)
    /\ part' = [part EXCEPT ![u] = Reconciled(u).file]
    /\ receipt' = [receipt EXCEPT ![u] =
           IF Reconciled(u).entry.status = "uploaded"
           THEN [Reconciled(u).entry EXCEPT !.status = "queued"] ELSE Reconciled(u).entry]
    /\ due' = due \cup {u}
    /\ UNCHANGED <<blobs, targetCopy, seen, worker, rescue, road, told, vaultBounds>>

(* complete_upload: the thread starts, and goes on only with the transfer   *)
(* lock and a receipt that waits for it.                                    *)
BeginTransfer(u) ==
    /\ u \in due /\ due' = due \ {u}
    /\ IF ~Transferring(u) /\ StatusOf(u) \in {"queued", "transferring"}
       THEN StatusBecomes(u, "transferring") /\ WorkerAt(u, "begun")
       ELSE UNCHANGED <<receipt, worker>>
    /\ UNCHANGED <<part, blobs, targetCopy, seen, rescue, road, told, vaultBounds>>

(* The end of the thread, with the lock released.                           *)
TransferEnds(u, s) == StatusBecomes(u, s) /\ WorkerAt(u, "idle")

(* The first validation and _prepare_blob: the part becomes the blob, or    *)
(* gives way to the one that is there.                                      *)
PrepareBlob(u) ==
    /\ worker[u] = "begun"
    /\ IF RoadHolds(u) /\ (ContentOf[u] \in blobs \/ part[u] = Whole)
       THEN /\ part' = [part EXCEPT ![u] = << >>]
            /\ blobs' = blobs \cup {ContentOf[u]}
            /\ WorkerAt(u, "prepared") /\ UNCHANGED receipt
       ELSE TransferEnds(u, "error") /\ UNCHANGED <<part, blobs>>
    /\ UNCHANGED <<targetCopy, seen, due, rescue, road, told, vaultBounds>>

(* The second validation and the copy.  A local copy is read back before it *)
(* takes its name; rclone copyto --immutable refuses a different file that  *)
(* is there, and may leave a damaged one and still report success.          *)
PublishCopy(u, lands) ==
    /\ worker[u] = "prepared"
    /\ \/ /\ RoadHolds(u) /\ ContentOf[u] \in blobs
          /\ lands = "whole" \/ (lands = "damaged" /\ u \in Cloud /\ faults < Damage)
          /\ targetCopy[u] # "damaged" /\ (targetCopy[u] = "whole" => lands = "whole")
          /\ targetCopy' = [targetCopy EXCEPT ![u] = lands]
          /\ faults' = IF lands = "damaged" THEN faults + 1 ELSE faults
          /\ WorkerAt(u, "copied") /\ UNCHANGED receipt
       \/ /\ lands = "none"
          /\ TransferEnds(u, "error") /\ UNCHANGED <<targetCopy, faults>>
    /\ UNCHANGED <<part, blobs, seen, due, rescue, road, told, cut, removals,
                   vaultCrashes, downloads>>

(* Mutant: a copy rclone reported as done counts as verified.               *)
CopyVerifiedBlindly(u) == targetCopy[u] # "none"

(* What the copy is found to be: the read back of the target.               *)
CopyVerified(u) == targetCopy[u] = "whole"

Verify(u) ==
    /\ worker[u] = "copied"
    /\ IF CopyVerified(u) THEN StatusBecomes(u, "ready") /\ WorkerAt(u, "audit")
       ELSE TransferEnds(u, "error")
    /\ UNCHANGED <<part, blobs, targetCopy, seen, due, rescue, road, told, vaultBounds>>

(* audit_add after the receipt was saved as ready: when it raises, the same  *)
(* handler saves the verified file as failed.                               *)
AuditReady(u, works) ==
    /\ worker[u] = "audit"
    /\ TransferEnds(u, IF works THEN "ready" ELSE "error")
    /\ UNCHANGED <<part, blobs, targetCopy, seen, due, rescue, road, told, vaultBounds>>

-----------------------------------------------------------------------------
(* download_blob: the receipt is read without a lock; with its blob there   *)
(* the file is sent, else it is fetched from the target.                    *)
DownloadReads(u) ==
    /\ downloads < MaxDownloads /\ downloads' = downloads + 1
    /\ rescue[u] = "idle"
    /\ StatusOf(u) = "remote" \/ (StatusOf(u) = "ready" /\ ContentOf[u] \notin blobs)
    /\ rescue' = [rescue EXCEPT ![u] = "read"]
    /\ UNCHANGED <<vaultFiles, seen, due, worker, road, told, cut, faults, removals, vaultCrashes>>

DownloadLocks(u) ==
    /\ rescue[u] = "read"
    /\ rescue' = [rescue EXCEPT ![u] = IF Transferring(u) THEN "idle" ELSE "holds"]
    /\ UNCHANGED <<vaultFiles, seen, due, worker, road, told, vaultBounds>>

(* _restore_missing_blob: a verified file becomes the blob, and the receipt *)
(* that was read is saved as ready.                                         *)
Rescue(u, works) ==
    /\ rescue[u] = "holds" /\ rescue' = [rescue EXCEPT ![u] = "idle"]
    /\ IF works /\ RoadHolds(u) /\ targetCopy[u] = "whole"
       THEN blobs' = blobs \cup {ContentOf[u]} /\ StatusBecomes(u, "ready")
       ELSE UNCHANGED <<blobs, receipt>>
    /\ UNCHANGED <<part, targetCopy, seen, due, worker, road, told, vaultBounds>>

-----------------------------------------------------------------------------
(* remove_local_copy refuses what is being transferred.                     *)
Deletable(u) == /\ Known(u) /\ ~Transferring(u) /\ removals < MaxRemovals
                /\ StatusOf(u) \notin {"queued", "transferring"}

(* Mutant: only verified receipts count as users of a blob.                 *)
LastOfItsContentReady(u) == \A v \in Others(u) : StatusOf(v) # "ready"

(* Whether the blob goes with the receipt.                                  *)
LastOfItsContent(u) == Others(u) = {}

RemoveFiles(u, andBlob) ==
    /\ removals' = removals + 1
    /\ part' = [part EXCEPT ![u] = << >>]
    /\ blobs' = IF andBlob /\ LastOfItsContent(u) THEN blobs \ {ContentOf[u]} ELSE blobs

RemoveLocalCopy(u) ==
    /\ Deletable(u) /\ RemoveFiles(u, TRUE) /\ StatusBecomes(u, "gone")
    /\ UNCHANGED <<targetCopy, vaultThreads, road, told, cut, faults, vaultCrashes, downloads>>

(* The operator gives the data path other endpoints.                        *)
EditRoad ==
    /\ road < MaxRoadEdits /\ road' = road + 1
    /\ UNCHANGED <<vaultFiles, vaultThreads, told, vaultBounds>>

-----------------------------------------------------------------------------
(* The process dies: threads, waiting tasks and locks are gone.             *)
VaultDies ==
    /\ vaultCrashes < MaxVaultCrashes /\ vaultCrashes' = vaultCrashes + 1
    /\ seen' = [u \in Uploads |-> "no"] /\ due' = {}
    /\ worker' = [u \in Uploads |-> "idle"] /\ rescue' = [u \in Uploads |-> "idle"]
    /\ UNCHANGED road

VaultCrash == /\ VaultDies
              /\ UNCHANGED <<vaultFiles, told, cut, faults, removals, downloads>>

(* It dies between the bytes of a chunk and the receipt.                    *)
AppendCut(u) ==
    /\ Appendable(u) /\ VaultDies
    /\ part' = [part EXCEPT ![u] = Grown(u, "right")]
    /\ receipt' = [receipt EXCEPT ![u] = Reconciled(u).entry]
    /\ UNCHANGED <<blobs, targetCopy, told, cut, faults, removals, downloads>>

(* It dies before the receipt of a removal is gone; what the phone was told *)
(* of it is out of date.                                                    *)
RemoveCut(u, andBlob) ==
    /\ Deletable(u) /\ VaultDies /\ RemoveFiles(u, andBlob)
    /\ cut' = cut \cup {u}
    /\ UNCHANGED <<receipt, targetCopy, told, faults, downloads>>

-----------------------------------------------------------------------------
UploadStep(u) ==
    \/ CreateLook(u) \/ CreateSave(u) \/ ImportReceipt(u) \/ UploadStatus(u)
    \/ \E chunk \in {"right", "wrong"}, answered \in BOOLEAN : AppendChunk(u, chunk, answered)
    \/ FinishUpload(u) \/ BeginTransfer(u) \/ PrepareBlob(u) \/ Verify(u)
    \/ \E works \in BOOLEAN : AuditReady(u, works)
    \/ \E lands \in {"whole", "damaged", "none"} : PublishCopy(u, lands)
    \/ DownloadReads(u) \/ DownloadLocks(u) \/ \E works \in BOOLEAN : Rescue(u, works)
    \/ RemoveLocalCopy(u)

VaultNext ==
    \/ \E u \in Uploads : UploadStep(u)
    \/ EditRoad \/ VaultCrash
    \/ \E u \in Uploads : AppendCut(u) \/ \E andBlob \in BOOLEAN : RemoveCut(u, andBlob)

(* Background threads start and run on, and the phone repeats its request   *)
(* while the upload is queued or transferring.                              *)
TransferWork(u) ==
    \/ PrepareBlob(u) \/ Verify(u) \/ \E works \in BOOLEAN : AuditReady(u, works)
    \/ \E lands \in {"whole", "damaged", "none"} : PublishCopy(u, lands)

PhoneRepeats(u) == StatusOf(u) \in {"queued", "transferring"} /\ FinishUpload(u)

VaultFairness ==
    \A u \in Uploads : /\ WF_vaultVars(BeginTransfer(u)) /\ WF_vaultVars(TransferWork(u))
                       /\ WF_vaultVars(PhoneRepeats(u))

VaultSpec == VaultInit /\ [][VaultNext]_vaultVars /\ VaultFairness

-----------------------------------------------------------------------------
(* The values the variables take.                                           *)
Chunks == BoundedSeq({"right", "wrong"}, Size)

VaultTypeOK ==
    /\ receipt \in [Uploads -> [status : Statuses, received : 0 .. Size, road : 0 .. MaxRoadEdits]]
    /\ part \in [Uploads -> Chunks] /\ told \in [Uploads -> Chunks]
    /\ blobs \subseteq {ContentOf[u] : u \in Uploads}
    /\ targetCopy \in [Uploads -> {"none", "whole", "damaged"}]
    /\ seen \in [Uploads -> {"no", "blob", "absent"}] /\ due \subseteq Uploads
    /\ worker \in [Uploads -> {"idle", "begun", "prepared", "copied", "audit"}]
    /\ rescue \in [Uploads -> {"idle", "read", "holds"}]
    /\ road \in 0 .. MaxRoadEdits /\ cut \subseteq Uploads

(* What the phone was told has arrived is in the part file for as long as   *)
(* the upload takes chunks, whatever lost answer or crash between a chunk   *)
(* and its receipt came between (append_chunk, _reconcile_received).  The   *)
(* one exception is a removal that somebody asked for and a crash cut short:*)
(* the part may be gone and the receipt not, until the phone is answered.   *)
AcknowledgedKept ==
    \A u \in Uploads : StatusOf(u) = "receiving" /\ u \notin cut =>
        /\ IsPrefix(told[u], part[u])
        /\ Len(told[u]) <= receipt[u].received

(* A file the phone may forget can be restored: a verified receipt has a    *)
(* whole copy in the target (complete_upload, _restore_missing_blob).       *)
ReadyIsRestorable ==
    \A u \in Uploads : StatusOf(u) = "ready" => targetCopy[u] = "whole"

(* No step takes the data of a complete upload that nobody asked to remove, *)
(* however many uploads share a content (remove_local_copy, _prepare_blob). *)
HasData(u) == ContentOf[u] \in blobs \/ part[u] = Whole
Complete(u) == StatusOf(u) \in {"uploaded", "queued", "transferring", "ready", "error"}

SharedDataKept ==
    [][\A u \in Uploads : Complete(u) /\ HasData(u) =>
           HasData(u)' \/ u \in cut' \/ StatusOf(u)' = "gone"]_vaultVars

(* A completion that was accepted ends, across a restart of the server and  *)
(* with a phone that repeats its request, unless the data path it is for    *)
(* was changed (finish_upload, complete_upload, VaultTransfer.swift).       *)
CompletionEnds ==
    \A u \in Uploads : StatusOf(u) \in {"queued", "transferring"} ~>
                           (StatusOf(u) \in {"ready", "error"} \/ ~RoadHolds(u))

(* The receipt of an upload of shared content has its data: what the        *)
(* docstring of remove_local_copy promises of other receipts.               *)
SharedBlobsRemain ==
    \A u \in Uploads : StatusOf(u) = "uploaded" => HasData(u) \/ Len(part[u]) = Size
=============================================================================
