---------------------------- MODULE RecoveryStore ----------------------------
(***************************************************************************)
(* Recovery jobs and what they leave on the disk of the server: full       *)
(* points captured from a backup target, restores staged for an operator,  *)
(* the scratch directory of a capture with its receipt, the record of each *)
(* staged restore, and the outcome of the job, which may be stored late.   *)
(* Jobs run one after the other under the lock of the scope backup.  The   *)
(* server may be killed at any step; a child (rclone) then lives on.       *)
(*                                                                         *)
(* The target has files that outsiders may write while it is captured; a   *)
(* content is the version of each file, counted from the start of the job. *)
(* The limits of one capture, the free space of the disk and broken        *)
(* entries make a step fail; the one budget all staged restores share is   *)
(* modelled.  A child is registered before anything else happens.          *)
(***************************************************************************)
EXTENDS Naturals, FiniteSets, FiniteSetsExt

CONSTANTS
    StoredFiles,     \* files of the target
    StagingLimit,    \* recovery_staging_max_mb
    MaxRecoveries, MaxWritesOut, MaxCrashes, MaxStoreFaults  \* bounds

ASSUME RecoveryAssumptions ==
    {StagingLimit, MaxRecoveries, MaxWritesOut, MaxCrashes, MaxStoreFaults} \subseteq Nat

RecJobs == 1 .. MaxRecoveries
NoJob == 0
Unread == [f \in StoredFiles |-> 0]
Versions == [f \in StoredFiles |-> 1]

VARIABLES
    server,     \* up, down, or a step of its start: replay, reconcile, staging
    recAt,      \* where the thread of the current recovery is
    current,    \* that recovery, or NoJob: the lock is free
    removing,   \* the restore a request is removing under the lock, or NoJob
    recKind,    \* capture, full, select
    recRow,     \* status of the job
    recIntent,  \* job_terminal_intents not yet applied
    record,     \* selective_restore state: status of the staged restore
    staged,     \* its directory: none, made, part, whole
    size,       \* what a restore will need
    counted,    \* the size its record names
    scratch,    \* the directory of a capture: none, bare, known (with receipt)
    recChild,   \* the job whose child process lives, or NoJob
    recCancel,
    target,     \* environment: version of each file of the target
    before, copied, again, \* inventory, copy and second inventory of a capture
    points,     \* full points: their job, whether nothing was deleted from one,
                \* and, as history, whether the target once was what it holds
    moments,    \* history: every content the target had since the job began
    removed,    \* history: restores a request began to remove
    crashes, storeFaults

recoveryJob == <<recAt, current, recKind, recCancel>>
recoveryRows == <<recRow, recIntent>>
staging == <<record, staged, size, counted>>
capture == <<before, copied, again>>
world == <<target, moments>>
recBounds == <<crashes, storeFaults>>
recVars == <<server, recoveryJob, removing, recoveryRows, staging, scratch, recChild,
             capture, points, world, removed, recBounds>>

RecInit ==
    /\ server = "up" /\ recAt = "idle" /\ current = NoJob /\ removing = NoJob
    /\ recKind = [j \in RecJobs |-> "none"]
    /\ recRow = [j \in RecJobs |-> "none"] /\ recIntent = [j \in RecJobs |-> "none"]
    /\ record = [j \in RecJobs |-> "none"] /\ staged = [j \in RecJobs |-> "none"]
    /\ size = [j \in RecJobs |-> 0] /\ counted = [j \in RecJobs |-> 0]
    /\ scratch = [j \in RecJobs |-> "none"] /\ recChild = NoJob /\ recCancel = FALSE
    /\ target = Versions /\ moments = {Versions}
    /\ before = Unread /\ copied = Unread /\ again = Unread
    /\ points = {[of |-> NoJob, whole |-> TRUE, sound |-> TRUE]}
    /\ removed = {} /\ crashes = 0 /\ storeFaults = 0

-----------------------------------------------------------------------------
RecIn(s) == server = "up" /\ current # NoJob /\ recAt = s
Goes(s) == recAt' = s /\ UNCHANGED <<current, recKind, recCancel>>
Put(v, x) == [v EXCEPT ![current] = x]
LockFree == server = "up" /\ current = NoJob /\ removing = NoJob

(* What a capture knew is forgotten, and the versions are counted anew.     *)
FreshCapture == /\ before' = Unread /\ copied' = Unread /\ again' = Unread
                /\ target' = Versions /\ moments' = {Versions}

(* job_terminal_recover_pending: every intent that was not applied yet.     *)
Replayed == [j \in RecJobs |-> IF recIntent[j] # "none" THEN recIntent[j] ELSE recRow[j]]

(* jobs_mark_all_running_stale.                                             *)
Staled(rows) == [j \in RecJobs |-> IF rows[j] = "running" THEN "stale" ELSE rows[j]]

(* Jobs are numbered in the order they are started.                         *)
NextFree(j) == recRow[j] = "none" /\ \A i \in 1 .. (j - 1) : recRow[i] # "none"

(* _start_recovery_job: nothing pending any more, no registered child, the  *)
(* rows of dead jobs are closed.  (That every replay succeeds here is what  *)
(* JobLifecycle looks into.)                                                *)
StartRecovery ==
    /\ LockFree /\ recChild = NoJob
    /\ \E j \in RecJobs, k \in {"capture", "full", "select"}, n \in {1, 2} :
          /\ NextFree(j) /\ (k = "capture" => n = 1)
          /\ current' = j /\ recAt' = "begin" /\ recCancel' = FALSE
          /\ recKind' = [recKind EXCEPT ![j] = k] /\ size' = [size EXCEPT ![j] = n]
          /\ recRow' = [Staled(Replayed) EXCEPT ![j] = "running"]
    /\ recIntent' = [j \in RecJobs |-> "none"]
    /\ UNCHANGED <<server, removing, record, staged, counted, scratch, recChild, capture,
                   world, points, removed, recBounds>>

(* _run_recovery_job hands over to the operation of the job.                *)
BeginRecovery ==
    /\ RecIn("begin")
    /\ Goes(CASE recCancel -> "cancelled"
              [] ~recCancel /\ recKind[current] = "capture" -> "workspace"
              [] ~recCancel /\ recKind[current] = "full"    -> "budget"
              [] ~recCancel /\ recKind[current] = "select"  -> "announce")
    /\ UNCHANGED <<server, removing, recoveryRows, staging, scratch, recChild, capture,
                   points, world, removed, recBounds>>

-----------------------------------------------------------------------------
(* capture_snapshot.                                                       *)

(* create_workspace: the directory, then under its lease the receipt.       *)
MakeScratch ==
    /\ RecIn("workspace")
    /\ IF scratch[current] = "none" THEN scratch' = Put(scratch, "bare") /\ Goes("workspace")
       ELSE scratch' = Put(scratch, "known") /\ Goes("inventory")
    /\ UNCHANGED <<server, removing, recoveryRows, staging, recChild, capture, points,
                   world, removed, recBounds>>

(* One file is listed, with size and time.                                  *)
TakeInventory(f) ==
    /\ RecIn("inventory") /\ ~recCancel /\ before[f] = 0
    /\ before' = [before EXCEPT ![f] = target[f]]
    /\ Goes(IF \A g \in StoredFiles \ {f} : before[g] # 0 THEN "copy" ELSE "inventory")
    /\ UNCHANGED <<server, removing, recoveryRows, staging, scratch, recChild, copied, again,
                   points, world, removed, recBounds>>

(* Mutant: a file counts as unchanged when its size is. *)
SameFileSize(v, w) == TRUE

(* Size and modification time, or the hash.                                 *)
SameFile(v, w) == v = w

(* A file of a local target is copied by the server and must be what was    *)
(* listed; one of a remote target is copied by rclone, whatever it is.      *)
CopyFile(f) ==
    /\ RecIn("copy") /\ ~recCancel /\ recKind[current] = "capture" /\ copied[f] = 0
    /\ \/ recChild = current
       \/ recChild = NoJob /\ SameFile(target[f], before[f])
    /\ copied' = [copied EXCEPT ![f] = target[f]]
    /\ IF \A g \in StoredFiles \ {f} : copied[g] # 0
       THEN Goes("again") /\ recChild' = NoJob ELSE Goes("copy") /\ UNCHANGED recChild
    /\ UNCHANGED <<server, removing, recoveryRows, staging, scratch, before, again, points,
                   world, removed, recBounds>>

(* The second inventory must be the first one.                              *)
InventoryAgain(f) ==
    /\ RecIn("again") /\ ~recCancel /\ again[f] = 0 /\ SameFile(target[f], before[f])
    /\ again' = [again EXCEPT ![f] = target[f]]
    /\ Goes(IF \A g \in StoredFiles \ {f} : again[g] # 0 THEN "publish" ELSE "again")
    /\ UNCHANGED <<server, removing, recoveryRows, staging, scratch, recChild, before, copied,
                   points, world, removed, recBounds>>

(* os.replace of the directory with its manifest.  (The comparison of a     *)
(* remote copy with the target by rclone check only refuses more.)          *)
Publish ==
    /\ RecIn("publish") /\ ~recCancel
    /\ points' = points \cup {[of |-> current, whole |-> TRUE, sound |-> copied \in moments]}
    /\ FreshCapture
    /\ Goes("prune")
    /\ UNCHANGED <<server, removing, recoveryRows, staging, scratch, recChild, removed,
                   recBounds>>

(* prune_snapshots deletes a point that is too old, never the new one,      *)
PruneBegins ==
    /\ RecIn("prune")
    /\ \E p \in points :
          /\ p.of # current /\ p.whole
          /\ points' = (points \ {p}) \cup {[p EXCEPT !.whole = FALSE]}
    /\ Goes("pruning")
    /\ UNCHANGED <<server, removing, recoveryRows, staging, scratch, recChild, capture,
                   world, removed, recBounds>>

(* directory by directory.                                                 *)
PruneEnds ==
    /\ RecIn("pruning")
    /\ points' = {p \in points : p.whole} /\ Goes("prune")
    /\ UNCHANGED <<server, removing, recoveryRows, staging, scratch, recChild, capture,
                   world, removed, recBounds>>

(* The receipt of a directory that is no longer there is forgotten.         *)
Captured ==
    /\ RecIn("prune")
    /\ scratch' = Put(scratch, "none") /\ Goes("ok")
    /\ UNCHANGED <<server, removing, recoveryRows, staging, recChild, capture, points,
                   world, removed, recBounds>>

-----------------------------------------------------------------------------
(* run_snapshot_restore and run_selective_restore.                         *)

(* Mutant: a directory that could not be cleaned up is forgotten. *)
RetainedForgets == {j \in RecJobs : record[j] \in {"running", "ready"}}

(* _save_record: what still occupies the disk stays in the state.           *)
Retained == {j \in RecJobs : record[j] \in {"running", "ready", "cleanup"}}

Total(w, S) == MapThenSumSet(LAMBDA j : w[j], S)

(* check_staging_budget.                                                    *)
FitsBudget == Total(counted, Retained \ {current}) + size[current] <= StagingLimit

SaveRecord(s, n) == record' = Put(record, s) /\ counted' = Put(counted, n)

(* A full restore reads the manifest, checks the budget and saves its       *)
(* record with the size.                                                    *)
BudgetFull ==
    /\ RecIn("budget")
    /\ IF FitsBudget /\ ~recCancel
       THEN SaveRecord("running", size[current]) /\ Goes("mkdir")
       ELSE Goes("failed") /\ UNCHANGED <<record, counted>>
    /\ UNCHANGED <<server, removing, recoveryRows, staged, size, scratch, recChild, capture,
                   points, world, removed, recBounds>>

(* A selective restore saves its record before it knows the size.           *)
Announce ==
    /\ RecIn("announce") /\ ~recCancel
    /\ SaveRecord("running", 0) /\ Goes("mkdir")
    /\ UNCHANGED <<server, removing, recoveryRows, staged, size, scratch, recChild, capture,
                   points, world, removed, recBounds>>

MakeStaged ==
    /\ RecIn("mkdir")
    /\ staged' = Put(staged, "made")
    /\ Goes(IF recKind[current] = "full" THEN "copy" ELSE "measure")
    /\ UNCHANGED <<server, removing, recoveryRows, record, size, counted, scratch, recChild,
                   capture, points, world, removed, recBounds>>

(* The selection is listed; its size joins the record.                      *)
Measure ==
    /\ RecIn("measure") /\ ~recCancel
    /\ IF FitsBudget THEN SaveRecord("running", size[current]) /\ Goes("copy")
       ELSE Goes("failed") /\ UNCHANGED <<record, counted>>
    /\ UNCHANGED <<server, removing, recoveryRows, staged, size, scratch, recChild, capture,
                   points, world, removed, recBounds>>

(* rclone copy is started and registered.                                   *)
SpawnCopy ==
    /\ RecIn("copy") /\ ~recCancel /\ recChild = NoJob
    /\ recKind[current] \in {"select", "capture"} /\ copied = Unread
    /\ recChild' = current
    /\ staged' = IF recKind[current] = "select" THEN Put(staged, "part") ELSE staged
    /\ Goes("copy")
    /\ UNCHANGED <<server, removing, recoveryRows, record, size, counted, scratch, capture,
                   points, world, removed, recBounds>>

(* A full restore copies file by file and compares each with the manifest;  *)
(* a point that lost files does not pass.                                   *)
CopyPoint ==
    /\ RecIn("copy") /\ recKind[current] = "full"
    /\ \E p \in points :
          IF recCancel \/ ~p.whole THEN Goes("failed") /\ staged' = Put(staged, "part")
          ELSE Goes("ready") /\ staged' = Put(staged, "whole")
    /\ UNCHANGED <<server, removing, recoveryRows, record, size, counted, scratch, recChild,
                   capture, points, world, removed, recBounds>>

(* The child has copied all, and the manifest is verified.                  *)
CopyDone ==
    /\ RecIn("copy") /\ recKind[current] = "select" /\ recChild = current /\ ~recCancel
    /\ recChild' = NoJob /\ staged' = Put(staged, "whole") /\ Goes("ready")
    /\ UNCHANGED <<server, removing, recoveryRows, record, size, counted, scratch, capture,
                   points, world, removed, recBounds>>

-----------------------------------------------------------------------------
(* Failure, cancellation, outcome.                                         *)

Fallible == {"workspace", "inventory", "copy", "again", "publish", "announce", "mkdir",
             "measure"}

(* A step fails, is refused, runs into its timeout or finds the cancel; the *)
(* child is terminated, confirmed or not.                                   *)
StepFails ==
    /\ server = "up" /\ recAt \in Fallible
    /\ recChild' \in (IF recChild = current THEN {current, NoJob} ELSE {recChild})
    /\ Goes("failed")
    /\ UNCHANGED <<server, removing, recoveryRows, staging, scratch, capture, points,
                   world, removed, recBounds>>

(* Mutant: a directory is removed whatever still runs. *)
CleanupSafeAlways == TRUE

(* ensure_cleanup_safe.                                                     *)
CleanupSafe == recChild = NoJob

(* The directory the job has created is removed, unless a child is left or  *)
(* the removal fails.  (A cancelled job counts as one with an error here.)  *)
CleanUp ==
    /\ RecIn("failed")
    /\ \/ UNCHANGED <<scratch, staged>>
       \/ /\ CleanupSafe
          /\ IF recKind[current] = "capture"
             THEN scratch' = Put(scratch, "none") /\ UNCHANGED staged
             ELSE staged' = Put(staged, "none") /\ UNCHANGED scratch
    /\ FreshCapture /\ Goes("error")
    /\ UNCHANGED <<server, removing, recoveryRows, record, size, counted, recChild, points,
                   removed, recBounds>>

Outcome == CASE recAt \in {"ok", "ready"} -> "ok"
             [] recAt = "error"           -> "error"
             [] recAt = "cancelled"       -> "cancelled"

(* finish_job: an ok looks at the cancel first.                             *)
LateCancel ==
    /\ server = "up" /\ recAt \in {"ok", "ready"} /\ recCancel
    /\ Goes("cancelled")
    /\ UNCHANGED <<server, removing, recoveryRows, staging, scratch, recChild, capture,
                   points, world, removed, recBounds>>

(* job_finish_external: intent and row; the record follows.                 *)
FinishRecovery ==
    /\ server = "up" /\ recAt \in {"ok", "ready", "error", "cancelled"}
    /\ recAt \in {"ok", "ready"} => ~recCancel
    /\ recRow' = Put(recRow, Outcome)
    /\ Goes(IF recKind[current] = "capture" \/ recAt = "cancelled" THEN "release" ELSE
            IF recAt = "ready" THEN "saveReady" ELSE "saveError")
    /\ UNCHANGED <<server, removing, recIntent, staging, scratch, recChild, capture,
                   points, world, removed, recBounds>>

(* The database fails: the outcome is staged for later or lost, the record  *)
(* stays as it was.                                                         *)
FinishFails ==
    /\ server = "up" /\ recAt \in {"ok", "ready", "error", "cancelled"}
    /\ recAt \in {"ok", "ready"} => ~recCancel
    /\ storeFaults < MaxStoreFaults /\ storeFaults' = storeFaults + 1
    /\ recIntent' \in {recIntent, Put(recIntent, Outcome)}
    /\ Goes("release")
    /\ UNCHANGED <<server, removing, recRow, staging, scratch, recChild, capture, points,
                   world, removed, crashes>>

(* _save_record at the end: what was staged before a failure and is still   *)
(* there needs a cleanup; a job that failed before has no record to keep.   *)
SaveOutcome ==
    /\ RecIn("saveReady") \/ RecIn("saveError")
    /\ record' = Put(record, CASE recAt = "saveReady" -> "ready"
                               [] recAt = "saveError" /\ staged[current] # "none" -> "cleanup"
                               [] OTHER -> "error")
    /\ Goes("release")
    /\ UNCHANGED <<server, removing, recoveryRows, staged, size, counted, scratch, recChild,
                   capture, points, world, removed, recBounds>>

ReleaseLock ==
    /\ RecIn("release")
    /\ current' = NoJob /\ recAt' = "idle" /\ UNCHANGED <<recKind, recCancel>>
    /\ UNCHANGED <<server, removing, recoveryRows, staging, scratch, recChild, capture,
                   points, world, removed, recBounds>>

-----------------------------------------------------------------------------
(* Requests, outsiders, crashes and the start of the server.               *)

CancelRecovery ==
    /\ server = "up" /\ current # NoJob /\ ~recCancel /\ recCancel' = TRUE
    /\ UNCHANGED <<server, recAt, current, recKind, removing, recoveryRows, staging, scratch,
                   recChild, capture, points, world, removed, recBounds>>

(* remove_staging refuses what is running by the record or by the job.      *)
Removable(j) == record[j] \in {"ready", "cleanup", "error"} /\ recRow[j] # "running"

BeginRemoval(j) ==
    /\ LockFree /\ CleanupSafe /\ Removable(j)
    /\ removing' = j /\ removed' = removed \cup {j}
    /\ staged' = [staged EXCEPT ![j] = IF @ = "whole" THEN "part" ELSE @]
    /\ UNCHANGED <<server, recoveryJob, recoveryRows, record, size, counted, scratch,
                   recChild, capture, points, world, recBounds>>

EndRemoval ==
    /\ server = "up" /\ removing # NoJob
    /\ staged' = [staged EXCEPT ![removing] = "none"]
    /\ record' = [record EXCEPT ![removing] = "none"]
    /\ counted' = [counted EXCEPT ![removing] = 0]
    /\ removing' = NoJob
    /\ UNCHANGED <<server, recoveryJob, recoveryRows, size, scratch, recChild, capture,
                   points, world, removed, recBounds>>

TargetWritten(f) ==
    /\ target[f] <= MaxWritesOut /\ recAt \in {"inventory", "copy", "again"}
    /\ target' = [target EXCEPT ![f] = @ + 1] /\ moments' = moments \cup {target'}
    /\ UNCHANGED <<server, recoveryJob, removing, recoveryRows, staging, scratch, recChild,
                   capture, points, removed, recBounds>>

(* A child whose end was not confirmed, or whose server is gone, ends.      *)
LostChildEnds ==
    /\ recChild # NoJob /\ (recChild # current \/ recAt # "copy")
    /\ recChild' = NoJob
    /\ UNCHANGED <<server, recoveryJob, removing, recoveryRows, staging, scratch, capture,
                   points, world, removed, recBounds>>

Crash ==
    /\ server # "down" /\ crashes < MaxCrashes /\ crashes' = crashes + 1
    /\ server' = "down" /\ current' = NoJob /\ recAt' = "idle" /\ removing' = NoJob
    /\ recCancel' = FALSE /\ FreshCapture
    /\ UNCHANGED <<recKind, recoveryRows, staging, scratch, recChild, points, removed,
                   storeFaults>>

(* The start: pending outcomes first,                                       *)
BootReplay ==
    /\ server = "down" /\ server' = "reconcile"
    /\ recRow' = Replayed /\ recIntent' = [j \in RecJobs |-> "none"]
    /\ UNCHANGED <<recoveryJob, removing, staging, scratch, recChild, capture, points, world,
                   removed, recBounds>>

(* then the rows of dead jobs, unless a child of one still runs: in that    *)
(* case nothing is cleaned up in this life of the server.                   *)
BootReconcile ==
    /\ server = "reconcile"
    /\ IF CleanupSafe THEN server' = "staging" /\ recRow' = Staled(recRow)
       ELSE server' = "up" /\ UNCHANGED recRow
    /\ UNCHANGED <<recoveryJob, removing, recIntent, staging, scratch, recChild, capture,
                   points, world, removed, recBounds>>

(* Mutant: a job that does not run any more counts as done. *)
InterruptedRunning == {j \in RecJobs : record[j] = "running" /\ recRow[j] = "running"}

(* reconcile_staging: a record that still runs while its job is not ok.     *)
Interrupted == {j \in RecJobs : record[j] = "running" /\ recRow[j] # "ok"}

BootDelete ==
    /\ server = "staging"
    /\ staged' = [j \in RecJobs |-> IF j \in Interrupted THEN "none" ELSE staged[j]]
    /\ server' = "state"
    /\ UNCHANGED <<recoveryJob, removing, recoveryRows, record, size, counted, scratch,
                   recChild, capture, points, world, removed, recBounds>>

(* The records are written once; scratch directories with a receipt go.     *)
BootSave ==
    /\ server = "state" /\ server' = "up"
    /\ record' = [j \in RecJobs |-> IF record[j] # "running" THEN record[j]
                                    ELSE IF j \in Interrupted THEN "error" ELSE "ready"]
    /\ scratch' = [j \in RecJobs |-> IF scratch[j] = "known" THEN "none" ELSE scratch[j]]
    /\ UNCHANGED <<recoveryJob, removing, recoveryRows, staged, size, counted, recChild,
                   capture, points, world, removed, recBounds>>

RecThread ==
    \/ BeginRecovery \/ MakeScratch \/ Publish \/ PruneBegins \/ PruneEnds \/ Captured
    \/ \E f \in StoredFiles : TakeInventory(f) \/ CopyFile(f) \/ InventoryAgain(f)
    \/ BudgetFull \/ Announce \/ MakeStaged \/ Measure \/ SpawnCopy \/ CopyPoint \/ CopyDone
    \/ StepFails \/ CleanUp \/ LateCancel \/ FinishRecovery \/ FinishFails \/ SaveOutcome
    \/ ReleaseLock

RecBoot == BootReplay \/ BootReconcile \/ BootDelete \/ BootSave

RecNext ==
    \/ RecThread \/ RecBoot \/ StartRecovery \/ CancelRecovery \/ EndRemoval
    \/ LostChildEnds \/ Crash
    \/ \E j \in RecJobs : BeginRemoval(j)
    \/ \E f \in StoredFiles : TargetWritten(f)

RecSpec == RecInit /\ [][RecNext]_recVars

-----------------------------------------------------------------------------
(* Values of the variables, as the tables and the state file spell them.    *)
RecSteps    == Fallible \cup {"idle", "begin", "prune", "pruning", "budget", "failed", "ok",
                               "ready", "error", "cancelled", "saveReady", "saveError",
                               "release"}
RecKinds    == {"none", "capture", "full", "select"}
RecStatuses == {"none", "running", "ok", "error", "cancelled", "stale"}
RecIntents  == {"none", "ok", "error", "cancelled"}
RecStates   == {"none", "running", "ready", "error", "cleanup"}
Holdings    == {"none", "made", "part", "whole"}
Scratches   == {"none", "bare", "known"}
Snapshots   == [StoredFiles -> Nat]
Points      == [of : RecJobs \cup {NoJob}, whole : BOOLEAN, sound : BOOLEAN]

RecTypeOK ==
    /\ server \in {"up", "down", "reconcile", "staging", "state"}
    /\ recAt \in RecSteps /\ recCancel \in BOOLEAN
    /\ {current, removing, recChild} \subseteq RecJobs \cup {NoJob}
    /\ recKind \in [RecJobs -> RecKinds]
    /\ recRow \in [RecJobs -> RecStatuses] /\ recIntent \in [RecJobs -> RecIntents]
    /\ record \in [RecJobs -> RecStates] /\ staged \in [RecJobs -> Holdings]
    /\ size \in [RecJobs -> Nat] /\ counted \in [RecJobs -> Nat]
    /\ scratch \in [RecJobs -> Scratches]
    /\ {target, before, copied, again} \cup moments \subseteq Snapshots
    /\ points \subseteq Points /\ removed \subseteq RecJobs
    /\ crashes \in 0 .. MaxCrashes /\ storeFaults \in 0 .. MaxStoreFaults

(* A full point is the target as it was at one moment, file by file: what   *)
(* outsiders write while the capture lists, copies and lists again never    *)
(* ends in a mixture of two states.                                         *)
PointIsOneMoment == \A p \in points : p.sound

(* What the operator is shown as ready is complete and was verified, also   *)
(* after kills, failed saves, late outcomes and half deleted points.        *)
ReadyIsWhole ==
    \A j \in RecJobs : record[j] = "ready" /\ j \notin removed => staged[j] = "whole"

(* No directory is deleted while a child that may still write there lives.  *)
ChildKeepsItsPlace ==
    [][recChild # NoJob =>
          /\ staged[recChild] # "none" => staged'[recChild] # "none"
          /\ scratch[recChild] # "none" => scratch'[recChild] # "none"]_recVars

(* All staged data together stays within the budget: every directory that   *)
(* holds data has a record that counts, also after a failed cleanup.        *)
DiskWithinBudget ==
    Total(size, {j \in RecJobs : staged[j] \in {"part", "whole"}}) <= StagingLimit
=============================================================================
