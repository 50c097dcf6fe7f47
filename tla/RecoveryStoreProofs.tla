------------------------- MODULE RecoveryStoreProofs -------------------------
(***************************************************************************)
(* Machine-checked proofs about RecoveryStore, for any number of files,    *)
(* recoveries, writes of outsiders, kills and database faults.             *)
(*                                                                         *)
(* The inductive invariant is RecoveryInvariant.  The job that holds the   *)
(* lock is where its row, its record and its directory say it is           *)
(* (CurrentOK); a record that still runs though its job is ok, or will be  *)
(* once a stored outcome is replayed, belongs to a complete directory      *)
(* (RestoreOK); a child is that of the job that holds the lock, and while  *)
(* directories are removed there is none (PlaceOK); versions of files only *)
(* grow, so there is a moment between the copy and the second inventory at *)
(* which the target was what was copied (MomentOK).                        *)
(*                                                                         *)
(* The budget of the staging area needs an invariant of its own, BudgetOK: *)
(* the bytes counted for the records that are retained fit the limit, every *)
(* directory belongs to such a record and holds no more than it counts.     *)
(***************************************************************************)
EXTENDS RecoveryStore, FiniteSetTheorems, WellFoundedInduction, TLAPS

Capturing == {"workspace", "inventory", "again", "publish", "prune", "pruning", "ok"}
Restoring == {"budget", "announce", "mkdir", "measure", "ready", "saveReady", "saveError"}
Closing   == {"saveReady", "saveError", "release"}

FreshOK == \A j \in RecJobs : recRow[j] = "none" =>
              record[j] = "none" /\ staged[j] = "none" /\ recIntent[j] = "none"

CurrentOK ==
    /\ current = NoJob <=> recAt = "idle"
    /\ current # NoJob =>
          /\ server = "up"
          /\ recAt \notin Closing => recRow[current] = "running" /\ recIntent[current] = "none"
          /\ recRow[current] # "none" /\ recKind[current] # "none"
          /\ recAt # "release" => record[current] \in {"none", "running"}
          /\ recAt \in Capturing => recKind[current] = "capture"
          /\ recAt \in Restoring => recKind[current] # "capture"
          /\ recKind[current] = "capture" => record[current] = "none"
          /\ recAt \in {"ready", "saveReady"} => staged[current] = "whole"

RestoreOK == \A j \in RecJobs :
                record[j] = "running" /\ (recRow[j] = "ok" \/ recIntent[j] = "ok")
                    => staged[j] = "whole"

PlaceOK ==
    /\ current # NoJob /\ recChild # NoJob =>
          /\ recChild = current /\ recKind[current] # "full"
          /\ recAt \in {"copy", "failed", "error", "saveError", "release"}
    /\ removing # NoJob => current = NoJob /\ recChild = NoJob /\ server = "up"
    /\ server \in {"reconcile", "staging", "state"} => \A j \in RecJobs : recIntent[j] = "none"
    /\ server \in {"staging", "state"} => recChild = NoJob

(* The target at some time after the last file was copied.                 *)
Witness(m) ==
    \A f \in StoredFiles :
        /\ before[f] <= copied[f] /\ copied[f] <= m[f] /\ m[f] <= target[f]
        /\ again[f] # 0 => again[f] = before[f] /\ m[f] <= again[f]

MomentOK ==
    /\ target \in moments /\ \A f \in StoredFiles : target[f] # 0
    /\ recAt \notin {"inventory", "copy", "again", "publish", "failed"} =>
          before = Unread /\ copied = Unread
    /\ recAt = "copy" /\ recKind[current] # "capture" => before = Unread /\ copied = Unread
    /\ recAt \notin {"again", "publish", "failed"} => again = Unread
    /\ recAt = "inventory" => copied = Unread
    /\ recAt \in {"inventory", "copy"} =>
          \A f \in StoredFiles :
              /\ before[f] <= target[f]
              /\ copied[f] # 0 => before[f] <= copied[f] /\ copied[f] <= target[f]
    /\ recAt \in {"again", "publish"} => \E m \in moments : Witness(m)
    /\ recAt = "publish" => \A f \in StoredFiles : again[f] # 0

RecoveryInvariant ==
    /\ RecTypeOK /\ FreshOK /\ CurrentOK /\ RestoreOK /\ PlaceOK /\ MomentOK
    /\ ReadyIsWhole /\ PointIsOneMoment

-----------------------------------------------------------------------------
LEMMA RecNumbers ==
    /\ RecJobs \subseteq Nat /\ NoJob \notin RecJobs
    /\ StagingLimit \in Nat /\ MaxCrashes \in Nat /\ MaxStoreFaults \in Nat
BY RecoveryAssumptions DEF RecJobs, NoJob

LEMMA RecFacts ==
    ASSUME RecTypeOK
    PROVE  /\ current # NoJob => current \in RecJobs
           /\ removing # NoJob => removing \in RecJobs
           /\ recChild # NoJob => recChild \in RecJobs
           /\ recKind \in [RecJobs -> RecKinds] /\ recRow \in [RecJobs -> RecStatuses]
           /\ recIntent \in [RecJobs -> RecIntents] /\ record \in [RecJobs -> RecStates]
           /\ staged \in [RecJobs -> Holdings] /\ scratch \in [RecJobs -> Scratches]
           /\ size \in [RecJobs -> Nat] /\ counted \in [RecJobs -> Nat]
           /\ target \in Snapshots /\ before \in Snapshots
           /\ copied \in Snapshots /\ again \in Snapshots /\ moments \subseteq Snapshots
           /\ points \subseteq Points
BY DEF RecTypeOK

(* What happens to the rows when pending outcomes are replayed.            *)
LEMMA ReplayedIs ==
    ASSUME RecTypeOK
    PROVE  /\ Replayed \in [RecJobs -> RecStatuses]
           /\ Staled(Replayed) \in [RecJobs -> RecStatuses]
           /\ \A j \in RecJobs :
                 /\ Replayed[j] = "ok" => recRow[j] = "ok" \/ recIntent[j] = "ok"
                 /\ Replayed[j] = "none" => recRow[j] = "none"
                 /\ Staled(Replayed)[j] = "ok" => Replayed[j] = "ok"
                 /\ Staled(Replayed)[j] = "none" => Replayed[j] = "none"
BY RecFacts DEF Replayed, Staled, RecStatuses, RecIntents

LEMMA FreshCaptureIs ==
    ASSUME FreshCapture
    PROVE  /\ before' = Unread /\ copied' = Unread /\ again' = Unread
           /\ target' = Versions /\ moments' = {Versions} /\ target' \in moments'
           /\ Unread \in Snapshots /\ Versions \in Snapshots
BY DEF FreshCapture, Unread, Versions, Snapshots

(* The thread of a job leaves the rest of the server alone.                *)
LEMMA ThreadFrame ==
    ASSUME CurrentOK, RecThread
    PROVE  /\ server = "up" /\ server' = "up" /\ current # NoJob
           /\ UNCHANGED <<removing, recKind, recCancel, size, removed>>
           /\ current' = current \/ (current' = NoJob /\ recAt' = "idle")
<1>1. recAt # "idle" => current # NoJob /\ server = "up"
  BY DEF CurrentOK
<1>2. CASE \/ BeginRecovery \/ MakeScratch \/ Publish \/ PruneBegins \/ PruneEnds \/ Captured
           \/ BudgetFull \/ Announce \/ MakeStaged \/ Measure \/ SpawnCopy \/ CopyPoint
           \/ CopyDone \/ SaveOutcome \/ ReleaseLock \/ CleanUp
  BY <1>2 DEF BeginRecovery, MakeScratch, Publish, PruneBegins, PruneEnds, Captured, BudgetFull,
              Announce, MakeStaged, Measure, SpawnCopy, CopyPoint, CopyDone, SaveOutcome,
              ReleaseLock, CleanUp, RecIn, Goes, staging
<1>3. CASE \E f \in StoredFiles : TakeInventory(f) \/ CopyFile(f) \/ InventoryAgain(f)
  BY <1>3 DEF TakeInventory, CopyFile, InventoryAgain, RecIn, Goes, staging
<1>4. CASE StepFails \/ LateCancel \/ FinishRecovery \/ FinishFails
  BY <1>1, <1>4 DEF StepFails, LateCancel, FinishRecovery, FinishFails, Goes, staging, Fallible
<1> QED BY <1>2, <1>3, <1>4 DEF RecThread

-----------------------------------------------------------------------------
(* Every variable keeps its type.                                           *)
LEMMA ControlTypes ==
    ASSUME RecTypeOK, CurrentOK, [RecNext]_recVars
    PROVE  /\ server' \in {"up", "down", "reconcile", "staging", "state"}
           /\ recAt' \in RecSteps /\ recCancel' \in BOOLEAN
           /\ {current', removing', recChild'} \subseteq RecJobs \cup {NoJob}
           /\ recKind' \in [RecJobs -> RecKinds] /\ removed' \subseteq RecJobs
           /\ crashes' \in 0 .. MaxCrashes /\ storeFaults' \in 0 .. MaxStoreFaults
<1> DEFINE Typed ==
       /\ server' \in {"up", "down", "reconcile", "staging", "state"}
       /\ recAt' \in RecSteps /\ recCancel' \in BOOLEAN
       /\ {current', removing', recChild'} \subseteq RecJobs \cup {NoJob}
       /\ recKind' \in [RecJobs -> RecKinds] /\ removed' \subseteq RecJobs
       /\ crashes' \in 0 .. MaxCrashes /\ storeFaults' \in 0 .. MaxStoreFaults
<1>0. /\ server \in {"up", "down", "reconcile", "staging", "state"}
      /\ recAt \in RecSteps /\ recCancel \in BOOLEAN
      /\ current \in RecJobs \cup {NoJob} /\ removing \in RecJobs \cup {NoJob}
      /\ recChild \in RecJobs \cup {NoJob}
      /\ recKind \in [RecJobs -> RecKinds] /\ removed \subseteq RecJobs
      /\ crashes \in 0 .. MaxCrashes /\ storeFaults \in 0 .. MaxStoreFaults
      /\ MaxCrashes \in Nat /\ MaxStoreFaults \in Nat
  BY RecNumbers DEF RecTypeOK
<1>1. CASE RecThread
  <2>0. /\ server' = "up" /\ UNCHANGED <<removing, recKind, recCancel, removed>>
        /\ current' \in {current, NoJob}
    BY <1>1, ThreadFrame
  <2>1. /\ UNCHANGED crashes /\ storeFaults' \in 0 .. MaxStoreFaults
    <3>1. CASE FinishFails
      BY <1>0, <3>1 DEF FinishFails
    <3>2. CASE ~FinishFails
      BY <1>0, <1>1, <3>2
         DEF RecThread, BeginRecovery, MakeScratch, TakeInventory, CopyFile, InventoryAgain,
             Publish, PruneBegins, PruneEnds, Captured, BudgetFull, Announce, MakeStaged,
             Measure, SpawnCopy, CopyPoint, CopyDone, StepFails, CleanUp, LateCancel,
             FinishRecovery, SaveOutcome, ReleaseLock, recBounds
    <3> QED BY <3>1, <3>2
  <2>2. recAt' \in RecSteps
    <3>1. CASE \/ MakeScratch \/ Publish \/ PruneBegins \/ PruneEnds \/ Captured
               \/ BudgetFull \/ Announce \/ MakeStaged \/ Measure \/ SpawnCopy \/ CopyPoint
               \/ CopyDone \/ SaveOutcome \/ ReleaseLock \/ CleanUp
      BY <3>1 DEF MakeScratch, Publish, PruneBegins, PruneEnds, Captured, BudgetFull,
                  Announce, MakeStaged, Measure, SpawnCopy, CopyPoint, CopyDone, SaveOutcome,
                  ReleaseLock, CleanUp, Goes, RecSteps, Fallible
    <3>2. CASE \E f \in StoredFiles : TakeInventory(f) \/ CopyFile(f) \/ InventoryAgain(f)
      BY <3>2 DEF TakeInventory, CopyFile, InventoryAgain, Goes, RecSteps, Fallible
    <3>3. CASE StepFails \/ LateCancel \/ FinishRecovery \/ FinishFails
      BY <3>3 DEF StepFails, LateCancel, FinishRecovery, FinishFails, Goes, RecSteps
    <3>4. CASE BeginRecovery
      <4>1. current \in RecJobs /\ recKind[current] \in RecKinds /\ recKind[current] # "none"
        BY <3>4, RecFacts DEF BeginRecovery, RecIn, CurrentOK
      <4> QED BY <1>0, <3>4, <4>1 DEF BeginRecovery, Goes, RecSteps, Fallible, RecKinds
    <3> QED BY <1>1, <3>1, <3>2, <3>3, <3>4 DEF RecThread
  <2>3. recChild' \in {recChild, current, NoJob}
    BY <1>1
       DEF RecThread, BeginRecovery, MakeScratch, TakeInventory, CopyFile, InventoryAgain,
           Publish, PruneBegins, PruneEnds, Captured, BudgetFull, Announce, MakeStaged,
           Measure, SpawnCopy, CopyPoint, CopyDone, StepFails, CleanUp, LateCancel,
           FinishRecovery, FinishFails, SaveOutcome, ReleaseLock
  <2> QED BY <1>0, <2>0, <2>1, <2>2, <2>3
<1>2. CASE StartRecovery
  <2>1. PICK j \in RecJobs, k \in {"capture", "full", "select"} :
           current' = j /\ recKind' = [recKind EXCEPT ![j] = k]
    BY <1>2 DEF StartRecovery
  <2>2. /\ recAt' = "begin" /\ recCancel' = FALSE
        /\ UNCHANGED <<server, removing, recChild, removed, crashes, storeFaults>>
    BY <1>2 DEF StartRecovery, recBounds
  <2> QED BY <1>0, <2>1, <2>2 DEF RecSteps, RecKinds
<1>3. CASE CancelRecovery \/ EndRemoval \/ LostChildEnds
  BY <1>0, <1>3 DEF CancelRecovery, EndRemoval, LostChildEnds, recoveryJob, recBounds
<1>4. CASE \E j \in RecJobs : BeginRemoval(j)
  BY <1>0, <1>4 DEF BeginRemoval, recoveryJob, recBounds
<1>5. CASE RecBoot \/ \E f \in StoredFiles : TargetWritten(f)
  BY <1>0, <1>5
     DEF RecBoot, BootReplay, BootReconcile, BootDelete, BootSave, TargetWritten, recoveryJob,
         recBounds
<1>6. CASE Crash
  <2>1. crashes' \in 0 .. MaxCrashes
    BY <1>0, <1>6 DEF Crash
  <2>2. /\ server' = "down" /\ current' = NoJob /\ recAt' = "idle" /\ removing' = NoJob
        /\ recCancel' = FALSE /\ UNCHANGED <<recKind, recChild, removed, storeFaults>>
    BY <1>6 DEF Crash
  <2> QED BY <1>0, <2>1, <2>2 DEF RecSteps
<1>7. CASE UNCHANGED recVars
  BY <1>0, <1>7 DEF recVars, recoveryJob, recBounds
<1> HIDE DEF Typed
<1> QED BY <1>1, <1>2, <1>3, <1>4, <1>5, <1>6, <1>7 DEF RecNext, Typed

LEMMA StoreTypes ==
    ASSUME RecTypeOK, CurrentOK, [RecNext]_recVars
    PROVE  /\ recRow' \in [RecJobs -> RecStatuses] /\ recIntent' \in [RecJobs -> RecIntents]
           /\ record' \in [RecJobs -> RecStates] /\ staged' \in [RecJobs -> Holdings]
           /\ size' \in [RecJobs -> Nat] /\ counted' \in [RecJobs -> Nat]
           /\ scratch' \in [RecJobs -> Scratches]
<1> DEFINE Typed ==
       /\ recRow' \in [RecJobs -> RecStatuses] /\ recIntent' \in [RecJobs -> RecIntents]
       /\ record' \in [RecJobs -> RecStates] /\ staged' \in [RecJobs -> Holdings]
       /\ size' \in [RecJobs -> Nat] /\ counted' \in [RecJobs -> Nat]
       /\ scratch' \in [RecJobs -> Scratches]
<1>0. /\ recRow \in [RecJobs -> RecStatuses] /\ recIntent \in [RecJobs -> RecIntents]
      /\ record \in [RecJobs -> RecStates] /\ staged \in [RecJobs -> Holdings]
      /\ size \in [RecJobs -> Nat] /\ counted \in [RecJobs -> Nat]
      /\ scratch \in [RecJobs -> Scratches] /\ current \in RecJobs \cup {NoJob}
      /\ (current # NoJob => size[current] \in Nat) /\ 0 \in Nat
  BY RecFacts DEF RecTypeOK
<1>v. /\ \A s \in {"none", "bare", "known"} : s \in Scratches
      /\ \A s \in {"none", "made", "part", "whole"} : s \in Holdings
      /\ \A s \in {"none", "running", "ready", "error", "cleanup"} : s \in RecStates
      /\ \A s \in {"none", "running", "ok", "error", "cancelled", "stale"} : s \in RecStatuses
      /\ \A s \in {"none", "ok", "error", "cancelled"} : s \in RecIntents
  BY DEF Scratches, Holdings, RecStates, RecStatuses, RecIntents
<1>1. CASE \/ BeginRecovery \/ Publish \/ PruneBegins \/ PruneEnds \/ StepFails \/ LateCancel
           \/ ReleaseLock \/ CancelRecovery \/ LostChildEnds \/ Crash
           \/ (\E f \in StoredFiles : \/ TakeInventory(f) \/ CopyFile(f) \/ InventoryAgain(f)
                                      \/ TargetWritten(f))
           \/ UNCHANGED recVars
  <2>1. UNCHANGED <<recoveryRows, staging, scratch>>
    BY <1>1 DEF BeginRecovery, Publish, PruneBegins, PruneEnds, StepFails, LateCancel,
                ReleaseLock, CancelRecovery, LostChildEnds, Crash, TakeInventory, CopyFile,
                InventoryAgain, TargetWritten, recVars
  <2> QED BY <1>0, <2>1 DEF recoveryRows, staging
<1>2. CASE MakeScratch \/ Captured
  <2>1. /\ UNCHANGED <<recoveryRows, staging>>
        /\ scratch' \in {Put(scratch, "none"), Put(scratch, "bare"), Put(scratch, "known")}
    BY <1>2 DEF MakeScratch, Captured
  <2> QED BY <1>0, <1>v, <2>1 DEF recoveryRows, staging, Put
<1>3. CASE BudgetFull \/ Announce \/ Measure
  <2>1. /\ UNCHANGED <<recoveryRows, staged, size, scratch>>
        /\ record' = record \/ record' = Put(record, "running")
        /\ counted' \in {counted, Put(counted, 0), Put(counted, size[current])}
    BY <1>3 DEF BudgetFull, Announce, Measure, SaveRecord
  <2>2. current # NoJob
    BY <1>3 DEF BudgetFull, Announce, Measure, RecIn
  <2> QED BY <1>0, <1>v, <2>1, <2>2 DEF recoveryRows, Put
<1>4. CASE MakeStaged \/ SpawnCopy \/ CopyPoint \/ CopyDone
  <2>1. /\ UNCHANGED <<recoveryRows, record, size, counted, scratch>>
        /\ \/ UNCHANGED staged
           \/ \E s \in {"made", "part", "whole"} : staged' = Put(staged, s)
    BY <1>4 DEF MakeStaged, SpawnCopy, CopyPoint, CopyDone
  <2> QED BY <1>0, <1>v, <2>1 DEF recoveryRows, Put
<1>5. CASE CleanUp
  <2>1. /\ UNCHANGED <<recoveryRows, record, size, counted>>
        /\ scratch' \in {scratch, Put(scratch, "none")}
        /\ staged' \in {staged, Put(staged, "none")}
    BY <1>5 DEF CleanUp
  <2> QED BY <1>0, <1>v, <2>1 DEF recoveryRows, Put
<1>6. CASE FinishRecovery \/ FinishFails
  <2>1. Outcome \in {"ok", "error", "cancelled"}
    BY <1>6 DEF FinishRecovery, FinishFails, Outcome
  <2>2. /\ UNCHANGED <<staging, scratch>>
        /\ recRow' \in {recRow, Put(recRow, Outcome)}
        /\ recIntent' \in {recIntent, Put(recIntent, Outcome)}
    BY <1>6 DEF FinishRecovery, FinishFails
  <2> QED BY <1>0, <1>v, <2>1, <2>2 DEF staging, Put
<1>7. CASE SaveOutcome
  <2>1. /\ UNCHANGED <<recoveryRows, staged, size, counted, scratch>>
        /\ \E s \in {"ready", "cleanup", "error"} : record' = Put(record, s)
    BY <1>7 DEF SaveOutcome
  <2>2. record' \in [RecJobs -> RecStates]
    <3>1. PICK s \in {"ready", "cleanup", "error"} : record' = [record EXCEPT ![current] = s]
      BY <2>1 DEF Put
    <3>2. s \in RecStates
      BY <1>v
    <3> QED BY <1>0, <3>1, <3>2
  <2> QED BY <1>0, <2>1, <2>2 DEF recoveryRows
<1>8. CASE StartRecovery
  <2>1. PICK j \in RecJobs, n \in {1, 2} :
           /\ size' = [size EXCEPT ![j] = n]
           /\ recRow' = [Staled(Replayed) EXCEPT ![j] = "running"]
    BY <1>8 DEF StartRecovery
  <2>2. /\ recIntent' = [i \in RecJobs |-> "none"]
        /\ UNCHANGED <<record, staged, counted, scratch>>
    BY <1>8 DEF StartRecovery
  <2> QED BY <1>0, <1>v, <2>1, <2>2, ReplayedIs
<1>9. CASE EndRemoval \/ \E j \in RecJobs : BeginRemoval(j)
  <2>1. /\ UNCHANGED <<recoveryRows, size, scratch>>
        /\ UNCHANGED record \/ record' = [record EXCEPT ![removing] = "none"]
        /\ UNCHANGED counted \/ counted' = [counted EXCEPT ![removing] = 0]
        /\ \/ UNCHANGED staged
           \/ staged' = [staged EXCEPT ![removing] = "none"]
           \/ \E j \in RecJobs : \E s \in {staged[j], "part"} : staged' = [staged EXCEPT ![j] = s]
    BY <1>9 DEF EndRemoval, BeginRemoval
  <2> QED BY <1>0, <1>v, <2>1 DEF recoveryRows
<1>10. CASE RecBoot
  <2>1. CASE BootReplay
    BY <1>0, <1>v, <2>1, ReplayedIs DEF BootReplay, staging
  <2>2. CASE BootReconcile
    <3>1. /\ UNCHANGED <<recIntent, staging, scratch>>
          /\ UNCHANGED recRow \/ recRow' = Staled(recRow)
      BY <2>2 DEF BootReconcile
    <3>2. Staled(recRow) \in [RecJobs -> RecStatuses]
      BY <1>0, <1>v DEF Staled
    <3> QED BY <1>0, <3>1, <3>2 DEF staging
  <2>3. CASE BootDelete
    BY <1>0, <1>v, <2>3 DEF BootDelete, recoveryRows
  <2>4. CASE BootSave
    BY <1>0, <1>v, <2>4 DEF BootSave, recoveryRows
  <2> QED BY <1>10, <2>1, <2>2, <2>3, <2>4 DEF RecBoot
<1> HIDE DEF Typed
<1> QED
  BY <1>1, <1>2, <1>3, <1>4, <1>5, <1>6, <1>7, <1>8, <1>9, <1>10 DEF RecNext, RecThread, Typed

LEMMA CaptureTypes ==
    ASSUME RecTypeOK, [RecNext]_recVars
    PROVE  /\ {target', before', copied', again'} \cup moments' \subseteq Snapshots
           /\ points' \subseteq Points
<1>0. /\ target \in Snapshots /\ before \in Snapshots /\ copied \in Snapshots
      /\ again \in Snapshots /\ moments \subseteq Snapshots /\ points \subseteq Points
      /\ current \in RecJobs \cup {NoJob}
      /\ \A f \in StoredFiles : target[f] \in Nat /\ target[f] + 1 \in Nat
  <2>1. /\ target \in Snapshots /\ before \in Snapshots /\ copied \in Snapshots
        /\ again \in Snapshots /\ moments \subseteq Snapshots /\ points \subseteq Points
    BY RecFacts
  <2>2. current \in RecJobs \cup {NoJob}
    BY RecFacts
  <2>3. \A f \in StoredFiles : target[f] \in Nat
    BY <2>1 DEF Snapshots
  <2>4. \A n \in Nat : n + 1 \in Nat
    OBVIOUS
  <2> QED BY <2>1, <2>2, <2>3, <2>4
<1>1. \/ UNCHANGED <<target, moments, before, copied, again>>
      \/ FreshCapture
      \/ /\ UNCHANGED <<target, moments>>
         /\ \E f \in StoredFiles : /\ before' \in {before, [before EXCEPT ![f] = target[f]]}
                                   /\ copied' \in {copied, [copied EXCEPT ![f] = target[f]]}
                                   /\ again' \in {again, [again EXCEPT ![f] = target[f]]}
      \/ \E f \in StoredFiles : /\ target' = [target EXCEPT ![f] = target[f] + 1]
                                /\ moments' = moments \cup {target'}
                                /\ UNCHANGED <<before, copied, again>>
  <2>1. CASE RecThread
    BY <2>1 DEF RecThread, BeginRecovery, MakeScratch, TakeInventory, CopyFile, InventoryAgain,
                Publish, PruneBegins, PruneEnds, Captured, BudgetFull, Announce, MakeStaged,
                Measure, SpawnCopy, CopyPoint, CopyDone, StepFails, CleanUp, LateCancel,
                FinishRecovery, FinishFails, SaveOutcome, ReleaseLock, capture, world
  <2>2. CASE ~RecThread
    BY <2>2 DEF RecNext, RecBoot, BootReplay, BootReconcile, BootDelete, BootSave,
                StartRecovery, CancelRecovery, EndRemoval, LostChildEnds, Crash, BeginRemoval,
                TargetWritten, capture, world, recVars
  <2> QED BY <2>1, <2>2
<1>2. {target', before', copied', again'} \cup moments' \subseteq Snapshots
  BY <1>0, <1>1, FreshCaptureIs DEF Snapshots
<1>3. points' \subseteq Points
  <2>1. CASE Publish
    <3>1. \A x \in BOOLEAN : [of |-> current, whole |-> TRUE, sound |-> x] \in Points
      <4>1. current \in RecJobs \cup {NoJob}
        BY <1>0
      <4> QED BY <4>1 DEF Points
    <3>2. points' = points \cup {[of |-> current, whole |-> TRUE, sound |-> copied \in moments]}
      BY <2>1, Zenon DEF Publish
    <3>3. (copied \in moments) \in BOOLEAN
      OBVIOUS
    <3>4. [of |-> current, whole |-> TRUE, sound |-> copied \in moments] \in Points
      BY <3>1, <3>3, Zenon
    <3> HIDE DEF Points
    <3> QED BY <1>0, <3>2, <3>4, Zenon
  <2>2. CASE PruneBegins
    <3>1. PICK p \in points : points' = (points \ {p}) \cup {[p EXCEPT !.whole = FALSE]}
      BY <2>2 DEF PruneBegins
    <3>2. p \in Points
      BY <1>0
    <3>3. [p EXCEPT !.whole = FALSE] \in Points
      BY <3>2 DEF Points
    <3> QED BY <1>0, <3>1, <3>3
  <2>3. CASE ~(Publish \/ PruneBegins)
    <3>1. points' \subseteq points
      BY <2>3 DEF RecThread, BeginRecovery, MakeScratch, TakeInventory, CopyFile,
                  InventoryAgain, Captured, PruneEnds, BudgetFull, Announce, MakeStaged,
                  Measure, SpawnCopy, CopyPoint, CopyDone, StepFails, CleanUp, LateCancel,
                  FinishRecovery, FinishFails, SaveOutcome, ReleaseLock, RecNext, RecBoot,
                  BootReplay, BootReconcile, BootDelete, BootSave, StartRecovery,
                  CancelRecovery, EndRemoval, LostChildEnds, Crash, BeginRemoval,
                  TargetWritten, recVars
    <3> QED BY <1>0, <3>1
  <2> QED BY <2>1, <2>2, <2>3
<1> QED BY <1>2, <1>3

LEMMA RecTypeStep ==
    ASSUME RecTypeOK, CurrentOK, [RecNext]_recVars
    PROVE  RecTypeOK'
BY ControlTypes, StoreTypes, CaptureTypes DEF RecTypeOK

-----------------------------------------------------------------------------
(* The job that holds the lock.                                             *)
LEMMA OthersKept ==
    ASSUME RecTypeOK, CurrentOK, RecThread
    PROVE  /\ \A j \in RecJobs : j # current =>
                 /\ recRow'[j] = recRow[j] /\ recIntent'[j] = recIntent[j]
                 /\ record'[j] = record[j] /\ staged'[j] = staged[j]
                 /\ scratch'[j] = scratch[j]
           /\ recRow'[current] = recRow[current] \/ recRow'[current] # "none"
<1>0. /\ current \in RecJobs
      /\ recRow \in [RecJobs -> RecStatuses] /\ recIntent \in [RecJobs -> RecIntents]
      /\ record \in [RecJobs -> RecStates] /\ staged \in [RecJobs -> Holdings]
      /\ scratch \in [RecJobs -> Scratches]
  BY ThreadFrame, RecFacts
<1>1. /\ recRow' = recRow \/ \E s \in {"ok", "error", "cancelled"} : recRow' = Put(recRow, s)
      /\ recIntent' = recIntent \/ \E s : recIntent' = Put(recIntent, s)
      /\ record' = record \/ \E s : record' = Put(record, s)
      /\ staged' = staged \/ \E s : staged' = Put(staged, s)
      /\ scratch' = scratch \/ \E s : scratch' = Put(scratch, s)
  <2>1. CASE FinishRecovery \/ FinishFails
    <3>1. Outcome \in {"ok", "error", "cancelled"}
      BY <2>1 DEF FinishRecovery, FinishFails, Outcome
    <3> QED BY <2>1, <3>1 DEF FinishRecovery, FinishFails, staging
  <2>2. CASE BudgetFull \/ Announce \/ Measure \/ SaveOutcome
    BY <2>2 DEF BudgetFull, Announce, Measure, SaveOutcome, SaveRecord, recoveryRows
  <2>3. CASE MakeStaged \/ SpawnCopy \/ CopyPoint \/ CopyDone \/ MakeScratch \/ Captured \/ CleanUp
    BY <2>3 DEF MakeStaged, SpawnCopy, CopyPoint, CopyDone, MakeScratch, Captured, CleanUp,
                recoveryRows, staging
  <2>4. CASE \/ BeginRecovery \/ Publish \/ PruneBegins \/ PruneEnds \/ StepFails \/ LateCancel
             \/ ReleaseLock
             \/ \E f \in StoredFiles : TakeInventory(f) \/ CopyFile(f) \/ InventoryAgain(f)
    BY <2>4 DEF BeginRecovery, Publish, PruneBegins, PruneEnds, StepFails, LateCancel,
                ReleaseLock, TakeInventory, CopyFile, InventoryAgain, recoveryRows, staging
  <2> QED BY <2>1, <2>2, <2>3, <2>4 DEF RecThread
<1> QED BY <1>0, <1>1 DEF Put

(* What is known of the directory of the current job, at the next state.   *)
OwnWhole == /\ record'[current] = "running"
                  /\ (recRow'[current] = "ok" \/ recIntent'[current] = "ok")
                     => staged'[current] = "whole"
            /\ record'[current] = "ready" /\ current \notin removed => staged'[current] = "whole"

LEMMA ThreadJob ==
    ASSUME RecTypeOK, CurrentOK, RestoreOK, ReadyIsWhole, RecThread
    PROVE  CurrentOK' /\ OwnWhole
<1>0. /\ current \in RecJobs /\ current # NoJob /\ server = "up" /\ server' = "up"
      /\ UNCHANGED <<recKind, removed>>
      /\ recRow \in [RecJobs -> RecStatuses] /\ recIntent \in [RecJobs -> RecIntents]
      /\ record \in [RecJobs -> RecStates] /\ staged \in [RecJobs -> Holdings]
      /\ recAt # "idle"
  BY ThreadFrame, RecFacts DEF CurrentOK
<1>1. CASE \/ BeginRecovery \/ MakeScratch \/ Publish \/ PruneBegins \/ PruneEnds \/ Captured
           \/ StepFails \/ LateCancel
           \/ \E f \in StoredFiles : TakeInventory(f) \/ CopyFile(f) \/ InventoryAgain(f)
  <2>1. /\ UNCHANGED <<current, recRow, recIntent, record, staged>>
        /\ recAt \notin Closing /\ recAt' \notin Closing
        /\ recAt' \notin {"idle", "ready", "saveReady"}
        /\ recAt' \in Capturing => recKind[current] = "capture"
        /\ recAt' \in Restoring => recKind[current] # "capture"
    <3>1. CASE BeginRecovery
      <4>1. recKind[current] \in {"capture", "full", "select"}
        BY <1>0, RecFacts DEF CurrentOK, RecKinds
      <4>2. /\ UNCHANGED <<current, recRow, recIntent, record, staged>> /\ recAt = "begin"
            /\ \/ recAt' = "cancelled"
               \/ recAt' = "workspace" /\ recKind[current] = "capture"
               \/ recAt' \in {"budget", "announce"} /\ recKind[current] # "capture"
        BY <3>1, <4>1 DEF BeginRecovery, RecIn, Goes, recoveryRows, staging
      <4> QED BY <4>2 DEF Closing, Capturing, Restoring
    <3>2. CASE \/ MakeScratch \/ Publish \/ PruneBegins \/ PruneEnds \/ Captured
               \/ StepFails \/ LateCancel
      BY <1>0, <3>2 DEF MakeScratch, Publish, PruneBegins, PruneEnds, Captured, StepFails,
                        LateCancel, RecIn, Goes, recoveryRows, staging, Closing, Capturing,
                        Restoring, CurrentOK, Fallible
    <3>3. CASE \E f \in StoredFiles : TakeInventory(f) \/ CopyFile(f) \/ InventoryAgain(f)
      BY <1>0, <3>3 DEF TakeInventory, CopyFile, InventoryAgain, RecIn, Goes, recoveryRows,
                        staging, Closing, Capturing, Restoring, CurrentOK
    <3> QED BY <1>1, <3>1, <3>2, <3>3
  <2> QED BY <1>0, <2>1 DEF CurrentOK, OwnWhole, RestoreOK, ReadyIsWhole, Closing
<1>2. CASE ReleaseLock
  <2>1. /\ current' = NoJob /\ recAt' = "idle" /\ UNCHANGED <<recRow, recIntent, record, staged>>
    BY <1>2 DEF ReleaseLock, recoveryRows, staging
  <2> QED BY <1>0, <2>1 DEF CurrentOK, OwnWhole, RestoreOK, ReadyIsWhole
<1>3. CASE BudgetFull \/ Announce \/ Measure
  <2>1. /\ recAt \in {"budget", "announce", "measure"} /\ recAt' \in {"mkdir", "copy", "failed"}
        /\ UNCHANGED <<current, recRow, recIntent, staged>>
        /\ record' = record \/ record' = Put(record, "running")
    BY <1>3 DEF BudgetFull, Announce, Measure, RecIn, Goes, recoveryRows, SaveRecord
  <2>2. record'[current] \in {"none", "running"}
    BY <1>0, <2>1 DEF CurrentOK, Put
  <2> QED BY <1>0, <2>1, <2>2 DEF CurrentOK, OwnWhole, Closing, Capturing, Restoring
<1>4. CASE MakeStaged \/ SpawnCopy \/ CopyPoint \/ CopyDone
  <2>1. /\ recAt \in {"mkdir", "copy"} /\ recAt' \in {"copy", "measure", "failed", "ready"}
        /\ UNCHANGED <<current, recRow, recIntent, record>>
        /\ recAt' \in {"measure", "ready"} => recKind[current] # "capture"
        /\ recAt' = "ready" => staged' = Put(staged, "whole")
    BY <1>0, <1>4 DEF MakeStaged, SpawnCopy, CopyPoint, CopyDone, RecIn, Goes, recoveryRows,
                      CurrentOK, Restoring
  <2>2. recAt' = "ready" => staged'[current] = "whole"
    BY <1>0, <2>1 DEF Put
  <2> QED BY <1>0, <2>1, <2>2 DEF CurrentOK, OwnWhole, Closing, Capturing, Restoring
<1>5. CASE CleanUp
  <2>1. /\ recAt = "failed" /\ recAt' = "error"
        /\ UNCHANGED <<current, recRow, recIntent, record>>
    BY <1>5 DEF CleanUp, RecIn, Goes, recoveryRows
  <2> QED BY <1>0, <2>1 DEF CurrentOK, OwnWhole, Closing, Capturing, Restoring
<1>6. CASE FinishRecovery \/ FinishFails
  <2>1. /\ recAt \in {"ok", "ready", "error", "cancelled"}
        /\ recAt' \in Closing /\ UNCHANGED <<current, record, staged>>
        /\ recRow' = recRow \/ recRow' = Put(recRow, Outcome)
        /\ recIntent' = recIntent \/ recIntent' = Put(recIntent, Outcome)
        /\ recAt' = "saveReady" => recAt = "ready" /\ recKind[current] # "capture"
        /\ recAt' = "saveError" => recKind[current] # "capture"
    BY <1>6 DEF FinishRecovery, FinishFails, Goes, Closing, staging
  <2>2. /\ Outcome \in {"ok", "error", "cancelled"}
        /\ Outcome = "ok" => recAt \in {"ok", "ready"}
    BY <2>1 DEF Outcome
  <2>3. recRow'[current] \in {recRow[current], Outcome}
        /\ recIntent'[current] \in {recIntent[current], Outcome}
    BY <1>0, <2>1 DEF Put
  <2>4. /\ recRow[current] = "running" /\ recIntent[current] = "none"
        /\ record[current] \in {"none", "running"}
        /\ recAt = "ok" => record[current] = "none"
        /\ recAt = "ready" => staged[current] = "whole"
        /\ recKind[current] # "none" /\ (recKind[current] = "capture" => record[current] = "none")
    BY <1>0, <2>1 DEF CurrentOK, Closing, Capturing
  <2>5. OwnWhole
    BY <2>1, <2>2, <2>3, <2>4 DEF OwnWhole
  <2>6. recRow'[current] # "none"
    BY <2>2, <2>3, <2>4
  <2> QED BY <1>0, <2>1, <2>4, <2>5, <2>6 DEF CurrentOK, Closing, Capturing, Restoring
<1>7. CASE SaveOutcome
  <2>1. /\ recAt \in {"saveReady", "saveError"} /\ recAt' = "release"
        /\ UNCHANGED <<current, recRow, recIntent, staged>>
        /\ \E s \in {"ready", "cleanup", "error"} :
              record' = Put(record, s) /\ (s = "ready" => recAt = "saveReady")
    BY <1>7 DEF SaveOutcome, RecIn, Goes, recoveryRows
  <2>2. /\ record'[current] \in {"ready", "cleanup", "error"}
        /\ record'[current] = "ready" => recAt = "saveReady"
    BY <1>0, <2>1 DEF Put
  <2>3. /\ recKind[current] # "capture" /\ recKind[current] # "none" /\ recRow[current] # "none"
        /\ recAt = "saveReady" => staged[current] = "whole"
    BY <1>0, <2>1 DEF CurrentOK, Restoring
  <2> QED BY <1>0, <2>1, <2>2, <2>3 DEF CurrentOK, OwnWhole, Closing, Capturing, Restoring
<1> QED BY <1>1, <1>2, <1>3, <1>4, <1>5, <1>6, <1>7 DEF RecThread

(* A child, a removal and a start of the server exclude each other.        *)
LEMMA PlaceStep ==
    ASSUME RecTypeOK, CurrentOK, PlaceOK, [RecNext]_recVars
    PROVE  PlaceOK'
<1>0. /\ current \in RecJobs \cup {NoJob} /\ recChild \in RecJobs \cup {NoJob}
      /\ removing \in RecJobs \cup {NoJob}
  BY DEF RecTypeOK
<1>1. CASE RecThread
  <2>0. /\ server' = "up" /\ current # NoJob /\ removing' = NoJob /\ recKind' = recKind
        /\ current' = current \/ current' = NoJob
    BY <1>1, ThreadFrame DEF PlaceOK
  <2>1. current' # NoJob /\ recChild' # NoJob =>
           /\ recChild' = current' /\ recKind[current] # "full"
           /\ recAt' \in {"copy", "failed", "error", "saveError", "release"}
    <3>1. CASE \/ BeginRecovery \/ MakeScratch \/ Publish \/ PruneBegins \/ PruneEnds \/ Captured
               \/ BudgetFull \/ Announce \/ MakeStaged \/ Measure \/ CopyPoint \/ LateCancel
               \/ \E f \in StoredFiles : TakeInventory(f) \/ InventoryAgain(f)
      <4>1. recChild' = recChild
        BY <3>1 DEF BeginRecovery, MakeScratch, Publish, PruneBegins, PruneEnds, Captured,
                    BudgetFull, Announce, MakeStaged, Measure, CopyPoint, LateCancel,
                    TakeInventory, InventoryAgain
      <4>2. recAt \in {"failed", "error", "saveError", "release"} => FALSE
        BY <3>1 DEF BeginRecovery, MakeScratch, Publish, PruneBegins, PruneEnds, Captured,
                    BudgetFull, Announce, MakeStaged, Measure, CopyPoint, LateCancel,
                    TakeInventory, InventoryAgain, RecIn
      <4>3. recAt = "copy" => recKind[current] = "full"
        BY <3>1 DEF BeginRecovery, MakeScratch, Publish, PruneBegins, PruneEnds, Captured,
                    BudgetFull, Announce, MakeStaged, Measure, CopyPoint, LateCancel,
                    TakeInventory, InventoryAgain, RecIn
      <4> QED BY <2>0, <4>1, <4>2, <4>3 DEF PlaceOK
    <3>2. CASE CopyDone \/ \E f \in StoredFiles : CopyFile(f)
      BY <2>0, <3>2 DEF CopyDone, CopyFile, RecIn, Goes, PlaceOK
    <3>3. CASE SpawnCopy
      BY <2>0, <3>3 DEF SpawnCopy, RecIn, Goes
    <3>4. CASE StepFails \/ CleanUp
      BY <2>0, <3>4 DEF StepFails, CleanUp, RecIn, Goes, PlaceOK
    <3>5. CASE FinishRecovery \/ FinishFails
      BY <2>0, <3>5 DEF FinishRecovery, FinishFails, Goes, PlaceOK
    <3>6. CASE SaveOutcome \/ ReleaseLock
      BY <2>0, <3>6 DEF SaveOutcome, ReleaseLock, RecIn, Goes, PlaceOK
    <3> QED BY <1>1, <3>1, <3>2, <3>3, <3>4, <3>5, <3>6 DEF RecThread
  <2> QED BY <2>0, <2>1 DEF PlaceOK
<1>2. CASE StartRecovery
  <2>1. /\ server = "up" /\ UNCHANGED <<server, removing, recChild>> /\ removing = NoJob
        /\ recChild = NoJob
    BY <1>2 DEF StartRecovery, LockFree
  <2> QED BY <2>1 DEF PlaceOK
<1>3. CASE CancelRecovery \/ UNCHANGED recVars
  BY <1>3 DEF CancelRecovery, recVars, recoveryJob, recoveryRows, PlaceOK
<1>4. CASE EndRemoval
  BY <1>4 DEF EndRemoval, recoveryJob, PlaceOK
<1>5. CASE LostChildEnds
  BY <1>5 DEF LostChildEnds, recoveryJob, recoveryRows, PlaceOK
<1>6. CASE \E j \in RecJobs : BeginRemoval(j)
  BY <1>6 DEF BeginRemoval, LockFree, CleanupSafe, recoveryJob, PlaceOK
<1>7. CASE \E f \in StoredFiles : TargetWritten(f)
  <2>1. /\ UNCHANGED <<server, current, recAt, recKind, removing, recIntent, recChild>>
    BY <1>7 DEF TargetWritten, recoveryJob, recoveryRows
  <2> QED BY <2>1 DEF PlaceOK
<1>8. CASE Crash
  BY <1>8 DEF Crash, PlaceOK
<1>9. CASE RecBoot
  <2>0. server # "up" /\ UNCHANGED <<current, removing, recChild, recKind, recAt>>
    BY <1>9 DEF RecBoot, BootReplay, BootReconcile, BootDelete, BootSave, recoveryJob
  <2>1. removing = NoJob /\ current = NoJob
    BY <2>0 DEF PlaceOK, CurrentOK
  <2>2. CASE BootReplay
    BY <2>0, <2>1, <2>2 DEF BootReplay, PlaceOK
  <2>3. CASE BootReconcile
    BY <2>0, <2>1, <2>3 DEF BootReconcile, CleanupSafe, PlaceOK
  <2>4. CASE BootDelete \/ BootSave
    BY <2>0, <2>1, <2>4 DEF BootDelete, BootSave, recoveryRows, PlaceOK
  <2> QED BY <1>9, <2>2, <2>3, <2>4 DEF RecBoot
<1> QED BY <1>1, <1>2, <1>3, <1>4, <1>5, <1>6, <1>7, <1>8, <1>9 DEF RecNext

(* The records of all jobs.                                                *)
RecordsOK == FreshOK /\ CurrentOK /\ RestoreOK /\ ReadyIsWhole

LEMMA RecordsStep ==
    ASSUME RecTypeOK, RecordsOK, PlaceOK, [RecNext]_recVars
    PROVE  RecordsOK'
<1>0. /\ FreshOK /\ CurrentOK /\ RestoreOK /\ ReadyIsWhole
      /\ recRow \in [RecJobs -> RecStatuses] /\ recIntent \in [RecJobs -> RecIntents]
      /\ record \in [RecJobs -> RecStates] /\ staged \in [RecJobs -> Holdings]
      /\ recKind \in [RecJobs -> RecKinds]
      /\ (current # NoJob => current \in RecJobs) /\ (removing # NoJob => removing \in RecJobs)
      /\ NoJob \notin RecJobs
  BY RecFacts, RecNumbers DEF RecordsOK
<1>1. CASE RecThread
  <2>0. removed' = removed /\ current # NoJob
    BY <1>0, <1>1, ThreadFrame
  <2>1. /\ \A j \in RecJobs : j # current =>
              /\ recRow'[j] = recRow[j] /\ recIntent'[j] = recIntent[j]
              /\ record'[j] = record[j] /\ staged'[j] = staged[j]
        /\ recRow'[current] = recRow[current] \/ recRow'[current] # "none"
    BY <1>0, <1>1, OthersKept
  <2>2. CurrentOK' /\ OwnWhole
    BY <1>0, <1>1, ThreadJob
  <2>3. FreshOK'
    BY <1>0, <2>0, <2>1 DEF FreshOK, CurrentOK
  <2>4. RestoreOK'
    BY <1>0, <2>1, <2>2 DEF RestoreOK, OwnWhole
  <2>5. ReadyIsWhole'
    BY <1>0, <2>0, <2>1, <2>2 DEF ReadyIsWhole, OwnWhole
  <2> QED BY <2>2, <2>3, <2>4, <2>5 DEF RecordsOK
<1>2. CASE StartRecovery
  <2>1. PICK j \in RecJobs, k \in {"capture", "full", "select"} :
           /\ recRow[j] = "none" /\ current' = j
           /\ recKind' = [recKind EXCEPT ![j] = k]
           /\ recRow' = [Staled(Replayed) EXCEPT ![j] = "running"]
    BY <1>2 DEF StartRecovery, NextFree
  <2>2. /\ server' = "up" /\ recAt' = "begin" /\ recIntent' = [i \in RecJobs |-> "none"]
        /\ UNCHANGED <<record, staged, removed>>
    BY <1>2 DEF StartRecovery, LockFree
  <2>3. /\ \A i \in RecJobs : recIntent'[i] = "none"
        /\ recRow'[j] = "running" /\ recKind'[j] = k
        /\ \A i \in RecJobs : i # j => recRow'[i] = Staled(Replayed)[i]
    BY <1>0, <2>1, <2>2, ReplayedIs
  <2>4. record[j] = "none" /\ staged[j] = "none"
    BY <1>0, <2>1 DEF FreshOK
  <2>5. FreshOK'
    BY <1>0, <2>2, <2>3, ReplayedIs DEF FreshOK
  <2>6. CurrentOK'
    BY <1>0, <2>1, <2>2, <2>3, <2>4 DEF CurrentOK, Closing, Capturing, Restoring
  <2>7. RestoreOK'
    BY <1>0, <2>2, <2>3, <2>4, ReplayedIs DEF RestoreOK
  <2>8. ReadyIsWhole'
    BY <1>0, <2>2 DEF ReadyIsWhole
  <2> QED BY <2>5, <2>6, <2>7, <2>8 DEF RecordsOK
<1>3. CASE CancelRecovery \/ LostChildEnds \/ UNCHANGED recVars
           \/ \E f \in StoredFiles : TargetWritten(f)
  <2>1. UNCHANGED <<server, recAt, current, recKind, recRow, recIntent, record, staged, removed>>
    BY <1>3 DEF CancelRecovery, LostChildEnds, recVars, TargetWritten, recoveryJob,
                recoveryRows, staging
  <2> QED
    BY <1>0, <2>1 DEF FreshOK, CurrentOK, RestoreOK, ReadyIsWhole, RecordsOK
<1>4. CASE EndRemoval
  <2>1. /\ removing \in RecJobs /\ current = NoJob
        /\ staged' = [staged EXCEPT ![removing] = "none"]
        /\ record' = [record EXCEPT ![removing] = "none"]
        /\ UNCHANGED <<recAt, current, recRow, recIntent, removed>>
    BY <1>0, <1>4 DEF EndRemoval, PlaceOK, recoveryJob, recoveryRows
  <2>2. /\ staged'[removing] = "none" /\ record'[removing] = "none"
        /\ \A j \in RecJobs : j # removing => staged'[j] = staged[j] /\ record'[j] = record[j]
    BY <1>0, <2>1
  <2>3. FreshOK'
    BY <1>0, <2>1, <2>2 DEF FreshOK
  <2>4. CurrentOK'
    BY <1>0, <2>1 DEF CurrentOK
  <2>5. RestoreOK'
    BY <1>0, <2>1, <2>2 DEF RestoreOK
  <2>6. ReadyIsWhole'
    BY <1>0, <2>1, <2>2 DEF ReadyIsWhole
  <2> QED BY <2>3, <2>4, <2>5, <2>6 DEF RecordsOK
<1>5. CASE \E j \in RecJobs : BeginRemoval(j)
  <2>1. PICK j \in RecJobs : BeginRemoval(j)
    BY <1>5
  <2>2. /\ current = NoJob /\ record[j] \in {"ready", "cleanup", "error"}
        /\ removed' = removed \cup {j}
        /\ \E s \in {staged[j], "part"} : staged' = [staged EXCEPT ![j] = s]
        /\ UNCHANGED <<recAt, current, recRow, recIntent, record>>
    BY <2>1 DEF BeginRemoval, LockFree, Removable, recoveryJob, recoveryRows
  <2>3. \A i \in RecJobs : i # j => staged'[i] = staged[i]
    BY <1>0, <2>2
  <2>4. FreshOK'
    BY <1>0, <2>2, <2>3 DEF FreshOK
  <2>5. CurrentOK'
    BY <1>0, <2>2 DEF CurrentOK
  <2>6. RestoreOK'
    BY <1>0, <2>2, <2>3 DEF RestoreOK
  <2>7. ReadyIsWhole'
    BY <1>0, <2>2, <2>3 DEF ReadyIsWhole
  <2> QED BY <2>4, <2>5, <2>6, <2>7 DEF RecordsOK
<1>6. CASE Crash
  <2>1. /\ current' = NoJob /\ recAt' = "idle"
        /\ UNCHANGED <<recRow, recIntent, record, staged, removed>>
    BY <1>6 DEF Crash, recoveryRows, staging
  <2> QED BY <1>0, <2>1 DEF FreshOK, CurrentOK, RestoreOK, ReadyIsWhole, RecordsOK
<1>7. CASE RecBoot
  <2>0. /\ server # "up" /\ UNCHANGED <<current, recAt, removed>>
        /\ server \in {"reconcile", "staging", "state"} => \A j \in RecJobs : recIntent[j] = "none"
    BY <1>7 DEF RecBoot, BootReplay, BootReconcile, BootDelete, BootSave, recoveryJob, PlaceOK
  <2>1. CurrentOK'
    BY <1>0, <2>0 DEF CurrentOK
  <2>2. CASE BootReplay
    <3>1. /\ recRow' = Replayed /\ \A j \in RecJobs : recIntent'[j] = "none"
          /\ UNCHANGED <<record, staged>>
      BY <2>2 DEF BootReplay, staging
    <3>2. FreshOK' /\ RestoreOK' /\ ReadyIsWhole'
      BY <1>0, <2>0, <3>1, ReplayedIs DEF FreshOK, RestoreOK, ReadyIsWhole
    <3> QED BY <2>1, <3>2 DEF RecordsOK
  <2>3. CASE BootReconcile
    <3>1. /\ \A j \in RecJobs : \/ recRow'[j] = recRow[j]
                                \/ recRow[j] = "running" /\ recRow'[j] = "stale"
          /\ UNCHANGED <<recIntent, record, staged>>
      BY <1>0, <2>3 DEF BootReconcile, staging, Staled
    <3>2. FreshOK' /\ RestoreOK' /\ ReadyIsWhole'
      BY <1>0, <2>0, <3>1 DEF FreshOK, RestoreOK, ReadyIsWhole
    <3> QED BY <2>1, <3>2 DEF RecordsOK
  <2>4. CASE BootDelete
    <3>1. /\ \A j \in RecJobs :
                \/ staged'[j] = staged[j]
                \/ record[j] = "running" /\ recRow[j] # "ok" /\ staged'[j] = "none"
          /\ \A j \in RecJobs : recIntent[j] = "none"
          /\ UNCHANGED <<recRow, recIntent, record>>
      BY <2>0, <2>4 DEF BootDelete, Interrupted, recoveryRows
    <3>2. FreshOK' /\ RestoreOK' /\ ReadyIsWhole'
      BY <1>0, <2>0, <3>1 DEF FreshOK, RestoreOK, ReadyIsWhole
    <3> QED BY <2>1, <3>2 DEF RecordsOK
  <2>5. CASE BootSave
    <3>1. /\ \A j \in RecJobs :
                \/ record[j] # "running" /\ record'[j] = record[j]
                \/ record[j] = "running" /\ record'[j] = "error"
                \/ record[j] = "running" /\ recRow[j] = "ok" /\ record'[j] = "ready"
          /\ UNCHANGED <<recRow, recIntent, staged>>
      BY <2>5 DEF BootSave, Interrupted, recoveryRows
    <3>2. FreshOK' /\ RestoreOK' /\ ReadyIsWhole'
      BY <1>0, <2>0, <3>1 DEF FreshOK, RestoreOK, ReadyIsWhole
    <3> QED BY <2>1, <3>2 DEF RecordsOK
  <2> QED BY <1>7, <2>2, <2>3, <2>4, <2>5 DEF RecBoot
<1> QED BY <1>1, <1>2, <1>3, <1>4, <1>5, <1>6, <1>7 DEF RecNext

-----------------------------------------------------------------------------
(* A capture that knows nothing yet, or any more, has no promise to keep.  *)
LEMMA NothingRead ==
    ASSUME RecTypeOK', target' \in moments', \A f \in StoredFiles : target'[f] # 0,
           before' = Unread, copied' = Unread, again' = Unread,
           recAt' \notin {"again", "publish"}
    PROVE  MomentOK'
<1>1. \A f \in StoredFiles : target'[f] \in Nat
  BY DEF RecTypeOK, Snapshots
<1>2. \A f \in StoredFiles : Unread[f] = 0
  BY DEF Unread
<1> QED BY <1>1, <1>2 DEF MomentOK

LEMMA FreshTarget ==
    ASSUME FreshCapture
    PROVE  /\ target' \in moments' /\ \A f \in StoredFiles : target'[f] # 0
           /\ before' = Unread /\ copied' = Unread /\ again' = Unread
BY DEF FreshCapture, Versions

(* The step of a capture that reads or copies one file, and of an outsider *)
(* that writes one, keep a moment between the copy and the second look.    *)
LEMMA ListStep ==
    ASSUME RecTypeOK, RecTypeOK', CurrentOK, MomentOK,
           NEW f \in StoredFiles, TakeInventory(f)
    PROVE  MomentOK'
<1>1. /\ recAt = "inventory" /\ current # NoJob /\ before[f] = 0
      /\ before' = [before EXCEPT ![f] = target[f]] /\ recAt' \in {"inventory", "copy"}
      /\ UNCHANGED <<current, recKind, copied, again, target, moments>>
  BY DEF TakeInventory, RecIn, Goes, world
<1>2. /\ target \in moments /\ \A g \in StoredFiles : target[g] # 0
      /\ copied = Unread /\ again = Unread
      /\ \A g \in StoredFiles : before[g] <= target[g]
      /\ recKind[current] = "capture"
  BY <1>1 DEF MomentOK, CurrentOK, Capturing
<1>3. \A g \in StoredFiles : /\ target[g] \in Nat /\ Unread[g] = 0
                             /\ before'[g] = IF g = f THEN target[g] ELSE before[g]
  BY <1>1 DEF RecTypeOK, Snapshots, Unread
<1>4. \A g \in StoredFiles : before'[g] <= target'[g]
  BY <1>1, <1>2, <1>3
<1> QED BY <1>1, <1>2, <1>3, <1>4 DEF MomentOK

LEMMA CopyStep ==
    ASSUME RecTypeOK, RecTypeOK', MomentOK, NEW f \in StoredFiles, CopyFile(f)
    PROVE  MomentOK'
<1>1. /\ recAt = "copy" /\ recKind[current] = "capture" /\ copied[f] = 0
      /\ copied' = [copied EXCEPT ![f] = target[f]]
      /\ \/ recAt' = "copy"
         \/ recAt' = "again" /\ \A g \in StoredFiles \ {f} : copied[g] # 0
      /\ UNCHANGED <<current, recKind, before, again, target, moments>>
  BY DEF CopyFile, RecIn, Goes, world
<1>2. /\ target \in moments /\ \A g \in StoredFiles : target[g] # 0
      /\ again = Unread
      /\ \A g \in StoredFiles :
            /\ before[g] <= target[g]
            /\ copied[g] # 0 => before[g] <= copied[g] /\ copied[g] <= target[g]
  BY <1>1 DEF MomentOK
<1>3. \A g \in StoredFiles : /\ target[g] \in Nat /\ Unread[g] = 0
                             /\ copied'[g] = IF g = f THEN target[g] ELSE copied[g]
  BY <1>1 DEF RecTypeOK, Snapshots, Unread
<1>4. \A g \in StoredFiles :
         /\ before'[g] <= target'[g]
         /\ copied'[g] # 0 => before'[g] <= copied'[g] /\ copied'[g] <= target'[g]
  BY <1>1, <1>2, <1>3
<1>5. recAt' = "again" => target \in moments' /\ Witness(target)'
  <2> SUFFICES ASSUME recAt' = "again" PROVE target \in moments' /\ Witness(target)'
    OBVIOUS
  <2>1. \A g \in StoredFiles : before[g] <= copied'[g] /\ copied'[g] <= target[g]
    BY <1>1, <1>2, <1>3
  <2>2. \A g \in StoredFiles : again'[g] = 0 /\ target[g] <= target[g]
    BY <1>1, <1>2, <1>3
  <2> QED BY <1>1, <1>2, <2>1, <2>2 DEF Witness
<1> QED BY <1>1, <1>2, <1>4, <1>5 DEF MomentOK

LEMMA AgainStep ==
    ASSUME RecTypeOK, RecTypeOK', MomentOK, NEW f \in StoredFiles, InventoryAgain(f)
    PROVE  MomentOK'
<1>1. /\ recAt = "again" /\ target[f] = before[f]
      /\ again' = [again EXCEPT ![f] = target[f]]
      /\ \/ recAt' = "again"
         \/ recAt' = "publish" /\ \A g \in StoredFiles \ {f} : again[g] # 0
      /\ UNCHANGED <<before, copied, target, moments>>
  BY DEF InventoryAgain, SameFile, RecIn, Goes, world
<1>2. /\ target \in moments /\ \A g \in StoredFiles : target[g] # 0
      /\ \E m \in moments : Witness(m)
  BY <1>1 DEF MomentOK
<1>3. \A g \in StoredFiles : again'[g] = IF g = f THEN target[g] ELSE again[g]
  BY <1>1 DEF RecTypeOK, Snapshots
<1>4. PICK m \in moments : Witness(m)
  BY <1>2
<1>5. Witness(m)'
  BY <1>1, <1>3, <1>4 DEF Witness
<1>6. recAt' = "publish" => \A g \in StoredFiles : again'[g] # 0
  BY <1>1, <1>2, <1>3
<1> QED BY <1>1, <1>2, <1>4, <1>5, <1>6 DEF MomentOK

LEMMA WriteStep ==
    ASSUME RecTypeOK, RecTypeOK', MomentOK, NEW f \in StoredFiles, TargetWritten(f)
    PROVE  MomentOK'
<1>1. /\ recAt \in {"inventory", "copy", "again"}
      /\ target' = [target EXCEPT ![f] = target[f] + 1] /\ moments' = moments \cup {target'}
      /\ UNCHANGED <<recAt, current, recKind, before, copied, again>>
  BY DEF TargetWritten, recoveryJob, capture
<1>2. \A g \in StoredFiles : /\ target[g] \in Nat /\ target'[g] \in Nat
                             /\ before[g] \in Nat /\ copied[g] \in Nat
                             /\ target[g] <= target'[g] /\ target'[g] # 0
  <2>1. \A g \in StoredFiles : target[g] \in Nat /\ target[g] # 0
    BY DEF RecTypeOK, Snapshots, MomentOK
  <2>2. \A g \in StoredFiles : target'[g] = IF g = f THEN target[g] + 1 ELSE target[g]
    BY <1>1 DEF RecTypeOK, Snapshots
  <2> QED BY <2>1, <2>2 DEF RecTypeOK, Snapshots
<1>3. target' \in moments' /\ moments \subseteq moments' /\ moments \subseteq Snapshots
  BY <1>1 DEF RecTypeOK
<1>4. \A g \in StoredFiles : before[g] <= target[g] => before[g] <= target'[g]
  BY <1>2
<1>5. \A g \in StoredFiles : copied[g] <= target[g] => copied[g] <= target'[g]
  BY <1>2
<1>6. \A m \in moments : Witness(m) => Witness(m)'
  <2> SUFFICES ASSUME NEW m \in moments, Witness(m), NEW g \in StoredFiles
               PROVE  /\ before'[g] <= copied'[g] /\ copied'[g] <= m[g] /\ m[g] <= target'[g]
                      /\ again'[g] # 0 => again'[g] = before'[g] /\ m[g] <= again'[g]
    BY DEF Witness
  <2>1. m[g] \in Nat
    BY <1>3 DEF Snapshots
  <2>2. /\ before[g] <= copied[g] /\ copied[g] <= m[g] /\ m[g] <= target[g]
        /\ again[g] # 0 => again[g] = before[g] /\ m[g] <= again[g]
    BY DEF Witness
  <2>3. m[g] <= target'[g]
    BY <1>2, <2>1, <2>2
  <2> QED BY <1>1, <2>2, <2>3
<1>7. recAt \in {"inventory", "copy"} =>
         \A g \in StoredFiles :
            /\ before'[g] <= target'[g]
            /\ copied'[g] # 0 => before'[g] <= copied'[g] /\ copied'[g] <= target'[g]
  BY <1>1, <1>4, <1>5 DEF MomentOK
<1>8. recAt' = "again" => \E m \in moments' : Witness(m)'
  BY <1>1, <1>3, <1>6 DEF MomentOK
<1> QED BY <1>1, <1>2, <1>3, <1>7, <1>8 DEF MomentOK

LEMMA MomentStep ==
    ASSUME RecTypeOK, RecTypeOK', CurrentOK, MomentOK, [RecNext]_recVars
    PROVE  MomentOK'
<1>0. /\ target \in moments /\ \A f \in StoredFiles : target[f] # 0
      /\ current = NoJob => recAt = "idle"
      /\ \/ recAt \in {"inventory", "copy", "again", "publish", "failed"}
         \/ before = Unread /\ copied = Unread /\ again = Unread
      /\ recAt = "copy" /\ recKind[current] # "capture" =>
            before = Unread /\ copied = Unread /\ again = Unread
  BY DEF MomentOK, CurrentOK
<1>1. CASE \E f \in StoredFiles : \/ TakeInventory(f) \/ CopyFile(f) \/ InventoryAgain(f)
                                  \/ TargetWritten(f)
  BY <1>1, ListStep, CopyStep, AgainStep, WriteStep
<1>2. CASE Publish \/ CleanUp \/ Crash
  <2>1. FreshCapture /\ recAt' \in {"prune", "error", "idle"}
    BY <1>2 DEF Publish, CleanUp, Crash, Goes
  <2> QED BY <2>1, FreshTarget, NothingRead
<1>3. CASE StepFails
  <2>1. recAt' = "failed" /\ UNCHANGED <<before, copied, again, target, moments>>
    BY <1>3 DEF StepFails, Goes, capture, world
  <2> QED BY <1>0, <2>1 DEF MomentOK
<1>4. CASE \/ BeginRecovery \/ MakeScratch \/ PruneBegins \/ PruneEnds \/ Captured
           \/ BudgetFull \/ Announce \/ MakeStaged \/ Measure \/ CopyPoint \/ CopyDone
           \/ LateCancel \/ FinishRecovery \/ FinishFails \/ SaveOutcome \/ ReleaseLock
           \/ StartRecovery
  <2>1. UNCHANGED <<before, copied, again, target, moments>>
    BY <1>4 DEF BeginRecovery, MakeScratch, PruneBegins, PruneEnds, Captured, BudgetFull,
                Announce, MakeStaged, Measure, CopyPoint, CopyDone, LateCancel, FinishRecovery,
                FinishFails, SaveOutcome, ReleaseLock, StartRecovery, capture, world
  <2>2. recAt' \notin {"again", "publish"}
    <3>1. CASE BeginRecovery
      <4>1. recAt' = (CASE recCancel -> "cancelled"
                        [] ~recCancel /\ recKind[current] = "capture" -> "workspace"
                        [] ~recCancel /\ recKind[current] = "full"    -> "budget"
                        [] ~recCancel /\ recKind[current] = "select"  -> "announce")
            /\ recCancel \in BOOLEAN /\ recKind[current] \in RecKinds
            /\ recKind[current] # "none"
        BY <3>1, RecFacts DEF BeginRecovery, RecIn, Goes, CurrentOK, RecTypeOK
      <4> QED BY <4>1 DEF RecKinds
    <3>2. CASE ~BeginRecovery
      BY <1>4, <3>2
         DEF MakeScratch, PruneBegins, PruneEnds, Captured, BudgetFull, Announce, MakeStaged,
             Measure, CopyPoint, CopyDone, LateCancel, FinishRecovery, FinishFails,
             SaveOutcome, ReleaseLock, StartRecovery, Goes
    <3> QED BY <3>1, <3>2
  <2>3. \/ recAt \notin {"inventory", "copy", "again", "publish", "failed"}
        \/ recAt = "copy" /\ recKind[current] # "capture"
    BY <1>0, <1>4
       DEF BeginRecovery, MakeScratch, PruneBegins, PruneEnds, Captured, BudgetFull, Announce,
           MakeStaged, Measure, CopyPoint, CopyDone, LateCancel, FinishRecovery, FinishFails,
           SaveOutcome, ReleaseLock, StartRecovery, RecIn, LockFree
  <2>4. before = Unread /\ copied = Unread /\ again = Unread
    BY <1>0, <2>3
  <2> QED BY <1>0, <2>1, <2>2, <2>4, NothingRead
<1>5. CASE \/ SpawnCopy \/ CancelRecovery \/ EndRemoval \/ LostChildEnds \/ RecBoot
           \/ (\E j \in RecJobs : BeginRemoval(j)) \/ UNCHANGED recVars
  <2>1. UNCHANGED <<recAt, current, recKind, before, copied, again, target, moments>>
    BY <1>5 DEF SpawnCopy, CancelRecovery, EndRemoval, LostChildEnds, RecBoot, BootReplay,
                BootReconcile, BootDelete, BootSave, BeginRemoval, recVars, recoveryJob, RecIn,
                Goes, capture, world
  <2> QED BY <2>1 DEF MomentOK, Witness
<1> QED BY <1>1, <1>2, <1>3, <1>4, <1>5 DEF RecNext, RecThread

(* A point is published only of what the target was at the moment between  *)
(* the copy and the second inventory.                                      *)
LEMMA PointStep ==
    ASSUME RecTypeOK, MomentOK, PointIsOneMoment, [RecNext]_recVars
    PROVE  PointIsOneMoment'
<1>1. CASE Publish
  <2>1. /\ recAt = "publish"
        /\ points' = points \cup {[of |-> current, whole |-> TRUE,
                                   sound |-> copied \in moments]}
    BY <1>1 DEF Publish, RecIn
  <2>2. PICK m \in moments : Witness(m)
    BY <2>1 DEF MomentOK
  <2>3. \A f \in StoredFiles : again[f] # 0
    BY <2>1 DEF MomentOK
  <2>4. /\ m \in Snapshots /\ copied \in Snapshots
        /\ \A f \in StoredFiles : m[f] \in Nat /\ copied[f] \in Nat /\ before[f] \in Nat
    BY <2>2 DEF RecTypeOK, Snapshots
  <2>5. \A f \in StoredFiles : copied[f] = m[f]
    BY <2>2, <2>3, <2>4 DEF Witness
  <2>6. copied = m
    BY <2>4, <2>5 DEF Snapshots
  <2>7. \A b \in BOOLEAN : b => [of |-> current, whole |-> TRUE, sound |-> b].sound
    OBVIOUS
  <2>8. (copied \in moments) \in BOOLEAN /\ copied \in moments
    BY <2>2, <2>6
  <2>9. [of |-> current, whole |-> TRUE, sound |-> copied \in moments].sound
    BY <2>7, <2>8, Zenon
  <2> QED BY <2>1, <2>9, Zenon DEF PointIsOneMoment
<1>2. CASE PruneBegins
  <2>1. PICK p \in points : points' = (points \ {p}) \cup {[p EXCEPT !.whole = FALSE]}
    BY <1>2 DEF PruneBegins
  <2>2. p \in Points /\ p.sound
    BY DEF RecTypeOK, PointIsOneMoment
  <2>3. [p EXCEPT !.whole = FALSE].sound = p.sound
    BY <2>2 DEF Points
  <2> QED BY <2>1, <2>2, <2>3 DEF PointIsOneMoment
<1>3. CASE PruneEnds
  BY <1>3 DEF PruneEnds, PointIsOneMoment
<1>4. CASE ~Publish /\ ~PruneBegins /\ ~PruneEnds
  <2>1. UNCHANGED points
    BY <1>4
       DEF RecNext, RecThread, RecBoot, StartRecovery, CancelRecovery, EndRemoval,
           LostChildEnds, Crash, BeginRemoval, TargetWritten, BootReplay, BootReconcile,
           BootDelete, BootSave, BeginRecovery, MakeScratch, Captured, TakeInventory, CopyFile,
           InventoryAgain, BudgetFull, Announce, MakeStaged, Measure, SpawnCopy, CopyPoint,
           CopyDone, StepFails, CleanUp, LateCancel, FinishRecovery, FinishFails, SaveOutcome,
           ReleaseLock, recVars
  <2> QED BY <2>1 DEF PointIsOneMoment
<1> QED BY <1>1, <1>2, <1>3, <1>4

-----------------------------------------------------------------------------
LEMMA RecInitially == RecInit => RecoveryInvariant
<1> SUFFICES ASSUME RecInit PROVE RecoveryInvariant
  OBVIOUS
<1>1. RecTypeOK
  <2>1. /\ Unread \in Snapshots /\ Versions \in Snapshots
        /\ NoJob \in RecJobs \cup {NoJob}
        /\ \A n \in {0} : n \in Nat /\ n \in 0 .. MaxCrashes /\ n \in 0 .. MaxStoreFaults
    BY RecNumbers DEF Unread, Versions, Snapshots
  <2>2. [of |-> NoJob, whole |-> TRUE, sound |-> TRUE] \in Points
    BY DEF Points
  <2>3. /\ recKind \in [RecJobs -> RecKinds] /\ recRow \in [RecJobs -> RecStatuses]
        /\ recIntent \in [RecJobs -> RecIntents] /\ record \in [RecJobs -> RecStates]
        /\ staged \in [RecJobs -> Holdings] /\ scratch \in [RecJobs -> Scratches]
        /\ size \in [RecJobs -> Nat] /\ counted \in [RecJobs -> Nat]
    BY DEF RecInit, RecKinds, RecStatuses, RecIntents, RecStates, Holdings, Scratches
  <2>4. recAt \in RecSteps
    BY DEF RecInit, RecSteps
  <2> QED BY <2>1, <2>2, <2>3, <2>4 DEF RecInit, RecTypeOK
<1>2. FreshOK /\ CurrentOK /\ RestoreOK /\ PlaceOK /\ ReadyIsWhole
  BY DEF RecInit, FreshOK, CurrentOK, RestoreOK, PlaceOK, ReadyIsWhole
<1>3. MomentOK
  BY DEF RecInit, MomentOK, Unread, Versions
<1>4. PointIsOneMoment
  BY DEF RecInit, PointIsOneMoment
<1> QED BY <1>1, <1>2, <1>3, <1>4 DEF RecoveryInvariant

LEMMA RecStep == RecoveryInvariant /\ [RecNext]_recVars => RecoveryInvariant'
<1> SUFFICES ASSUME RecoveryInvariant, [RecNext]_recVars PROVE RecoveryInvariant'
  OBVIOUS
<1>1. /\ RecTypeOK /\ RecordsOK /\ PlaceOK /\ MomentOK /\ PointIsOneMoment /\ CurrentOK
  BY DEF RecoveryInvariant, RecordsOK
<1>2. RecTypeOK'
  BY <1>1, RecTypeStep
<1>3. RecordsOK' /\ PlaceOK' /\ MomentOK' /\ PointIsOneMoment'
  BY <1>1, <1>2, RecordsStep, PlaceStep, MomentStep, PointStep
<1> QED BY <1>2, <1>3 DEF RecoveryInvariant, RecordsOK

LEMMA RecoveryHolds == RecSpec => []RecoveryInvariant
BY RecInitially, RecStep, PTL DEF RecSpec

(* Who deletes a directory runs while no child is left, or has seen that   *)
(* there is none.                                                          *)
LEMMA ChildKeepsStep ==
    RecoveryInvariant /\ [RecNext]_recVars =>
        (recChild # NoJob =>
            /\ staged[recChild] # "none" => staged'[recChild] # "none"
            /\ scratch[recChild] # "none" => scratch'[recChild] # "none")
<1> SUFFICES ASSUME RecoveryInvariant, [RecNext]_recVars, recChild # NoJob
             PROVE  /\ staged[recChild] # "none" => staged'[recChild] # "none"
                    /\ scratch[recChild] # "none" => scratch'[recChild] # "none"
  OBVIOUS
<1>0. /\ CurrentOK /\ PlaceOK /\ recChild \in RecJobs
      /\ staged \in [RecJobs -> Holdings] /\ scratch \in [RecJobs -> Scratches]
  BY RecFacts DEF RecoveryInvariant
<1>1. CASE \/ Captured \/ EndRemoval \/ BootDelete \/ BootSave
           \/ \E j \in RecJobs : BeginRemoval(j)
  <2>1. /\ Captured => recAt = "prune" /\ current # NoJob
        /\ EndRemoval => removing # NoJob
        /\ BootDelete \/ BootSave => server \in {"staging", "state"}
        /\ (\E j \in RecJobs : BeginRemoval(j)) => recChild = NoJob
    BY DEF Captured, RecIn, EndRemoval, BootDelete, BootSave, BeginRemoval, CleanupSafe
  <2> QED BY <1>0, <1>1, <2>1 DEF PlaceOK
<1>2. CASE MakeScratch \/ MakeStaged \/ SpawnCopy \/ CopyPoint \/ CopyDone
  <2>1. /\ scratch' \in {scratch, Put(scratch, "bare"), Put(scratch, "known")}
        /\ staged' \in {staged, Put(staged, "made"), Put(staged, "part"), Put(staged, "whole")}
    BY <1>2 DEF MakeScratch, MakeStaged, SpawnCopy, CopyPoint, CopyDone, staging
  <2> QED BY <1>0, <2>1 DEF Put
<1>3. CASE CleanUp
  BY <1>3 DEF CleanUp, CleanupSafe
<1>4. CASE \/ BeginRecovery \/ Publish \/ PruneBegins \/ PruneEnds \/ BudgetFull \/ Announce
           \/ Measure \/ StepFails \/ LateCancel \/ FinishRecovery \/ FinishFails
           \/ SaveOutcome \/ ReleaseLock \/ StartRecovery \/ CancelRecovery \/ LostChildEnds
           \/ Crash \/ BootReplay \/ BootReconcile \/ UNCHANGED recVars
           \/ \E f \in StoredFiles : \/ TakeInventory(f) \/ CopyFile(f) \/ InventoryAgain(f)
                                     \/ TargetWritten(f)
  <2>1. UNCHANGED <<staged, scratch>>
    BY <1>4 DEF BeginRecovery, Publish, PruneBegins, PruneEnds, BudgetFull, Announce, Measure,
                StepFails, LateCancel, FinishRecovery, FinishFails, SaveOutcome, ReleaseLock,
                StartRecovery, CancelRecovery, LostChildEnds, Crash, BootReplay, BootReconcile,
                recVars, TakeInventory, CopyFile, InventoryAgain, TargetWritten, staging
  <2> QED BY <2>1
<1> QED BY <1>1, <1>2, <1>3, <1>4 DEF RecNext, RecThread, RecBoot

-----------------------------------------------------------------------------
(* Sums over a finite set of numbers.                                      *)

(* No nonempty set of numbers is without a smallest one.                   *)
LEMMA LeastNumber ==
    ASSUME NEW T, T \subseteq Nat, T # {}
    PROVE  \E x \in T : \A y \in T : x <= y
<1>1. PICK x \in T : \A y \in T : <<y, x>> \notin OpToRel(<, Nat)
  BY NatLessThanWellFounded, WFMin, Zenon
<1>2. \A y \in T : <<y, x>> \in OpToRel(<, Nat) <=> y < x
  BY Zenon DEF OpToRel
<1>3. ASSUME NEW y \in T
      PROVE  x <= y
  <2>1. x \in Nat /\ y \in Nat /\ ~(y < x)
    BY <1>1, <1>2
  <2> QED BY <2>1
<1> QED BY <1>3

(* A collection of subsets of a finite set that has each subset of which it *)
(* has all smaller ones has every subset.                                   *)
LEMMA SubsetInduction ==
    ASSUME NEW S, IsFiniteSet(S), NEW A,
           \A T \in SUBSET S : (\A R \in SUBSET T : R # T => R \in A) => T \in A
    PROVE  SUBSET S \subseteq A
<1> SUFFICES ASSUME ~(SUBSET S \subseteq A)
             PROVE  FALSE
  OBVIOUS
<1> DEFINE Left == {T \in SUBSET S : T \notin A}
<1>1. \A T \in Left : IsFiniteSet(T) /\ Cardinality(T) \in Nat
  BY FS_Subset, FS_CardinalityType
<1> DEFINE Sizes == {Cardinality(T) : T \in Left}
<1>2. Sizes \subseteq Nat /\ Sizes # {}
  BY <1>1
<1>3. PICK n \in Sizes : \A m \in Sizes : n <= m
  BY <1>2, LeastNumber
<1>4. PICK T \in Left : n = Cardinality(T)
  OBVIOUS
<1>5. ASSUME NEW R \in SUBSET T, R # T
      PROVE  R \in A
  <2>1. Cardinality(R) <= Cardinality(T) /\ Cardinality(R) # Cardinality(T)
    BY <1>1, <1>5, FS_Subset, FS_CardinalityType
  <2>2. IsFiniteSet(R) /\ Cardinality(R) \in Nat /\ Cardinality(T) \in Nat
    BY <1>1, FS_Subset, FS_CardinalityType
  <2>3. R \in Left => Cardinality(T) <= Cardinality(R)
    BY <1>3, <1>4
  <2> QED BY <2>1, <2>2, <2>3
<1> QED BY <1>5

Pick(s) == CHOOSE x \in s : TRUE

LEMMA PickIs ==
    ASSUME NEW s, s # {}
    PROVE  Pick(s) \in s
BY DEF Pick

(* g adds up, for each subset of S, what w says of its members.            *)
Sums(g, w, S) ==
    \A s \in SUBSET S : g[s] = IF s = {} THEN 0 ELSE w[Pick(s)] + g[s \ {Pick(s)}]

LEMMA SumsExist ==
    ASSUME NEW S, IsFiniteSet(S), NEW w, \A x \in S : w[x] \in Nat
    PROVE  \E g \in [SUBSET S -> Nat] : Sums(g, w, S)
<1> DEFINE Step(s, g) == IF s = {} THEN 0 ELSE w[Pick(s)] + g[s \ {Pick(s)}]
           Good(n) == \E g \in [SUBSET S -> Nat] :
                         \A s \in SUBSET S : Cardinality(s) <= n => g[s] = Step(s, g)
           Bad == {n \in Nat : ~Good(n)}
<1>1. \A s \in SUBSET S : Cardinality(s) \in Nat /\ (Cardinality(s) = 0 <=> s = {})
                          /\ Cardinality(s) <= Cardinality(S)
  BY FS_Subset, FS_CardinalityType, FS_EmptySet
<1>2. \A s \in SUBSET S : s # {} =>
          /\ Pick(s) \in S /\ s \ {Pick(s)} \in SUBSET S
          /\ Cardinality(s \ {Pick(s)}) = Cardinality(s) - 1
  BY PickIs, FS_RemoveElement, FS_Subset
<1>3. Good(0)
  <2>1. [s \in SUBSET S |-> 0] \in [SUBSET S -> Nat]
    OBVIOUS
  <2>2. \A s \in SUBSET S : Cardinality(s) <= 0 => s = {}
    BY <1>1
  <2> QED BY <2>1, <2>2
<1>4. ASSUME NEW n \in Nat, Good(n)
      PROVE  Good(n + 1)
  <2>1. PICK g \in [SUBSET S -> Nat] :
            \A s \in SUBSET S : Cardinality(s) <= n => g[s] = Step(s, g)
    BY <1>4
  <2> DEFINE h == [s \in SUBSET S |-> IF Cardinality(s) = n + 1 THEN Step(s, g) ELSE g[s]]
  <2>2. \A s \in SUBSET S : s # {} => w[Pick(s)] \in Nat /\ g[s \ {Pick(s)}] \in Nat
    BY <1>2
  <2>3. \A s \in SUBSET S : Step(s, g) \in Nat
    BY <2>2
  <2>4. h \in [SUBSET S -> Nat]
    BY <2>3
  <2>5. ASSUME NEW s \in SUBSET S, Cardinality(s) <= n + 1
        PROVE  h[s] = Step(s, h)
    <3>1. CASE s = {}
      <4>1. Cardinality(s) = 0
        BY <1>1, <3>1
      <4>2. h[s] = g[s] /\ g[s] = 0
        BY <4>1, <3>1, <2>1
      <4> QED BY <4>2, <3>1
    <3>2. CASE s # {}
      <4>1. s \ {Pick(s)} \in SUBSET S /\ Cardinality(s \ {Pick(s)}) # n + 1
        BY <1>1, <1>2, <2>5, <3>2
      <4>2. Step(s, h) = Step(s, g)
        BY <4>1
      <4>3. Cardinality(s) = n + 1 \/ Cardinality(s) <= n
        BY <1>1, <2>5
      <4>4. h[s] = Step(s, g)
        BY <4>3, <2>1
      <4> QED BY <4>2, <4>4
    <3> QED BY <3>1, <3>2
  <2> QED BY <2>4, <2>5
<1> HIDE DEF Good
<1>5. Bad = {}
  <2> SUFFICES ASSUME Bad # {}
               PROVE  FALSE
    OBVIOUS
  <2>1. PICK m \in Bad : \A k \in Bad : m <= k
    BY LeastNumber
  <2>2. m # 0 /\ m \in Nat /\ ~Good(m)
    BY <1>3
  <2>3. m - 1 \in Nat /\ ~(m <= m - 1) /\ (m - 1) + 1 = m
    BY <2>2
  <2>4. Good(m - 1)
    BY <2>1, <2>3
  <2> QED BY <1>4, <2>2, <2>3, <2>4
<1>6. Good(Cardinality(S))
  BY <1>5, FS_CardinalityType
<1> QED BY <1>1, <1>6 DEF Good, Sums

LEMMA SumsAgree ==
    ASSUME NEW S, IsFiniteSet(S), NEW T \in SUBSET S, NEW w, NEW g, NEW h,
           Sums(g, w, S), Sums(h, w, T)
    PROVE  \A s \in SUBSET T : h[s] = g[s]
<1> DEFINE A == {s \in SUBSET T : h[s] = g[s]}
<1>1. ASSUME NEW s \in SUBSET T, \A r \in SUBSET s : r # s => r \in A
      PROVE  s \in A
  <2>1. s # {} => h[s \ {Pick(s)}] = g[s \ {Pick(s)}]
    BY <1>1, PickIs
  <2>2. s \in SUBSET S
    OBVIOUS
  <2> QED BY <2>1, <2>2 DEF Sums
<1>2. IsFiniteSet(T)
  BY FS_Subset
<1>3. SUBSET T \subseteq A
  <2> HIDE DEF A
  <2> QED BY <1>1, <1>2, SubsetInduction
<1> QED BY <1>3

Totals(g, w, S) == \A T \in SUBSET S : Total(w, T) = g[T]

(* The sum of a set and of its subsets, with the members taken in turn.    *)
LEMMA TotalIs ==
    ASSUME NEW S, IsFiniteSet(S), NEW w, \A x \in S : w[x] \in Nat
    PROVE  \E g \in [SUBSET S -> Nat] : Sums(g, w, S) /\ Totals(g, w, S)
<1>1. PICK g \in [SUBSET S -> Nat] : Sums(g, w, S)
  BY SumsExist
<1>2. ASSUME NEW T \in SUBSET S
      PROVE  Total(w, T) = g[T]
  <2> DEFINE Is(k) == k = [s \in SUBSET T |->
                              IF s = {} THEN 0 ELSE w[Pick(s)] + k[s \ {Pick(s)}]]
             k0 == [s \in SUBSET T |-> g[s]]
  <2>1. Is(k0)
    <3>1. \A s \in SUBSET T : s # {} => s \ {Pick(s)} \in SUBSET T
      OBVIOUS
    <3>2. \A s \in SUBSET T : k0[s] = IF s = {} THEN 0 ELSE w[Pick(s)] + k0[s \ {Pick(s)}]
      BY <1>1, <3>1 DEF Sums
    <3> QED BY <3>2
  <2> DEFINE h == CHOOSE k : Is(k)
  <2>2. Is(h)
    <3> HIDE DEF Is, k0
    <3> QED BY <2>1, Zenon
  <2>3. Sums(h, w, T)
    <3> HIDE DEF h
    <3> QED BY <2>2 DEF Sums
  <2>4. h[T] = g[T]
    <3> HIDE DEF h
    <3> QED BY <1>1, <2>3, SumsAgree
  <2>5. Total(w, T) = h[T]
    BY DEF Total, MapThenSumSet, MapThenFoldSet, Pick
  <2> QED BY <2>4, <2>5
<1> QED BY <1>1, <1>2 DEF Totals

(* A sum is that of all members but one, and that one.                      *)
LEMMA TotalTake ==
    ASSUME NEW S, IsFiniteSet(S), NEW w, \A x \in S : w[x] \in Nat
    PROVE  /\ Total(w, {}) = 0 /\ Total(w, S) \in Nat
           /\ \A x \in S : Total(w, S) = w[x] + Total(w, S \ {x})
<1>1. PICK g \in [SUBSET S -> Nat] : Sums(g, w, S) /\ Totals(g, w, S)
  BY TotalIs, Zenon
<1> DEFINE A == {T \in SUBSET S : \A x \in T : g[T] = w[x] + g[T \ {x}]}
<1>2. ASSUME NEW T \in SUBSET S, \A R \in SUBSET T : R # T => R \in A
      PROVE  T \in A
  <2> SUFFICES ASSUME NEW x \in T
               PROVE  g[T] = w[x] + g[T \ {x}]
    OBVIOUS
  <2> DEFINE p == Pick(T)
  <2>1. p \in T /\ g[T] = w[p] + g[T \ {p}]
    BY <1>1, PickIs DEF Sums
  <2> HIDE DEF p
  <2>2. CASE p = x
    BY <2>1, <2>2
  <2>3. CASE p # x
    <3>1. T \ {p} \in A /\ T \ {x} \in A /\ x \in T \ {p} /\ p \in T \ {x}
      BY <1>2, <2>1, <2>3
    <3>2. g[T \ {p}] = w[x] + g[(T \ {p}) \ {x}] /\ g[T \ {x}] = w[p] + g[(T \ {x}) \ {p}]
      BY <3>1
    <3>3. (T \ {p}) \ {x} = (T \ {x}) \ {p}
      OBVIOUS
    <3>4. w[x] \in Nat /\ w[p] \in Nat /\ g[(T \ {x}) \ {p}] \in Nat
      BY <1>1, <2>1
    <3>5. g[T \ {p}] = w[x] + g[(T \ {x}) \ {p}]
      BY <3>2, <3>3, Zenon
    <3> QED BY <2>1, <3>2, <3>4, <3>5
  <2> QED BY <2>2, <2>3
<1>3. SUBSET S \subseteq A
  <2> HIDE DEF A
  <2> QED BY <1>2, SubsetInduction
<1>4. \A x \in S : g[S] = w[x] + g[S \ {x}]
  BY <1>3
<1>5. g[{}] = 0
  BY <1>1 DEF Sums
<1>6. Total(w, {}) = g[{}] /\ Total(w, S) = g[S] /\ \A x \in S : Total(w, S \ {x}) = g[S \ {x}]
  BY <1>1 DEF Totals
<1> QED BY <1>4, <1>5, <1>6

(* More members, or larger ones, never make a sum smaller.                  *)
LEMMA TotalMonotone ==
    ASSUME NEW S, IsFiniteSet(S), NEW w, NEW v, NEW R \in SUBSET S,
           \A x \in S : v[x] \in Nat, \A x \in R : w[x] \in Nat /\ w[x] <= v[x]
    PROVE  Total(w, R) <= Total(v, S)
<1> DEFINE A == {T \in SUBSET S : Total(w, T \cap R) <= Total(v, T)}
<1>1. ASSUME NEW T \in SUBSET S, \A U \in SUBSET T : U # T => U \in A
      PROVE  T \in A
  <2>1. IsFiniteSet(T) /\ IsFiniteSet(T \cap R)
    BY FS_Subset
  <2>2. CASE T = {}
    <3>1. T \cap R = {} /\ Total(w, {}) = 0 /\ Total(v, {}) = 0
      BY <2>1, <2>2, TotalTake
    <3> QED BY <3>1, <2>2
  <2>3. CASE T # {}
    <3>1. PICK x \in T : TRUE
      BY <2>3
    <3>2. Total(v, T) = v[x] + Total(v, T \ {x})
      BY <2>1, TotalTake
    <3>3. Total(w, (T \ {x}) \cap R) <= Total(v, T \ {x})
      BY <1>1
    <3>4. IsFiniteSet(T \ {x}) /\ IsFiniteSet((T \ {x}) \cap R)
      BY FS_Subset
    <3>5. Total(v, T \ {x}) \in Nat /\ v[x] \in Nat
      BY <3>4, TotalTake
    <3>6. Total(w, (T \ {x}) \cap R) \in Nat
      BY <3>4, TotalTake
    <3>7. CASE x \in R
      <4>1. Total(w, T \cap R) = w[x] + Total(w, (T \cap R) \ {x})
        BY <2>1, <3>7, TotalTake
      <4>2. (T \cap R) \ {x} = (T \ {x}) \cap R
        OBVIOUS
      <4>3. w[x] \in Nat /\ w[x] <= v[x]
        BY <3>7
      <4>4. Total(w, T \cap R) = w[x] + Total(w, (T \ {x}) \cap R)
        BY <4>1, <4>2, Zenon
      <4> QED BY <3>2, <3>3, <3>5, <3>6, <4>3, <4>4
    <3>8. CASE x \notin R
      <4>1. T \cap R = (T \ {x}) \cap R
        BY <3>8
      <4>2. Total(w, T \cap R) <= Total(v, T)
        BY <3>2, <3>3, <3>5, <3>6, <4>1
      <4> QED BY <4>2
    <3> QED BY <3>7, <3>8
  <2> QED BY <2>2, <2>3
<1>2. SUBSET S \subseteq A
  <2> HIDE DEF A
  <2> QED BY <1>1, SubsetInduction
<1>3. S \cap R = R
  OBVIOUS
<1> QED BY <1>2, <1>3
-----------------------------------------------------------------------------
(* The budget of all staged restores: what the records count together,     *)
SumOK == Total(counted, Retained) <= StagingLimit

(* what a directory holds has such a record, with its size once it holds   *)
(* data,                                                                   *)
HeldOK == \A j \in RecJobs :
             /\ staged[j] # "none" => j \in Retained
             /\ staged[j] \in {"part", "whole"} => counted[j] = size[j]

(* what the record of the current job says before anything is copied,      *)
StageOK ==
    /\ recAt \in {"begin", "budget", "announce"} => staged[current] = "none"
    /\ recAt = "announce" => recKind[current] = "select"
    /\ recAt \in {"mkdir", "measure"} => record[current] = "running"
    /\ recAt = "mkdir" /\ recKind[current] = "full" => counted[current] = size[current]
    /\ recAt = "copy" /\ recKind[current] # "capture" =>
          record[current] = "running" /\ counted[current] = size[current]

(* and the start deletes what was interrupted before its record says so.   *)
DeletedOK == server = "state" => \A j \in Interrupted : staged[j] = "none"

BudgetOK == SumOK /\ HeldOK /\ StageOK /\ DeletedOK

LEMMA RetainedIs ==
    ASSUME RecTypeOK
    PROVE  /\ IsFiniteSet(RecJobs) /\ IsFiniteSet(Retained) /\ Retained \subseteq RecJobs
           /\ \A j \in RecJobs : counted[j] \in Nat /\ size[j] \in Nat
<1>1. IsFiniteSet(RecJobs)
  BY RecoveryAssumptions, FS_Interval DEF RecJobs
<1>2. Retained \subseteq RecJobs
  BY DEF Retained
<1> QED BY <1>1, <1>2, RecFacts, FS_Subset

LEMMA RetainedNext ==
    ASSUME RecTypeOK'
    PROVE  /\ IsFiniteSet(Retained') /\ Retained' \subseteq RecJobs
           /\ \A j \in RecJobs : counted'[j] \in Nat
<1>1. IsFiniteSet(RecJobs)
  BY RecoveryAssumptions, FS_Interval DEF RecJobs
<1>2. Retained' \subseteq RecJobs
  BY DEF Retained
<1>3. \A j \in RecJobs : counted'[j] \in Nat
  BY DEF RecTypeOK
<1> QED BY <1>1, <1>2, <1>3, FS_Subset

(* Records that go or count less keep the budget,                          *)
LEMMA SumKept ==
    ASSUME RecTypeOK, RecTypeOK', SumOK,
           \A j \in Retained' : j \in Retained /\ counted'[j] <= counted[j]
    PROVE  SumOK'
<1>1. IsFiniteSet(Retained) /\ IsFiniteSet(Retained')
      /\ \A j \in RecJobs : counted[j] \in Nat /\ counted'[j] \in Nat
  BY RetainedIs, RetainedNext
<1>2. Retained' \in SUBSET Retained /\ Retained \subseteq RecJobs
  BY RetainedIs
<1>3. Total(counted', Retained') <= Total(counted, Retained)
  BY <1>1, <1>2, TotalMonotone
<1>4. Total(counted, Retained) \in Nat /\ Total(counted', Retained') \in Nat /\ StagingLimit \in Nat
  BY <1>1, <1>2, TotalTake, RecNumbers
<1> QED BY <1>3, <1>4 DEF SumOK

(* and so does the record of the current job when it fits in.              *)
LEMMA SumSaved ==
    ASSUME RecTypeOK, RecTypeOK', current \in RecJobs, NEW n \in Nat, SaveRecord("running", n),
           Total(counted, Retained \ {current}) + n <= StagingLimit
    PROVE  SumOK'
<1>1. record' = [record EXCEPT ![current] = "running"] /\ counted' = [counted EXCEPT ![current] = n]
      /\ record \in [RecJobs -> RecStates] /\ counted \in [RecJobs -> Nat]
  BY RecFacts DEF SaveRecord, Put
<1> DEFINE Rest == Retained \ {current}
<1>2. Retained' = Rest \cup {current}
  BY <1>1 DEF Retained
<1>3. /\ current \in Retained' /\ Retained' \ {current} = Rest /\ IsFiniteSet(Retained')
      /\ IsFiniteSet(Rest) /\ \A j \in Retained' : counted'[j] \in Nat
      /\ \A j \in Rest : counted[j] \in Nat /\ counted'[j] \in Nat /\ counted'[j] <= counted[j]
  <2>1. IsFiniteSet(Retained) /\ IsFiniteSet(Rest) /\ Retained \subseteq RecJobs
    BY RetainedIs, FS_Subset
  <2>2. \A j \in RecJobs : j # current => counted'[j] = counted[j]
    BY <1>1
  <2>3. \A j \in RecJobs : counted[j] \in Nat /\ counted'[j] \in Nat
    BY RetainedIs, RetainedNext
  <2> QED BY <1>2, <2>1, <2>2, <2>3, FS_AddElement
<1>4. counted'[current] = n
  BY <1>1
<1> HIDE DEF Rest
<1>5. Total(counted', Retained') = n + Total(counted', Rest)
  BY <1>3, <1>4, TotalTake
<1>6. Total(counted', Rest) <= Total(counted, Rest)
  BY <1>3, TotalMonotone
<1>7. Total(counted', Rest) \in Nat /\ Total(counted, Rest) \in Nat /\ StagingLimit \in Nat
  BY <1>3, TotalTake, RecNumbers
<1>8. Total(counted, Rest) + n <= StagingLimit
  BY DEF Rest
<1> QED BY <1>5, <1>6, <1>7, <1>8 DEF SumOK

(* Where no record and no directory is touched.                             *)
LEMMA HeldKept ==
    ASSUME RecTypeOK, RecTypeOK', SumOK, HeldOK, UNCHANGED <<record, staged, counted>>,
           \A j \in RecJobs : staged[j] # "none" => size'[j] = size[j]
    PROVE  SumOK' /\ HeldOK'
<1>1. Retained' = Retained
  BY DEF Retained
<1>2. SumOK'
  BY <1>1 DEF SumOK
<1>3. HeldOK'
  BY <1>1 DEF HeldOK
<1> QED BY <1>2, <1>3

LEMMA BudgetStep ==
    ASSUME RecTypeOK, RecTypeOK', FreshOK, CurrentOK, PlaceOK, BudgetOK, [RecNext]_recVars
    PROVE  BudgetOK'
<1>0. /\ SumOK /\ HeldOK /\ StageOK /\ DeletedOK /\ NoJob \notin RecJobs
      /\ record \in [RecJobs -> RecStates] /\ staged \in [RecJobs -> Holdings]
      /\ recKind \in [RecJobs -> RecKinds]
      /\ size \in [RecJobs -> Nat] /\ counted \in [RecJobs -> Nat]
      /\ (current # NoJob => current \in RecJobs) /\ (removing # NoJob => removing \in RecJobs)
      /\ recAt # "idle" => current # NoJob
  BY RecFacts, RecNumbers DEF BudgetOK, CurrentOK
<1>1. CASE \/ BeginRecovery \/ MakeScratch \/ Publish \/ PruneBegins \/ PruneEnds \/ Captured
           \/ StepFails \/ LateCancel \/ FinishRecovery \/ FinishFails \/ ReleaseLock
           \/ \E f \in StoredFiles : TakeInventory(f) \/ CopyFile(f) \/ InventoryAgain(f)
  <2>1. RecThread /\ server' = "up" /\ UNCHANGED <<record, staged, counted, size>>
    BY <1>1, ThreadFrame DEF RecThread, BeginRecovery, MakeScratch, Publish, PruneBegins,
       PruneEnds, Captured, StepFails, LateCancel, FinishRecovery, FinishFails, ReleaseLock,
       TakeInventory, CopyFile, InventoryAgain, staging
  <2>2. /\ recAt' \notin {"begin", "mkdir", "measure"}
        /\ recAt' \in {"budget", "announce"} => recAt = "begin" /\ current' = current
        /\ recAt' = "announce" => recKind'[current] = "select"
        /\ recAt' = "copy" => current' = current /\ UNCHANGED recKind
                              /\ recKind[current] = "capture"
    <3>1. CASE BeginRecovery
      <4>1. /\ recAt = "begin" /\ UNCHANGED <<current, recKind>>
            /\ recKind[current] \in {"capture", "full", "select"} /\ recCancel \in BOOLEAN
        BY <1>0, <3>1 DEF BeginRecovery, RecIn, Goes, CurrentOK, RecKinds, RecTypeOK
      <4>2. recAt' = CASE recCancel -> "cancelled"
                       [] ~recCancel /\ recKind[current] = "capture" -> "workspace"
                       [] ~recCancel /\ recKind[current] = "full"    -> "budget"
                       [] ~recCancel /\ recKind[current] = "select"  -> "announce"
        BY <3>1 DEF BeginRecovery, Goes
      <4>3. \/ recAt' \in {"cancelled", "workspace", "budget"}
            \/ recAt' = "announce" /\ recKind[current] = "select"
        BY <4>1, <4>2
      <4> QED BY <4>1, <4>3
    <3>2. CASE \/ MakeScratch \/ Publish \/ PruneBegins \/ PruneEnds \/ Captured \/ StepFails
               \/ LateCancel \/ FinishRecovery \/ FinishFails \/ ReleaseLock
      BY <3>2 DEF MakeScratch, Publish, PruneBegins, PruneEnds, Captured, StepFails, LateCancel,
         FinishRecovery, FinishFails, ReleaseLock, RecIn, Goes
    <3>3. CASE \E f \in StoredFiles : TakeInventory(f)
      <4>1. /\ recAt = "inventory" /\ UNCHANGED <<current, recKind>> /\ current # NoJob
            /\ recAt' \in {"copy", "inventory"}
        BY <3>3 DEF TakeInventory, RecIn, Goes
      <4> QED BY <4>1 DEF CurrentOK, Capturing
    <3>4. CASE \E f \in StoredFiles : CopyFile(f) \/ InventoryAgain(f)
      BY <3>4 DEF CopyFile, InventoryAgain, RecIn, Goes
    <3> QED BY <1>1, <3>1, <3>2, <3>3, <3>4
  <2>3. StageOK'
    BY <1>0, <2>1, <2>2 DEF StageOK
  <2> QED BY <1>0, <2>1, <2>3, HeldKept DEF BudgetOK, DeletedOK
<1>2. CASE BudgetFull \/ Announce \/ Measure
  <2>1. /\ current \in RecJobs /\ server' = "up" /\ current' = current
        /\ UNCHANGED <<staged, size, recKind>>
        /\ recAt \in {"budget", "announce", "measure"}
    BY <1>0, <1>2 DEF BudgetFull, Announce, Measure, RecIn, Goes
  <2>2. CASE recAt' = "failed" /\ UNCHANGED <<record, counted>>
    BY <1>0, <2>1, <2>2, HeldKept DEF BudgetOK, DeletedOK, StageOK
  <2>3. CASE recAt' = "mkdir" /\ SaveRecord("running", 0) /\ recAt = "announce"
             /\ recKind[current] # "full"
    <3>1. record' = [record EXCEPT ![current] = "running"]
          /\ counted' = [counted EXCEPT ![current] = 0] /\ staged[current] = "none"
      BY <1>0, <2>3 DEF SaveRecord, Put, StageOK
    <3>2. SumOK'
      <4>1. IsFiniteSet(Retained) /\ Retained \ {current} \in SUBSET Retained
            /\ \A j \in Retained : counted[j] \in Nat
        BY RetainedIs
      <4>2. IsFiniteSet(Retained \ {current})
        BY <4>1, FS_Subset
      <4>3. Total(counted, Retained \ {current}) <= Total(counted, Retained)
        <5>1. \A j \in Retained \ {current} : counted[j] \in Nat /\ counted[j] <= counted[j]
          BY <4>1
        <5> QED BY <4>1, <5>1, TotalMonotone
      <4>4. Total(counted, Retained \ {current}) \in Nat /\ Total(counted, Retained) \in Nat
            /\ StagingLimit \in Nat
        BY <4>1, <4>2, TotalTake, RecNumbers
      <4>5. Total(counted, Retained \ {current}) + 0 <= StagingLimit
        BY <1>0, <4>3, <4>4 DEF SumOK
      <4> QED BY <2>1, <2>3, <4>5, SumSaved
    <3>3. HeldOK'
      BY <1>0, <2>1, <3>1 DEF HeldOK, Retained
    <3>4. StageOK'
      BY <1>0, <2>1, <2>3, <3>1 DEF StageOK
    <3> QED BY <2>1, <3>2, <3>3, <3>4 DEF BudgetOK, DeletedOK
  <2>4. CASE recAt' \in {"mkdir", "copy"} /\ SaveRecord("running", size[current]) /\ FitsBudget
    <3>1. record' = [record EXCEPT ![current] = "running"]
          /\ counted' = [counted EXCEPT ![current] = size[current]]
      BY <2>4 DEF SaveRecord, Put
    <3>2. SumOK'
      BY <1>0, <2>1, <2>4, SumSaved DEF FitsBudget
    <3>3. HeldOK'
      BY <1>0, <2>1, <3>1 DEF HeldOK, Retained
    <3>4. StageOK'
      BY <1>0, <2>1, <2>4, <3>1 DEF StageOK
    <3> QED BY <2>1, <3>2, <3>3, <3>4 DEF BudgetOK, DeletedOK
  <2>5. recAt = "announce" => recKind[current] # "full"
    BY <1>0 DEF StageOK
  <2> QED BY <1>2, <2>2, <2>3, <2>4, <2>5 DEF BudgetFull, Announce, Measure, Goes, RecIn
<1>3. CASE MakeStaged \/ SpawnCopy \/ CopyPoint \/ CopyDone
  <2>1. /\ current \in RecJobs /\ server' = "up" /\ current' = current
        /\ UNCHANGED <<record, size, counted, recKind>> /\ RecIn(recAt)
    BY <1>0, <1>3, ThreadFrame DEF MakeStaged, SpawnCopy, CopyPoint, CopyDone, RecIn, Goes,
       RecThread
  <2>2. /\ \A j \in RecJobs : j # current => staged'[j] = staged[j]
        /\ record[current] = "running" \/ staged' = staged
        /\ \/ staged'[current] = "made" \/ staged' = staged
           \/ recKind[current] # "capture" /\ counted[current] = size[current]
        /\ recAt' \in {"copy", "measure", "failed", "ready"}
        /\ recAt' = "measure" => record[current] = "running"
        /\ recAt' = "copy" /\ recKind[current] # "capture" =>
              record[current] = "running" /\ counted[current] = size[current]
    <3>1. CASE MakeStaged
      BY <1>0, <2>1, <3>1 DEF MakeStaged, RecIn, Goes, Put, StageOK
    <3>2. CASE SpawnCopy
      BY <1>0, <2>1, <3>2 DEF SpawnCopy, RecIn, Goes, Put, StageOK
    <3>3. CASE CopyPoint
      BY <1>0, <2>1, <3>3 DEF CopyPoint, RecIn, Goes, Put, StageOK
    <3>4. CASE CopyDone
      BY <1>0, <2>1, <3>4 DEF CopyDone, RecIn, Goes, Put, StageOK
    <3> QED BY <1>3, <3>1, <3>2, <3>3, <3>4
  <2>3. Retained' = Retained
    BY <2>1 DEF Retained
  <2>4. SumOK'
    BY <1>0, <2>1, <2>3 DEF SumOK
  <2>5. HeldOK'
    BY <1>0, <2>1, <2>2, <2>3 DEF HeldOK, Retained
  <2>6. StageOK'
    BY <2>1, <2>2 DEF StageOK
  <2> QED BY <2>1, <2>4, <2>5, <2>6 DEF BudgetOK, DeletedOK
<1>4. CASE CleanUp \/ SaveOutcome
  <2>1. /\ current \in RecJobs /\ server' = "up" /\ recAt' \in {"error", "release"}
        /\ UNCHANGED <<size, counted>>
        /\ staged' = staged \/ (staged' = [staged EXCEPT ![current] = "none"])
        /\ \/ record' = record
           \/ /\ staged' = staged
              /\ \/ record' = [record EXCEPT ![current] = "ready"] /\ staged[current] = "whole"
                 \/ record' = [record EXCEPT ![current] = "cleanup"] /\ staged[current] # "none"
                 \/ record' = [record EXCEPT ![current] = "error"] /\ staged[current] = "none"
    BY <1>0, <1>4 DEF CleanUp, SaveOutcome, RecIn, Goes, Put, CurrentOK
  <2>2. \A j \in RecJobs : j \in Retained' => j \in Retained
    BY <1>0, <2>1 DEF Retained, HeldOK
  <2>3. \A j \in RecJobs : staged'[j] # "none" => j \in Retained' /\ staged'[j] = staged[j]
    BY <1>0, <2>1 DEF Retained, HeldOK
  <2>4. SumOK'
    <3>1. Retained' \subseteq RecJobs
      BY RetainedNext
    <3>2. \A j \in Retained' : j \in Retained /\ counted'[j] <= counted[j]
      BY <1>0, <2>1, <2>2, <3>1
    <3> QED BY <1>0, <3>2, SumKept
  <2>5. HeldOK'
    BY <1>0, <2>1, <2>3 DEF HeldOK
  <2> QED BY <2>1, <2>4, <2>5 DEF BudgetOK, DeletedOK, StageOK
<1>5. CASE StartRecovery
  <2>1. PICK j \in RecJobs : /\ recRow[j] = "none" /\ current' = j
                             /\ \E n : size' = [size EXCEPT ![j] = n]
    BY <1>5 DEF StartRecovery, NextFree
  <2>2. /\ server' = "up" /\ recAt' = "begin" /\ UNCHANGED <<record, staged, counted>>
    BY <1>5 DEF StartRecovery, LockFree
  <2>3. staged[j] = "none"
    BY <2>1 DEF FreshOK
  <2>4. SumOK' /\ HeldOK'
    BY <1>0, <2>1, <2>2, <2>3, HeldKept
  <2> QED BY <2>1, <2>2, <2>3, <2>4 DEF BudgetOK, DeletedOK, StageOK
<1>6. CASE CancelRecovery \/ LostChildEnds \/ UNCHANGED recVars \/ Crash
           \/ \E f \in StoredFiles : TargetWritten(f)
  <2>1. /\ UNCHANGED <<record, staged, counted, size, recKind, recRow>>
        /\ server' = "down" \/ UNCHANGED server
        /\ recAt' = "idle" \/ UNCHANGED <<recAt, current>>
    BY <1>6 DEF CancelRecovery, LostChildEnds, recVars, TargetWritten, Crash, recoveryJob,
                recoveryRows, staging
  <2>2. Interrupted' = Interrupted
    BY <2>1 DEF Interrupted
  <2> QED BY <1>0, <2>1, <2>2, HeldKept DEF BudgetOK, DeletedOK, StageOK
<1>7. CASE EndRemoval
  <2>1. /\ removing \in RecJobs /\ server' = "up" /\ recAt' = "idle" /\ UNCHANGED size
        /\ staged' = [staged EXCEPT ![removing] = "none"]
        /\ record' = [record EXCEPT ![removing] = "none"]
        /\ counted' = [counted EXCEPT ![removing] = 0]
    BY <1>0, <1>7 DEF EndRemoval, PlaceOK, recoveryJob, CurrentOK
  <2>2. \A j \in Retained' : j \in Retained /\ counted'[j] <= counted[j]
    BY <1>0, <2>1 DEF Retained
  <2>3. SumOK'
    BY <1>0, <2>2, SumKept
  <2>4. HeldOK'
    BY <1>0, <2>1 DEF HeldOK, Retained
  <2> QED BY <2>1, <2>3, <2>4 DEF BudgetOK, DeletedOK, StageOK
<1>8. CASE \E j \in RecJobs : BeginRemoval(j)
  <2>1. PICK j \in RecJobs : BeginRemoval(j)
    BY <1>8
  <2>2. /\ server' = "up" /\ recAt' = "idle" /\ UNCHANGED <<record, size, counted>>
        /\ \A i \in RecJobs : \/ staged'[i] = staged[i]
                              \/ staged[i] = "whole" /\ staged'[i] = "part"
    BY <1>0, <2>1 DEF BeginRemoval, LockFree, recoveryJob, CurrentOK
  <2>3. Retained' = Retained
    BY <2>2 DEF Retained
  <2>4. SumOK' /\ HeldOK'
    BY <1>0, <2>2, <2>3 DEF SumOK, HeldOK
  <2> QED BY <2>2, <2>4 DEF BudgetOK, DeletedOK, StageOK
<1>9. CASE BootReplay \/ BootReconcile
  <2>1. /\ server' \notin {"down", "state"} /\ recAt' = "idle" /\ UNCHANGED <<record, staged, counted, size>>
    BY <1>0, <1>9 DEF BootReplay, BootReconcile, recoveryJob, staging, CurrentOK
  <2> QED BY <1>0, <2>1, HeldKept DEF BudgetOK, DeletedOK, StageOK
<1>10. CASE BootDelete
  <2>1. /\ recAt' = "idle" /\ UNCHANGED <<record, recRow, size, counted>>
        /\ staged' = [j \in RecJobs |-> IF j \in Interrupted THEN "none" ELSE staged[j]]
    BY <1>0, <1>10 DEF BootDelete, recoveryJob, recoveryRows, CurrentOK
  <2>2. Retained' = Retained /\ Interrupted' = Interrupted /\ Interrupted \subseteq RecJobs
    BY <2>1 DEF Retained, Interrupted
  <2>3. SumOK' /\ HeldOK' /\ DeletedOK'
    BY <1>0, <2>1, <2>2 DEF SumOK, HeldOK, DeletedOK
  <2> QED BY <2>1, <2>3 DEF BudgetOK, StageOK
<1>11. CASE BootSave
  <2>1. /\ recAt' = "idle" /\ server' = "up" /\ UNCHANGED <<staged, size, counted>>
        /\ \A j \in RecJobs : staged[j] # "none" => j \in Retained'
        /\ \A j \in RecJobs : j \in Retained' => j \in Retained
    <3>1. \A j \in Interrupted : staged[j] = "none"
      BY <1>0, <1>11 DEF BootSave, DeletedOK
    <3> QED BY <1>0, <1>11, <3>1 DEF BootSave, recoveryJob, CurrentOK, HeldOK, Retained, Interrupted
  <2>2. SumOK'
    <3>1. Retained' \subseteq RecJobs
      BY RetainedNext
    <3>2. \A j \in Retained' : j \in Retained /\ counted'[j] <= counted[j]
      BY <1>0, <2>1, <3>1
    <3> QED BY <1>0, <3>2, SumKept
  <2>3. HeldOK'
    BY <1>0, <2>1 DEF HeldOK
  <2> QED BY <2>1, <2>2, <2>3 DEF BudgetOK, DeletedOK, StageOK
<1> QED BY <1>1, <1>2, <1>3, <1>4, <1>5, <1>6, <1>7, <1>8, <1>9, <1>10, <1>11
        DEF RecNext, RecThread, RecBoot

LEMMA BudgetInitially == RecInit => BudgetOK
<1> SUFFICES ASSUME RecInit PROVE BudgetOK
  OBVIOUS
<1>1. RecTypeOK /\ StagingLimit \in Nat
  BY RecInitially, RecNumbers DEF RecoveryInvariant
<1>2. Retained = {}
  BY DEF RecInit, Retained
<1>3. Total(counted, {}) = 0
  BY FS_EmptySet, TotalTake
<1>4. SumOK
  BY <1>1, <1>2, <1>3 DEF SumOK
<1> QED BY <1>4 DEF BudgetOK, HeldOK, StageOK, DeletedOK, RecInit

LEMMA BudgetHolds == RecSpec => []BudgetOK
<1>1. RecoveryInvariant /\ RecoveryInvariant' /\ BudgetOK /\ [RecNext]_recVars => BudgetOK'
  BY BudgetStep DEF RecoveryInvariant
<1> QED BY <1>1, BudgetInitially, RecoveryHolds, PTL DEF RecSpec

LEMMA WithinBudget == RecTypeOK /\ BudgetOK => DiskWithinBudget
<1> SUFFICES ASSUME RecTypeOK, BudgetOK PROVE DiskWithinBudget
  OBVIOUS
<1> DEFINE Held == {j \in RecJobs : staged[j] \in {"part", "whole"}}
<1>1. /\ IsFiniteSet(Retained) /\ Held \in SUBSET Retained
      /\ \A j \in Retained : counted[j] \in Nat
      /\ \A j \in Held : size[j] \in Nat /\ size[j] <= counted[j]
  BY RetainedIs DEF BudgetOK, HeldOK
<1>2. IsFiniteSet(Held)
  BY <1>1, FS_Subset
<1>3. Total(size, Held) <= Total(counted, Retained)
  BY <1>1, TotalMonotone
<1>4. Total(size, Held) \in Nat /\ Total(counted, Retained) \in Nat /\ StagingLimit \in Nat
  BY <1>1, <1>2, TotalTake, RecNumbers
<1>5. Total(size, Held) <= StagingLimit
  BY <1>3, <1>4 DEF BudgetOK, SumOK
<1> QED BY <1>5 DEF DiskWithinBudget

-----------------------------------------------------------------------------
(* Types: in particular a recovery that holds the lock is one that was     *)
(* started, and every stored status is one the code writes.                *)
THEOREM RecoveryTypesHold == RecSpec => []RecTypeOK
BY RecoveryHolds, PTL DEF RecoveryInvariant

(* capture_snapshot: a full point is the target as it was at one moment,   *)
(* whatever outsiders write while the capture lists, copies and lists      *)
(* again, for any number of files.                                         *)
THEOREM PointsAreOneMoment == RecSpec => []PointIsOneMoment
BY RecoveryHolds, PTL DEF RecoveryInvariant

(* run_snapshot_restore, run_selective_restore, reconcile_staging: what    *)
(* the operator is shown as ready is complete and was verified, whenever   *)
(* the server is killed and whichever save fails or comes late.            *)
THEOREM ReadyRestoresAreWhole == RecSpec => []ReadyIsWhole
BY RecoveryHolds, PTL DEF RecoveryInvariant

(* ensure_cleanup_safe, remove_staging, reconcile_staging: no directory    *)
(* vanishes while a child that may still write there lives, also when that *)
(* child has outlived the server that started it.                          *)
THEOREM ChildrenKeepTheirPlace == RecSpec => ChildKeepsItsPlace
<1>1. RecSpec => []RecoveryInvariant
  BY RecoveryHolds
<1>2. RecoveryInvariant /\ [RecNext]_recVars =>
         [recChild # NoJob =>
            /\ staged[recChild] # "none" => staged'[recChild] # "none"
            /\ scratch[recChild] # "none" => scratch'[recChild] # "none"]_recVars
  BY ChildKeepsStep
<1> QED BY <1>1, <1>2, PTL DEF RecSpec, ChildKeepsItsPlace

(* check_staging_budget, _save_record, remove_staging, reconcile_staging:   *)
(* all staged data together stays within recovery_staging_max_mb, for any  *)
(* number of restores, though a record counts nothing before its selection *)
(* is measured, cleanups and saves fail and the server is killed.          *)
THEOREM StagedDataFitsTheBudget == RecSpec => []DiskWithinBudget
BY RecoveryHolds, BudgetHolds, WithinBudget, PTL DEF RecoveryInvariant
=============================================================================
