------------------------- MODULE JobLifecycleProofs -------------------------
(***************************************************************************)
(* Machine-checked proofs about JobLifecycle, for any number of processes, *)
(* jobs, pairs, attempts, crashes and failing operations.                  *)
(*                                                                         *)
(* The inductive invariant is the conjunction Invariant of JobLifecycle,   *)
(* together with TypeOK.  Each of its conjuncts has one step lemma; the    *)
(* steps follow the groups of actions Next is made of.  One conjunct,      *)
(* ReplayOK, needs the assumption that no replay fails between the lock    *)
(* and the marking of stale jobs (ReplayFaults = FALSE).                   *)
(***************************************************************************)
EXTENDS JobLifecycle, TLAPS

(* A pair thread touches children, markers and its own progress, nothing else. *)
LEMMA PairFrame ==
    ASSUME NEW w \in Workers,
           \/ \E p \in Pairs : PairStep(w, p)
           \/ \E p \in Pairs : PairElse(w, p)
    PROVE  UNCHANGED <<lock, workVars, replayed, tableVars, runFile, cancelVars, ours>>
BY DEF PairStep, CheckPair, Spawn, Register, Reap, StopOnCancel, PairElse,
       RegisterFails, StopOnWatchdog, StopUnconfirmed, RunUnchanged

(* Every variable keeps its type; a worker's registers fit its place.        *)
LEMMA TypeStep ==
    ASSUME TypeOK, WorkerOK, [Next]_vars
    PROVE  TypeOK'
<1> USE JobAssumptions DEF TypeOK, WorkerOK, workVars, tableVars, childVars,
    cancelVars, bounds, Goto, Home, Places, Recovering, Cleared, Running,
    Pending, Active, HasWork, JobFinish, Cancelled, Fault, NoneRunning,
    AfterNoStart, Retry, Forget, ThreadsDone, Thread, Advance, Terminate, Kid,
    Kids, RunUnchanged, Driving, Statuses, Results, NoResult
<1>1. ASSUME NEW w \in Workers, TryLock(w) PROVE TypeOK'
  BY <1>1 DEF TryLock
<1>2. ASSUME NEW w \in Workers, Reconcile(w) PROVE TypeOK'
  <2>1. CASE CheckActive(w)
    BY <2>1 DEF CheckActive
  <2>2. CASE RecoverRunFile(w)
    <3>1. runFile' \in [job : Jobs \cup {NoJob}, status : Statuses]
      BY <2>2 DEF RecoverRunFile
    <3>2. marked' \subseteq Kids /\ pc' \in [Workers -> Places]
      BY <2>2 DEF RecoverRunFile
    <3>3. marker' \in BOOLEAN
      BY <2>2 DEF RecoverRunFile
    <3>4. UNCHANGED <<lock, cur, result, tries, todo, replayed, status, staged,
                      applied, webEvent, canceller, heard, thread, alive, ours,
                      crashes, faults>>
      BY <2>2 DEF RecoverRunFile
    <3> QED BY <3>1, <3>2, <3>3, <3>4, Zenon DEF TypeOK
  <2>3. CASE CollectIntents(w)
    BY <2>3 DEF CollectIntents
  <2>4. CASE \E j \in Jobs : ReplayFinish(w, j)
    BY <2>4 DEF ReplayFinish
  <2>5. CASE ReplayMark(w)
    BY <2>5 DEF ReplayMark
  <2>6. CASE ReplayDone(w)
    BY <2>6 DEF ReplayDone
  <2>7. CASE BootRunFile(w)
    BY <2>7 DEF BootRunFile
  <2>8. CASE MarkStale(w)
    BY <2>8 DEF MarkStale
  <2> QED BY <1>2, <2>1, <2>2, <2>3, <2>4, <2>5, <2>6, <2>7, <2>8 DEF Reconcile
<1>3. ASSUME NEW w \in Workers, Reserve(w) PROVE TypeOK'
  <2>1. CASE ResetEvent(w)
    BY <2>1 DEF ResetEvent
  <2>2. CASE ResetMarker(w)
    BY <2>2 DEF ResetMarker
  <2>3. CASE \E j \in Jobs : Start(w, j)
    BY <2>3 DEF Start
  <2>4. CASE StartRejected(w)
    BY <2>4 DEF StartRejected
  <2> QED BY <1>3, <2>1, <2>2, <2>3, <2>4 DEF Reserve
<1>4. ASSUME NEW w \in Workers, Drive(w) PROVE TypeOK'
  <2>1. CASE BeginRun(w)
    BY <2>1 DEF BeginRun
  <2>2. CASE SkipRun(w)
    BY <2>2 DEF SkipRun
  <2>3. CASE EndRun(w)
    BY <2>3 DEF EndRun
  <2>4. CASE \E p \in Pairs : PairStep(w, p)
    <3>1. ASSUME NEW p \in Pairs, CheckPair(w, p) PROVE TypeOK'
      BY <3>1 DEF CheckPair
    <3>2. ASSUME NEW p \in Pairs, Spawn(w, p) PROVE TypeOK'
      BY <3>2 DEF Spawn
    <3>3. ASSUME NEW p \in Pairs, Register(w, p) PROVE TypeOK'
      BY <3>3 DEF Register
    <3>4. ASSUME NEW p \in Pairs, Reap(w, p) PROVE TypeOK'
      BY <3>4 DEF Reap
    <3>5. ASSUME NEW p \in Pairs, StopOnCancel(w, p) PROVE TypeOK'
      BY <3>5 DEF StopOnCancel
    <3> QED BY <2>4, <3>1, <3>2, <3>3, <3>4, <3>5 DEF PairStep
  <2> QED BY <1>4, <2>1, <2>2, <2>3, <2>4 DEF Drive
<1>5. ASSUME NEW w \in Workers, Close(w) PROVE TypeOK'
  <2>1. CASE StageResult(w)
    BY <2>1 DEF StageResult
  <2>2. CASE ApplyFinish(w)
    BY <2>2 DEF ApplyFinish
  <2>3. CASE ApplyMark(w)
    BY <2>3 DEF ApplyMark
  <2>4. CASE CloseFailed(w)
    BY <2>4 DEF CloseFailed
  <2>5. CASE FinishRunFile(w)
    BY <2>5 DEF FinishRunFile
  <2>6. CASE NextJob(w)
    BY <2>6 DEF NextJob
  <2>7. CASE Release(w)
    BY <2>7 DEF Release
  <2> HIDE DEF TypeOK
  <2> QED BY <1>5, <2>1, <2>2, <2>3, <2>4, <2>5, <2>6, <2>7 DEF Close
<1>6. ASSUME NEW w \in Workers, ReconcileElse(w) PROVE TypeOK'
  <2>1. CASE CollectIntents(w)
    BY <2>1 DEF CollectIntents
  <2>2. ASSUME NEW j \in Jobs, ReplayFinishFails(w, j) PROVE TypeOK'
    BY <2>2 DEF ReplayFinishFails
  <2>3. ASSUME NEW j \in Jobs, StartFails(w, j) PROVE TypeOK'
    BY <2>3 DEF StartFails
  <2>4. CASE ReplayMarkFails(w)
    BY <2>4 DEF ReplayMarkFails
  <2>5. CASE ReconcileRaises(w)
    BY <2>5 DEF ReconcileRaises
  <2> HIDE DEF TypeOK
  <2> QED BY <1>6, <2>1, <2>2, <2>3, <2>4, <2>5 DEF ReconcileElse
<1>7. ASSUME NEW w \in Workers, DriveElse(w) PROVE TypeOK'
  <2>1. CASE RunRaises(w)
    BY <2>1 DEF RunRaises
  <2>2. CASE \E p \in Pairs : PairElse(w, p)
    <3>1. ASSUME NEW p \in Pairs, RegisterFails(w, p) PROVE TypeOK'
      BY <3>1 DEF RegisterFails
    <3>2. ASSUME NEW p \in Pairs, StopOnWatchdog(w, p) PROVE TypeOK'
      BY <3>2 DEF StopOnWatchdog
    <3>3. ASSUME NEW p \in Pairs, StopUnconfirmed(w, p) PROVE TypeOK'
      BY <3>3 DEF StopUnconfirmed
    <3> QED BY <2>2, <3>1, <3>2, <3>3 DEF PairElse
  <2> QED BY <1>7, <2>1, <2>2 DEF DriveElse
<1>8. ASSUME NEW w \in Workers, CloseElse(w) PROVE TypeOK'
  <2>1. CASE StageFails(w)
    BY <2>1 DEF StageFails
  <2>2. CASE ApplyFinishFails(w)
    <3>1. status' \in [Jobs -> Statuses]
      <4>1. /\ cur[w] \in Jobs /\ staged[cur[w]] \in Statuses
            /\ status[cur[w]] \in Statuses /\ status \in [Jobs -> Statuses]
        BY <2>2 DEF ApplyFinishFails
      <4>2. \/ status' = status
            \/ status' = [status EXCEPT ![cur[w]] = staged[cur[w]]]
            \/ status' = [status EXCEPT ![cur[w]] = status[cur[w]]]
        BY <2>2 DEF ApplyFinishFails
      <4> HIDE JobAssumptions DEF TypeOK, WorkerOK, Statuses, Results
      <4> QED BY <4>1, <4>2
    <3>2. pc' \in [Workers -> Places] /\ tries' \in [Workers -> 0 .. Attempts]
      <4>1. pc' \in [Workers -> Places]
        BY <2>2 DEF ApplyFinishFails
      <4>2. tries' \in [Workers -> 0 .. Attempts]
        <5>1. tries[w] \in 0 .. Attempts /\ tries[w] < Attempts /\ Attempts \in Nat
          BY <2>2 DEF ApplyFinishFails
        <5>2. tries[w] + 1 \in 0 .. Attempts
          <6> HIDE JobAssumptions DEF TypeOK, WorkerOK
          <6> QED BY <5>1
        <5> QED BY <2>2, <5>2 DEF ApplyFinishFails
      <4> QED BY <4>1, <4>2
    <3>3. /\ faults' \in 0 .. MaxFaults
          /\ UNCHANGED <<lock, cur, result, todo, replayed, staged, applied, runFile,
                         marker, webEvent, canceller, heard, thread, alive, marked,
                         ours, crashes>>
      BY <2>2 DEF ApplyFinishFails
    <3> QED BY <3>1, <3>2, <3>3, Zenon DEF TypeOK
  <2>3. CASE ApplyMarkFails(w)
    BY <2>3 DEF ApplyMarkFails
  <2>4. CASE CloseFailedFails(w)
    <3>1. status' \in [Jobs -> Statuses]
      BY <2>4 DEF CloseFailedFails
    <3>2. pc' \in [Workers -> Places] /\ tries' \in [Workers -> 0 .. Attempts]
      BY <2>4 DEF CloseFailedFails
    <3>3. /\ faults' \in 0 .. MaxFaults
          /\ UNCHANGED <<lock, cur, result, todo, replayed, staged, applied, runFile,
                         marker, webEvent, canceller, heard, thread, alive, marked,
                         ours, crashes>>
      BY <2>4 DEF CloseFailedFails
    <3> QED BY <3>1, <3>2, <3>3, Zenon DEF TypeOK
  <2> HIDE DEF TypeOK
  <2> QED BY <1>8, <2>1, <2>2, <2>3, <2>4 DEF CloseElse
<1>9. ASSUME NEW w \in Workers, Crash(w) PROVE TypeOK'
  <2>1. thread' \in [Kids -> {"pending", "ready", "spawned", "watched",
                            "good", "bad", "lost"}]
    BY <1>9 DEF Crash
  <2>2. alive' \subseteq Kids /\ crashes' \in 0..MaxCrashes
    BY <1>9 DEF Crash
  <2>3. /\ canceller' \in {"idle", "marker", "kill"}
        /\ replayed' \subseteq Jobs
        /\ lock' \in Workers \cup {Nobody}
    BY <1>9 DEF Crash
  <2>4. webEvent' \in BOOLEAN
    BY <1>9 DEF Crash
  <2>5. /\ pc' \in [Workers -> Places]
        /\ cur' \in [Workers -> Jobs \cup {NoJob}]
        /\ result' \in [Workers -> Results \cup {NoResult}]
        /\ tries' \in [Workers -> 0..Attempts]
        /\ todo' \in [Workers -> SUBSET Jobs]
    BY <1>9 DEF Crash
  <2> QED BY <1>9, <2>1, <2>2, <2>3, <2>4, <2>5 DEF Crash
<1>10. ASSUME NEW c \in Kids, KidExit(c) PROVE TypeOK'
  BY <1>10 DEF KidExit
<1>11. CASE Cancel
  <2>1. CASE CancelEvent
    BY <2>1 DEF CancelEvent
  <2>2. CASE CancelMarker
    BY <2>2 DEF CancelMarker
  <2>3. CASE CancelMarkerFails
    BY <2>3 DEF CancelMarkerFails
  <2>4. CASE CancelKill
    BY <2>4 DEF CancelKill
  <2>5. CASE CancelKillUnconfirmed
    BY <2>5 DEF CancelKillUnconfirmed
  <2> QED BY <1>11, <2>1, <2>2, <2>3, <2>4, <2>5 DEF Cancel
<1>12. CASE UNCHANGED vars
  BY <1>12 DEF vars
<1> QED BY <1>1, <1>2, <1>3, <1>4, <1>5, <1>6, <1>7, <1>8, <1>9, <1>10, <1>11,
    <1>12 DEF Next, Proceed, Suffer

(* Two workers are never both inside the section the lock protects.          *)
LEMMA LockStep ==
    ASSUME TypeOK, LockOK, [Next]_vars
    PROVE  LockOK'
<1> USE JobAssumptions DEF TypeOK, LockOK, workVars, tableVars, childVars,
    cancelVars, bounds, Goto, Home, Places, Recovering, Cleared, Running,
    Held, Replaying, AfterNoStart, Retry, Forget
<1>1. ASSUME NEW w \in Workers, TryLock(w) PROVE LockOK'
  BY <1>1 DEF TryLock
<1>2. ASSUME NEW w \in Workers, Reconcile(w) PROVE LockOK'
  BY <1>2 DEF Reconcile, CheckActive, RecoverRunFile, CollectIntents,
      ReplayFinish, ReplayMark, ReplayDone, BootRunFile, MarkStale
<1>3. ASSUME NEW w \in Workers, Reserve(w) PROVE LockOK'
  BY <1>3 DEF Reserve, ResetEvent, ResetMarker, Start, StartRejected
<1>4. ASSUME NEW w \in Workers, Drive(w) PROVE LockOK'
  <2>1. CASE BeginRun(w)
    BY <2>1 DEF BeginRun
  <2>2. CASE SkipRun(w)
    BY <2>2 DEF SkipRun
  <2>3. CASE EndRun(w)
    BY <2>3 DEF EndRun
  <2>4. CASE \E p \in Pairs : PairStep(w, p)
    BY <2>4, PairFrame
  <2> QED BY <1>4, <2>1, <2>2, <2>3, <2>4 DEF Drive
<1>5. ASSUME NEW w \in Workers, Close(w) PROVE LockOK'
  BY <1>5 DEF Close, StageResult, ApplyFinish, ApplyMark, CloseFailed,
      FinishRunFile, NextJob, Release
<1>6. ASSUME NEW w \in Workers, ReconcileElse(w) PROVE LockOK'
  BY <1>6 DEF ReconcileElse, CollectIntents, ReplayFinishFails, StartFails,
      ReplayMarkFails, ReconcileRaises
<1>7. ASSUME NEW w \in Workers, DriveElse(w) PROVE LockOK'
  <2>1. CASE RunRaises(w)
    BY <2>1 DEF RunRaises
  <2>2. CASE \E p \in Pairs : PairElse(w, p)
    BY <2>2, PairFrame
  <2> QED BY <1>7, <2>1, <2>2 DEF DriveElse
<1>8. ASSUME NEW w \in Workers, CloseElse(w) PROVE LockOK'
  BY <1>8 DEF CloseElse, StageFails, ApplyFinishFails, ApplyMarkFails,
      CloseFailedFails
<1>9. ASSUME NEW w \in Workers, Crash(w) PROVE LockOK'
  BY <1>9 DEF Crash
<1>10. ASSUME NEW c \in Kids, KidExit(c) PROVE LockOK'
  BY <1>10 DEF KidExit
<1>11. CASE Cancel
  BY <1>11 DEF Cancel, CancelEvent, CancelMarker, CancelMarkerFails,
      CancelKill, CancelKillUnconfirmed
<1>12. CASE UNCHANGED vars
  BY <1>12 DEF vars
<1> QED BY <1>1, <1>2, <1>3, <1>4, <1>5, <1>6, <1>7, <1>8, <1>9, <1>10, <1>11,
    <1>12 DEF Next, Proceed, Suffer

(* The registers of a worker: job at hand, outcome, attempts left.           *)
LEMMA WorkerStep ==
    ASSUME TypeOK, WorkerOK, [Next]_vars
    PROVE  WorkerOK'
<1> USE JobAssumptions DEF TypeOK, WorkerOK, workVars, tableVars, childVars,
    cancelVars, bounds, Goto, Home, Places, Recovering, Cleared, Running,
    Pending, Active, HasWork, JobFinish, Cancelled, Fault, NoneRunning,
    AfterNoStart, Retry, Forget, ThreadsDone, Results, NoResult
<1>1. ASSUME NEW w \in Workers, TryLock(w) PROVE WorkerOK'
  BY <1>1 DEF TryLock
<1>2. ASSUME NEW w \in Workers, Reconcile(w) PROVE WorkerOK'
  BY <1>2 DEF Reconcile, CheckActive, RecoverRunFile, CollectIntents,
      ReplayFinish, ReplayMark, ReplayDone, BootRunFile, MarkStale
<1>3. ASSUME NEW w \in Workers, Reserve(w) PROVE WorkerOK'
  BY <1>3 DEF Reserve, ResetEvent, ResetMarker, Start, StartRejected
<1>4. ASSUME NEW w \in Workers, Drive(w) PROVE WorkerOK'
  <2>1. CASE BeginRun(w)
    BY <2>1 DEF BeginRun
  <2>2. CASE SkipRun(w)
    BY <2>2 DEF SkipRun
  <2>3. CASE EndRun(w)
    BY <2>3 DEF EndRun
  <2>4. CASE \E p \in Pairs : PairStep(w, p)
    BY <2>4, PairFrame
  <2> QED BY <1>4, <2>1, <2>2, <2>3, <2>4 DEF Drive
<1>5. ASSUME NEW w \in Workers, Close(w) PROVE WorkerOK'
  BY <1>5 DEF Close, StageResult, ApplyFinish, ApplyMark, CloseFailed,
      FinishRunFile, NextJob, Release
<1>6. ASSUME NEW w \in Workers, ReconcileElse(w) PROVE WorkerOK'
  BY <1>6 DEF ReconcileElse, CollectIntents, ReplayFinishFails, StartFails,
      ReplayMarkFails, ReconcileRaises
<1>7. ASSUME NEW w \in Workers, DriveElse(w) PROVE WorkerOK'
  <2>1. CASE RunRaises(w)
    BY <2>1 DEF RunRaises
  <2>2. CASE \E p \in Pairs : PairElse(w, p)
    BY <2>2, PairFrame
  <2> QED BY <1>7, <2>1, <2>2 DEF DriveElse
<1>8. ASSUME NEW w \in Workers, CloseElse(w) PROVE WorkerOK'
  BY <1>8 DEF CloseElse, StageFails, ApplyFinishFails, ApplyMarkFails,
      CloseFailedFails
<1>9. ASSUME NEW w \in Workers, Crash(w) PROVE WorkerOK'
  BY <1>9 DEF Crash
<1>10. ASSUME NEW c \in Kids, KidExit(c) PROVE WorkerOK'
  BY <1>10 DEF KidExit
<1>11. CASE Cancel
  BY <1>11 DEF Cancel, CancelEvent, CancelMarker, CancelMarkerFails,
      CancelKill, CancelKillUnconfirmed
<1>12. CASE UNCHANGED vars
  BY <1>12 DEF vars
<1> QED BY <1>1, <1>2, <1>3, <1>4, <1>5, <1>6, <1>7, <1>8, <1>9, <1>10, <1>11,
    <1>12 DEF Next, Proceed, Suffer

(* The rows and the intents: one running job, applied outcomes are final.    *)
LEMMA JobStep ==
    ASSUME TypeOK, LockOK, WorkerOK, JobOK, StoredOK, ReplayOK, [Next]_vars
    PROVE  JobOK'
<1> USE JobAssumptions DEF TypeOK, LockOK, WorkerOK, JobOK, StoredOK,
    ReplayOK, workVars, tableVars, childVars, cancelVars, bounds, Goto, Home,
    Places, Recovering, Cleared, Running, Held, Replaying, Pending, Active,
    HasWork, JobFinish, Cancelled, Fault, NoneRunning, AfterNoStart, Retry,
    Forget, ThreadsDone, Results, NoResult
<1>1. ASSUME NEW w \in Workers, TryLock(w) PROVE JobOK'
  BY <1>1 DEF TryLock
<1>2. ASSUME NEW w \in Workers, Reconcile(w) PROVE JobOK'
  BY <1>2 DEF Reconcile, CheckActive, RecoverRunFile, CollectIntents,
      ReplayFinish, ReplayMark, ReplayDone, BootRunFile, MarkStale
<1>3. ASSUME NEW w \in Workers, Reserve(w) PROVE JobOK'
  BY <1>3 DEF Reserve, ResetEvent, ResetMarker, Start, StartRejected
<1>4. ASSUME NEW w \in Workers, Drive(w) PROVE JobOK'
  <2>1. CASE BeginRun(w)
    BY <2>1 DEF BeginRun
  <2>2. CASE SkipRun(w)
    BY <2>2 DEF SkipRun
  <2>3. CASE EndRun(w)
    BY <2>3 DEF EndRun
  <2>4. CASE \E p \in Pairs : PairStep(w, p)
    BY <2>4, PairFrame
  <2> QED BY <1>4, <2>1, <2>2, <2>3, <2>4 DEF Drive
<1>5. ASSUME NEW w \in Workers, Close(w) PROVE JobOK'
  BY <1>5 DEF Close, StageResult, ApplyFinish, ApplyMark, CloseFailed,
      FinishRunFile, NextJob, Release
<1>6. ASSUME NEW w \in Workers, ReconcileElse(w) PROVE JobOK'
  BY <1>6 DEF ReconcileElse, CollectIntents, ReplayFinishFails, StartFails,
      ReplayMarkFails, ReconcileRaises
<1>7. ASSUME NEW w \in Workers, DriveElse(w) PROVE JobOK'
  <2>1. CASE RunRaises(w)
    BY <2>1 DEF RunRaises
  <2>2. CASE \E p \in Pairs : PairElse(w, p)
    BY <2>2, PairFrame
  <2> QED BY <1>7, <2>1, <2>2 DEF DriveElse
<1>8. ASSUME NEW w \in Workers, CloseElse(w) PROVE JobOK'
  BY <1>8 DEF CloseElse, StageFails, ApplyFinishFails, ApplyMarkFails,
      CloseFailedFails
<1>9. ASSUME NEW w \in Workers, Crash(w) PROVE JobOK'
  BY <1>9 DEF Crash
<1>10. ASSUME NEW c \in Kids, KidExit(c) PROVE JobOK'
  BY <1>10 DEF KidExit
<1>11. CASE Cancel
  BY <1>11 DEF Cancel, CancelEvent, CancelMarker, CancelMarkerFails,
      CancelKill, CancelKillUnconfirmed
<1>12. CASE UNCHANGED vars
  BY <1>12 DEF vars
<1> QED BY <1>1, <1>2, <1>3, <1>4, <1>5, <1>6, <1>7, <1>8, <1>9, <1>10, <1>11,
    <1>12 DEF Next, Proceed, Suffer

(* What is stored about the job at hand fits the place of its worker.        *)
LEMMA StoredStep ==
    ASSUME TypeOK, LockOK, WorkerOK, JobOK, StoredOK, ReplayOK, [Next]_vars
    PROVE  StoredOK'
<1> USE JobAssumptions DEF TypeOK, LockOK, WorkerOK, JobOK, StoredOK,
    ReplayOK, workVars, tableVars, childVars, cancelVars, bounds, Goto, Home,
    Places, Recovering, Cleared, Running, Held, Replaying, Pending, Active,
    HasWork, JobFinish, Cancelled, Fault, NoneRunning, AfterNoStart, Retry,
    Forget, ThreadsDone, Results, NoResult
<1>1. ASSUME NEW w \in Workers, TryLock(w) PROVE StoredOK'
  BY <1>1 DEF TryLock
<1>2. ASSUME NEW w \in Workers, Reconcile(w) PROVE StoredOK'
  BY <1>2 DEF Reconcile, CheckActive, RecoverRunFile, CollectIntents,
      ReplayFinish, ReplayMark, ReplayDone, BootRunFile, MarkStale
<1>3. ASSUME NEW w \in Workers, Reserve(w) PROVE StoredOK'
  BY <1>3 DEF Reserve, ResetEvent, ResetMarker, Start, StartRejected
<1>4. ASSUME NEW w \in Workers, Drive(w) PROVE StoredOK'
  <2>1. CASE BeginRun(w)
    BY <2>1 DEF BeginRun
  <2>2. CASE SkipRun(w)
    BY <2>2 DEF SkipRun
  <2>3. CASE EndRun(w)
    BY <2>3 DEF EndRun
  <2>4. CASE \E p \in Pairs : PairStep(w, p)
    BY <2>4, PairFrame
  <2> QED BY <1>4, <2>1, <2>2, <2>3, <2>4 DEF Drive
<1>5. ASSUME NEW w \in Workers, Close(w) PROVE StoredOK'
  <2>1. CASE StageResult(w)
    BY <2>1 DEF StageResult
  <2>2. CASE ApplyFinish(w)
    <3>1. /\ status'[cur[w]] = staged[cur[w]]
          /\ \A j \in Jobs : j # cur[w] => status'[j] = status[j]
          /\ staged[cur[w]] # NoResult /\ cur[w] \in Jobs
          /\ UNCHANGED <<staged, cur>>
          /\ pc'[w] = "mark"
          /\ \A v \in Workers : v # w => pc'[v] = pc[v]
      BY <2>2 DEF ApplyFinish
    <3>2. \A v \in Workers : v # w => pc[v] \notin Running
      BY <2>2 DEF ApplyFinish
    <3> QED BY <3>1, <3>2
  <2>3. CASE ApplyMark(w)
    BY <2>3 DEF ApplyMark
  <2>4. CASE CloseFailed(w)
    BY <2>4 DEF CloseFailed
  <2>5. CASE FinishRunFile(w)
    BY <2>5 DEF FinishRunFile
  <2>6. CASE NextJob(w)
    BY <2>6 DEF NextJob
  <2>7. CASE Release(w)
    BY <2>7 DEF Release
  <2> QED BY <1>5, <2>1, <2>2, <2>3, <2>4, <2>5, <2>6, <2>7 DEF Close
<1>6. ASSUME NEW w \in Workers, ReconcileElse(w) PROVE StoredOK'
  BY <1>6 DEF ReconcileElse, CollectIntents, ReplayFinishFails, StartFails,
      ReplayMarkFails, ReconcileRaises
<1>7. ASSUME NEW w \in Workers, DriveElse(w) PROVE StoredOK'
  <2>1. CASE RunRaises(w)
    BY <2>1 DEF RunRaises
  <2>2. CASE \E p \in Pairs : PairElse(w, p)
    BY <2>2, PairFrame
  <2> QED BY <1>7, <2>1, <2>2 DEF DriveElse
<1>8. ASSUME NEW w \in Workers, CloseElse(w) PROVE StoredOK'
  <2>1. CASE StageFails(w)
    BY <2>1 DEF StageFails
  <2>2. CASE ApplyFinishFails(w)
    <3>1. /\ status'[cur[w]] \in {status[cur[w]], staged[cur[w]]}
          /\ status[cur[w]] # "running" => status'[cur[w]] = status[cur[w]]
          /\ \A j \in Jobs : j # cur[w] => status'[j] = status[j]
          /\ staged[cur[w]] # NoResult /\ cur[w] \in Jobs
          /\ UNCHANGED <<staged, cur>>
          /\ pc'[w] \in {"stage", "runfile", "next"}
          /\ \A v \in Workers : v # w => pc'[v] = pc[v]
      BY <2>2 DEF ApplyFinishFails
    <3>2. \A v \in Workers : v # w => pc[v] \notin Running
      BY <2>2 DEF ApplyFinishFails
    <3> QED BY <3>1, <3>2, <2>2 DEF ApplyFinishFails
  <2>3. CASE ApplyMarkFails(w)
    BY <2>3 DEF ApplyMarkFails
  <2>4. CASE CloseFailedFails(w)
    BY <2>4 DEF CloseFailedFails
  <2> QED BY <1>8, <2>1, <2>2, <2>3, <2>4 DEF CloseElse
<1>9. ASSUME NEW w \in Workers, Crash(w) PROVE StoredOK'
  BY <1>9 DEF Crash
<1>10. ASSUME NEW c \in Kids, KidExit(c) PROVE StoredOK'
  BY <1>10 DEF KidExit
<1>11. CASE Cancel
  BY <1>11 DEF Cancel, CancelEvent, CancelMarker, CancelMarkerFails,
      CancelKill, CancelKillUnconfirmed
<1>12. CASE UNCHANGED vars
  BY <1>12 DEF vars
<1> QED BY <1>1, <1>2, <1>3, <1>4, <1>5, <1>6, <1>7, <1>8, <1>9, <1>10, <1>11,
    <1>12 DEF Next, Proceed, Suffer

(* The lock holder's replay covers every open intent of a running job.  This *)
(* is where a replay that fails under the lock would break the argument.      *)
LEMMA ReplayStep ==
    ASSUME ReplayFaults = FALSE, TypeOK, LockOK, WorkerOK, JobOK, StoredOK, ReplayOK, [Next]_vars
    PROVE  ReplayOK'
<1> USE JobAssumptions DEF TypeOK, LockOK, WorkerOK, JobOK, StoredOK,
    ReplayOK, workVars, tableVars, childVars, cancelVars, bounds, Goto, Home,
    Places, Recovering, Cleared, Running, Held, Replaying, Pending, Active,
    HasWork, JobFinish, Cancelled, Fault, NoneRunning, AfterNoStart, Retry,
    Forget, ThreadsDone, Results, NoResult
<1>1. ASSUME NEW w \in Workers, TryLock(w) PROVE ReplayOK'
  BY <1>1 DEF TryLock
<1>2. ASSUME NEW w \in Workers, Reconcile(w) PROVE ReplayOK'
  BY <1>2 DEF Reconcile, CheckActive, RecoverRunFile, CollectIntents,
      ReplayFinish, ReplayMark, ReplayDone, BootRunFile, MarkStale
<1>3. ASSUME NEW w \in Workers, Reserve(w) PROVE ReplayOK'
  BY <1>3 DEF Reserve, ResetEvent, ResetMarker, Start, StartRejected
<1>4. ASSUME NEW w \in Workers, Drive(w) PROVE ReplayOK'
  <2>1. CASE BeginRun(w)
    BY <2>1 DEF BeginRun
  <2>2. CASE SkipRun(w)
    BY <2>2 DEF SkipRun
  <2>3. CASE EndRun(w)
    BY <2>3 DEF EndRun
  <2>4. CASE \E p \in Pairs : PairStep(w, p)
    BY <2>4, PairFrame
  <2> QED BY <1>4, <2>1, <2>2, <2>3, <2>4 DEF Drive
<1>5. ASSUME NEW w \in Workers, Close(w) PROVE ReplayOK'
  BY <1>5 DEF Close, StageResult, ApplyFinish, ApplyMark, CloseFailed,
      FinishRunFile, NextJob, Release
<1>6. ASSUME NEW w \in Workers, ReconcileElse(w) PROVE ReplayOK'
  BY <1>6 DEF ReconcileElse, CollectIntents, ReplayFinishFails, StartFails,
      ReplayMarkFails, ReconcileRaises
<1>7. ASSUME NEW w \in Workers, DriveElse(w) PROVE ReplayOK'
  <2>1. CASE RunRaises(w)
    BY <2>1 DEF RunRaises
  <2>2. CASE \E p \in Pairs : PairElse(w, p)
    BY <2>2, PairFrame
  <2> QED BY <1>7, <2>1, <2>2 DEF DriveElse
<1>8. ASSUME NEW w \in Workers, CloseElse(w) PROVE ReplayOK'
  BY <1>8 DEF CloseElse, StageFails, ApplyFinishFails, ApplyMarkFails,
      CloseFailedFails
<1>9. ASSUME NEW w \in Workers, Crash(w) PROVE ReplayOK'
  BY <1>9 DEF Crash
<1>10. ASSUME NEW c \in Kids, KidExit(c) PROVE ReplayOK'
  BY <1>10 DEF KidExit
<1>11. CASE Cancel
  BY <1>11 DEF Cancel, CancelEvent, CancelMarker, CancelMarkerFails,
      CancelKill, CancelKillUnconfirmed
<1>12. CASE UNCHANGED vars
  BY <1>12 DEF vars
<1> QED BY <1>1, <1>2, <1>3, <1>4, <1>5, <1>6, <1>7, <1>8, <1>9, <1>10, <1>11,
    <1>12 DEF Next, Proceed, Suffer

(* A crash brings no child under anybody's attention.                        *)
LEMMA CrashAttends ==
    ASSUME TypeOK, NEW w \in Workers, Crash(w)
    PROVE  Attended' \subseteq Attended
<1>1. /\ marked' = marked /\ alive' \subseteq alive /\ alive \subseteq Kids
      /\ \A v \in Workers : v # w => pc'[v] = pc[v] /\ cur'[v] = cur[v]
      /\ pc'[w] # "run"
  BY DEF Crash, TypeOK, Goto, Home, Forget
<1>2. \A c \in Kids : thread'[c] \in {"lost", thread[c]}
  BY DEF Crash, TypeOK
<1> QED
  BY <1>1, <1>2 DEF Attended

(* Attended children of other holders stay out of a checked scope.           *)
LEMMA ScopeStep ==
    ASSUME TypeOK, LockOK, WorkerOK, ScopeOK, [Next]_vars
    PROVE  ScopeOK'
<1> USE JobAssumptions DEF TypeOK, LockOK, WorkerOK, ScopeOK, Attended,
    Checked, workVars, tableVars, childVars, cancelVars, bounds, Goto, Home,
    Places, Recovering, Cleared, Running, Held, Replaying, Pending, Active,
    HasWork, JobFinish, Cancelled, Fault, NoneRunning, AfterNoStart, Retry,
    Forget, ThreadsDone, Thread, Advance, Terminate, Kid, Kids, RunUnchanged,
    Driving, Statuses
<1>1. ASSUME NEW w \in Workers, TryLock(w) PROVE ScopeOK'
  BY <1>1 DEF TryLock
<1>2. ASSUME NEW w \in Workers, Reconcile(w) PROVE ScopeOK'
  BY <1>2 DEF Reconcile, CheckActive, RecoverRunFile, CollectIntents,
      ReplayFinish, ReplayMark, ReplayDone, BootRunFile, MarkStale
<1>3. ASSUME NEW w \in Workers, Reserve(w) PROVE ScopeOK'
  BY <1>3 DEF Reserve, ResetEvent, ResetMarker, Start, StartRejected
<1>4. ASSUME NEW w \in Workers, Drive(w) PROVE ScopeOK'
  <2>1. CASE BeginRun(w)
    BY <2>1 DEF BeginRun
  <2>2. CASE SkipRun(w)
    BY <2>2 DEF SkipRun
  <2>3. CASE EndRun(w)
    BY <2>3 DEF EndRun
  <2>4. CASE \E p \in Pairs : PairStep(w, p)
    <3>1. ASSUME NEW p \in Pairs, CheckPair(w, p) PROVE ScopeOK'
      BY <3>1 DEF CheckPair
    <3>2. ASSUME NEW p \in Pairs, Spawn(w, p) PROVE ScopeOK'
      BY <3>2 DEF Spawn
    <3>3. ASSUME NEW p \in Pairs, Register(w, p) PROVE ScopeOK'
      BY <3>3 DEF Register
    <3>4. ASSUME NEW p \in Pairs, Reap(w, p) PROVE ScopeOK'
      BY <3>4 DEF Reap
    <3>5. ASSUME NEW p \in Pairs, StopOnCancel(w, p) PROVE ScopeOK'
      BY <3>5 DEF StopOnCancel
    <3> QED BY <2>4, <3>1, <3>2, <3>3, <3>4, <3>5 DEF PairStep
  <2> QED BY <1>4, <2>1, <2>2, <2>3, <2>4 DEF Drive
<1>5. ASSUME NEW w \in Workers, Close(w) PROVE ScopeOK'
  BY <1>5 DEF Close, StageResult, ApplyFinish, ApplyMark, CloseFailed,
      FinishRunFile, NextJob, Release
<1>6. ASSUME NEW w \in Workers, ReconcileElse(w) PROVE ScopeOK'
  BY <1>6 DEF ReconcileElse, CollectIntents, ReplayFinishFails, StartFails,
      ReplayMarkFails, ReconcileRaises
<1>7. ASSUME NEW w \in Workers, DriveElse(w) PROVE ScopeOK'
  <2>1. CASE RunRaises(w)
    BY <2>1 DEF RunRaises
  <2>2. CASE \E p \in Pairs : PairElse(w, p)
    <3>1. ASSUME NEW p \in Pairs, RegisterFails(w, p) PROVE ScopeOK'
      BY <3>1 DEF RegisterFails
    <3>2. ASSUME NEW p \in Pairs, StopOnWatchdog(w, p) PROVE ScopeOK'
      BY <3>2 DEF StopOnWatchdog
    <3>3. ASSUME NEW p \in Pairs, StopUnconfirmed(w, p) PROVE ScopeOK'
      BY <3>3 DEF StopUnconfirmed
    <3> QED BY <2>2, <3>1, <3>2, <3>3 DEF PairElse
  <2> QED BY <1>7, <2>1, <2>2 DEF DriveElse
<1>8. ASSUME NEW w \in Workers, CloseElse(w) PROVE ScopeOK'
  BY <1>8 DEF CloseElse, StageFails, ApplyFinishFails, ApplyMarkFails,
      CloseFailedFails
<1>9. ASSUME NEW w \in Workers, Crash(w) PROVE ScopeOK'
  <2>1. Attended' \subseteq Attended
    BY <1>9, CrashAttends
  <2>2. /\ ours' = ours
        /\ \A v \in Workers : v # w => pc'[v] = pc[v] /\ (lock' = v => lock = v)
        /\ pc'[w] \in {"boot", "idle"}
    BY <1>9 DEF Crash
  <2> QED BY <2>1, <2>2
<1>10. ASSUME NEW c \in Kids, KidExit(c) PROVE ScopeOK'
  BY <1>10 DEF KidExit
<1>11. CASE Cancel
  BY <1>11 DEF Cancel, CancelEvent, CancelMarker, CancelMarkerFails,
      CancelKill, CancelKillUnconfirmed
<1>12. CASE UNCHANGED vars
  BY <1>12 DEF vars
<1> QED BY <1>1, <1>2, <1>3, <1>4, <1>5, <1>6, <1>7, <1>8, <1>9, <1>10, <1>11,
    <1>12 DEF Next, Proceed, Suffer

(* The initial states satisfy the type invariant and the inductive invariant. *)
LEMMA InitOK ==
    ASSUME Init
    PROVE  TypeOK /\ Invariant
<1> USE JobAssumptions DEF Init, Home, Places, Recovering, Cleared, Running,
    Statuses, Results, NoResult
<1>1. TypeOK
  <2>1. runFile \in [job : Jobs \cup {NoJob}, status : Statuses]
    OBVIOUS
  <2>2. marker \in BOOLEAN /\ webEvent \in BOOLEAN
    BY Zenon
  <2>3. thread \in [Kids -> {"pending", "ready", "spawned", "watched",
                            "good", "bad", "lost"}]
    OBVIOUS
  <2>4. /\ lock \in Workers \cup {Nobody} /\ pc \in [Workers -> Places]
        /\ cur \in [Workers -> Jobs \cup {NoJob}]
        /\ result \in [Workers -> Results \cup {NoResult}]
        /\ tries \in [Workers -> 0..Attempts]
        /\ todo \in [Workers -> SUBSET Jobs]
        /\ status \in [Jobs -> Statuses]
        /\ staged \in [Jobs -> Results \cup {NoResult}]
        /\ ours \in [Workers -> SUBSET Jobs]
    OBVIOUS
  <2>5. /\ replayed \subseteq Jobs /\ applied \subseteq Jobs
        /\ alive \subseteq Kids /\ marked \subseteq Kids /\ heard \subseteq Jobs
        /\ canceller \in {"idle", "marker", "kill"}
        /\ crashes \in 0..MaxCrashes /\ faults \in 0..MaxFaults
    OBVIOUS
  <2> QED BY <2>1, <2>2, <2>3, <2>4, <2>5, Zenon DEF TypeOK
<1>2. LockOK /\ WorkerOK
  BY DEF LockOK, WorkerOK, Held, Replaying
<1>3. JobOK /\ StoredOK
  BY DEF JobOK, StoredOK
<1>4. ReplayOK
  BY DEF ReplayOK, Replaying
<1>5. ScopeOK
  BY DEF ScopeOK, Attended, Checked, Replaying
<1> QED BY <1>1, <1>2, <1>3, <1>4, <1>5 DEF Invariant

(* Type correctness: every variable keeps its type, and a worker holds the   *)
(* job, the outcome and the attempts its handler needs at that place.        *)
THEOREM TypeCorrect == Spec => [](TypeOK /\ WorkerOK)
<1>1. Init => TypeOK /\ WorkerOK
  BY InitOK DEF Invariant
<1>2. TypeOK /\ WorkerOK /\ [Next]_vars => (TypeOK /\ WorkerOK)'
  BY TypeStep, WorkerStep
<1> QED BY <1>1, <1>2, PTL DEF Spec

(* At most one process is inside the section that backup.lock protects.      *)
THEOREM MutualExclusion ==
    Spec => [](\A v, w \in Workers : pc[v] \in Held /\ pc[w] \in Held => v = w)
<1>1. Init => TypeOK /\ WorkerOK /\ LockOK
  BY InitOK DEF Invariant
<1>2. TypeOK /\ WorkerOK /\ LockOK /\ [Next]_vars => (TypeOK /\ WorkerOK /\ LockOK)'
  BY TypeStep, WorkerStep, LockStep
<1>3. LockOK => \A v, w \in Workers : pc[v] \in Held /\ pc[w] \in Held => v = w
  BY DEF LockOK
<1> QED BY <1>1, <1>2, <1>3, PTL DEF Spec

(* Nobody reserves or drives a job next to an attended child of somebody     *)
(* else, whatever fails and whoever is killed.                               *)
THEOREM ScopeStaysExclusive == Spec => []ScopeExclusive
<1> DEFINE I == TypeOK /\ WorkerOK /\ LockOK /\ ScopeOK
<1>1. Init => I
  BY InitOK DEF Invariant
<1>2. I /\ [Next]_vars => I'
  BY TypeStep, WorkerStep, LockStep, ScopeStep
<1>3. I => ScopeExclusive
  BY DEF ScopeOK, ScopeExclusive, Checked
<1> QED BY <1>1, <1>2, <1>3, PTL DEF Spec

(* The inductive invariant, as long as no replay fails under the lock.       *)
THEOREM InvariantHolds ==
    ASSUME ReplayFaults = FALSE
    PROVE  Spec => [](TypeOK /\ Invariant)
<1>1. Init => TypeOK /\ Invariant
  BY InitOK
<1>2. TypeOK /\ Invariant /\ [Next]_vars => (TypeOK /\ Invariant)'
  BY TypeStep, WorkerStep, LockStep, JobStep, StoredStep, ReplayStep, ScopeStep
     DEF Invariant
<1> QED BY <1>1, <1>2, PTL DEF Spec

(* The inductive invariant holds in every state, for any constants.          *)
THEOREM InductiveInvariant ==
    ASSUME ReplayFaults = FALSE
    PROVE  Spec => []IndInv
<1>1. TypeOK /\ Invariant => IndInv
  BY DEF IndInv
<1> QED BY <1>1, InvariantHolds, PTL

(* An outcome that reached the disk is never replaced by "stale": the        *)
(* recovery replays open intents before it closes what is left over.         *)
THEOREM OutcomesAreKept ==
    ASSUME ReplayFaults = FALSE
    PROVE  Spec => []FinishedWorkKept
<1>1. TypeOK /\ Invariant => FinishedWorkKept
  BY DEF Invariant, JobOK, FinishedWorkKept
<1> QED BY <1>1, InvariantHolds, PTL

(* What a step does to the table, by the kind of the step: only MarkStale    *)
(* closes jobs as stale, and only a pair thread, a child or a cancel request *)
(* leaves the table alone by construction.                                   *)
LEMMA StaleOnlyByRecovery ==
    ASSUME TypeOK, Next, \A w \in Workers : ~MarkStale(w)
    PROVE  \A j \in Jobs : status'[j] = "stale" => status[j] = "stale"
<1> USE DEF TypeOK, JobFinish, Results, NoResult, tableVars, Retry
<1>1. ASSUME NEW w \in Workers, TryLock(w) \/ Reserve(w)
      PROVE  \A j \in Jobs : status'[j] = "stale" => status[j] = "stale"
  BY <1>1 DEF TryLock, Reserve, ResetEvent, ResetMarker, Start, StartRejected
<1>2. ASSUME NEW w \in Workers, Reconcile(w)
      PROVE  \A j \in Jobs : status'[j] = "stale" => status[j] = "stale"
  BY <1>2 DEF Reconcile, CheckActive, RecoverRunFile, CollectIntents,
      ReplayFinish, ReplayMark, ReplayDone, BootRunFile
<1>3. ASSUME NEW w \in Workers, Drive(w) \/ DriveElse(w)
      PROVE  status' = status
  BY <1>3, PairFrame DEF Drive, DriveElse, BeginRun, SkipRun, EndRun, RunRaises
<1>4. ASSUME NEW w \in Workers, Close(w)
      PROVE  \A j \in Jobs : status'[j] = "stale" => status[j] = "stale"
  BY <1>4 DEF Close, StageResult, ApplyFinish, ApplyMark, CloseFailed,
      FinishRunFile, NextJob, Release
<1>5. ASSUME NEW w \in Workers, ReconcileElse(w)
      PROVE  \A j \in Jobs : status'[j] = "stale" => status[j] = "stale"
  BY <1>5 DEF ReconcileElse, CollectIntents, ReplayFinishFails, StartFails,
      ReplayMarkFails, ReconcileRaises
<1>6. ASSUME NEW w \in Workers, CloseElse(w) \/ Crash(w)
      PROVE  \A j \in Jobs : status'[j] = "stale" => status[j] = "stale"
  BY <1>6 DEF CloseElse, StageFails, ApplyFinishFails, ApplyMarkFails,
      CloseFailedFails, Crash
<1>7. CASE Cancel \/ \E c \in Kids : KidExit(c)
  BY <1>7 DEF Cancel, CancelEvent, CancelMarker, CancelMarkerFails,
      CancelKill, CancelKillUnconfirmed, KidExit
<1> QED BY <1>1, <1>2, <1>3, <1>4, <1>5, <1>6, <1>7 DEF Next, Proceed, Suffer

(* The reconciliation never closes a job whose worker is still at work: it   *)
(* holds the lock that every worker at work holds.                           *)
THEOREM WorkersAreSpared == Spec => WorkersKeepTheirJob
<1> DEFINE I == TypeOK /\ WorkerOK /\ LockOK
           Spares == \A j \in Jobs : status[j] = "running" /\ status'[j] = "stale" =>
                        \A w \in Workers : pc[w] \in Running => cur[w] # j
<1>1. Init => I
  BY InitOK DEF Invariant
<1>2. I /\ [Next]_vars => I'
  BY TypeStep, WorkerStep, LockStep
<1>3. ASSUME I, [Next]_vars PROVE [Spares]_vars
  <2>1. CASE \E w \in Workers : MarkStale(w)
    BY <1>3, <2>1 DEF MarkStale, LockOK, Held, Running, Cleared
  <2>2. CASE Next /\ \A w \in Workers : ~MarkStale(w)
    BY <1>3, <2>2, StaleOnlyByRecovery
  <2> QED BY <1>3, <2>1, <2>2
<1> QED BY <1>1, <1>2, <1>3, PTL DEF Spec, WorkersKeepTheirJob

(* The marker of a living child is never deleted while the child lives on:   *)
(* whoever deletes the markers of a run has refused the scope to everybody   *)
(* else's living children before.                                            *)
THEOREM LivingKidsAreKept == Spec => LivingKidsStayVisible
<1> DEFINE I == TypeOK /\ WorkerOK /\ LockOK /\ ScopeOK
           Visible == Active \cap alive' \subseteq marked'
<1>1. Init => I
  BY InitOK DEF Invariant
<1>2. I /\ [Next]_vars => I'
  BY TypeStep, WorkerStep, LockStep, ScopeStep
<1>3. ASSUME I, [Next]_vars PROVE [Visible]_vars
  <2> SUFFICES ASSUME Next PROVE Visible
    BY <1>3
  <2> USE DEF Active, childVars, RunUnchanged, Retry
  <2>1. ASSUME NEW w \in Workers, TryLock(w) \/ Reserve(w) PROVE Visible
    BY <2>1 DEF TryLock, Reserve, ResetEvent, ResetMarker, Start, StartRejected
  <2>2. ASSUME NEW w \in Workers, Reconcile(w) PROVE Visible
    <3>1. CASE RecoverRunFile(w)
      <4>1. lock = w /\ ours[w] = {}
        BY <1>3, <3>1 DEF RecoverRunFile, LockOK, ScopeOK, Held, Recovering
      <4>2. \A c \in Attended : c[1] \in ours[w]
        BY <1>3, <3>1 DEF RecoverRunFile, ScopeOK, Checked
      <4> QED BY <4>1, <4>2 DEF Attended
    <3>2. CASE CheckActive(w)
      BY <3>2 DEF CheckActive
    <3> QED BY <2>2, <3>1, <3>2 DEF Reconcile, CollectIntents, ReplayFinish,
                ReplayMark, ReplayDone, BootRunFile, MarkStale
  <2>3. ASSUME NEW w \in Workers, Drive(w) PROVE Visible
    <3>1. ASSUME NEW p \in Pairs, PairStep(w, p) PROVE Visible
      BY <3>1 DEF PairStep, CheckPair, Spawn, Register, Reap, StopOnCancel, Terminate
    <3> QED BY <2>3, <3>1 DEF Drive, BeginRun, SkipRun, EndRun
  <2>4. ASSUME NEW w \in Workers, Close(w) PROVE Visible
    BY <2>4 DEF Close, StageResult, ApplyFinish, ApplyMark, CloseFailed,
        FinishRunFile, NextJob, Release
  <2>5. ASSUME NEW w \in Workers, ReconcileElse(w) \/ CloseElse(w) PROVE Visible
    BY <2>5 DEF ReconcileElse, CollectIntents, ReplayFinishFails, StartFails,
        ReplayMarkFails, ReconcileRaises, CloseElse, StageFails,
        ApplyFinishFails, ApplyMarkFails, CloseFailedFails
  <2>6. ASSUME NEW w \in Workers, DriveElse(w) PROVE Visible
    <3>1. ASSUME NEW p \in Pairs, PairElse(w, p) PROVE Visible
      BY <3>1 DEF PairElse, RegisterFails, StopOnWatchdog, StopUnconfirmed, Terminate
    <3> QED BY <2>6, <3>1 DEF DriveElse, RunRaises
  <2>7. ASSUME NEW w \in Workers, Crash(w) PROVE Visible
    BY <2>7 DEF Crash
  <2>8. CASE Cancel \/ \E c \in Kids : KidExit(c)
    BY <2>8 DEF Cancel, CancelEvent, CancelMarker, CancelMarkerFails,
        CancelKill, CancelKillUnconfirmed, KidExit
  <2> QED BY <2>1, <2>2, <2>3, <2>4, <2>5, <2>6, <2>7, <2>8 DEF Next, Proceed, Suffer
<1> QED BY <1>1, <1>2, <1>3, PTL DEF Spec, LivingKidsStayVisible

(* Every step of the lifecycle is a step of the ledger or leaves it alone.   *)
LEMMA LedgerStep ==
    ASSUME ReplayFaults = FALSE, TypeOK, Invariant, [Next]_vars
    PROVE  [Ledger!Next]_(Ledger!vars)
<1> DEFINE Moves == [Ledger!Next]_<<status, staged>>
<1> USE DEF TypeOK, Invariant, LockOK, WorkerOK, JobOK, StoredOK, ReplayOK,
    JobFinish, Results, NoResult, tableVars, Retry, Running, Statuses
<1>1. ASSUME NEW j \in Jobs, NEW r \in Results \cup {"stale"},
             status[j] = "running", staged[j] \in {NoResult, r},
             r \in {"ok", "cancelled"} => staged[j] = r,
             status' = [status EXCEPT ![j] = r], UNCHANGED staged
      PROVE  Moves
  BY <1>1 DEF Ledger!Next, Ledger!CloseAnnounced, Ledger!CloseUnannounced
<1>2. ASSUME NEW j \in Jobs, status[j] = "running", staged[j] = NoResult,
             NEW r \in Results, staged' = [staged EXCEPT ![j] = r], UNCHANGED status
      PROVE  Moves
  BY <1>2 DEF Ledger!Next, Ledger!Announce
<1>3. ASSUME NEW j \in Jobs, status[j] = "none", NoneRunning,
             status' = [status EXCEPT ![j] = "running"], UNCHANGED staged
      PROVE  Moves
  BY <1>3 DEF Ledger!Next, Ledger!Admit, NoneRunning
<1>4. ASSUME NEW w \in Workers, TryLock(w) PROVE Moves
  BY <1>4 DEF TryLock
<1>5. ASSUME NEW w \in Workers, Reconcile(w) PROVE Moves
  <2>1. ASSUME NEW j \in Jobs, ReplayFinish(w, j) PROVE Moves
    BY <2>1, <1>1 DEF ReplayFinish
  <2>2. CASE MarkStale(w)
    <3>1. ASSUME NEW j \in Jobs, status[j] = "running" PROVE Moves
      <4>1. \A i \in Jobs : i # j => status[i] # "running"
        BY <3>1
      <4>2. status' = [status EXCEPT ![j] = "stale"] /\ UNCHANGED staged
        <5> HIDE DEF Invariant, TypeOK
        <5>1. status \in [Jobs -> Statuses]
          BY DEF TypeOK
        <5>2. /\ status' = [i \in Jobs |-> IF status[i] = "running" THEN "stale"
                                           ELSE status[i]]
              /\ UNCHANGED staged
          BY <2>2 DEF MarkStale
        <5> QED BY <3>1, <4>1, <5>1, <5>2
      <4>3. staged[j] = NoResult
        BY <2>2, <3>1 DEF MarkStale
      <4> QED BY <1>1, <3>1, <4>2, <4>3
    <3>2. CASE \A j \in Jobs : status[j] # "running"
      BY <2>2, <3>2 DEF MarkStale
    <3> QED BY <3>1, <3>2
  <2> QED BY <1>5, <2>1, <2>2 DEF Reconcile, CheckActive, RecoverRunFile,
             CollectIntents, ReplayMark, ReplayDone, BootRunFile
<1>6. ASSUME NEW w \in Workers, Reserve(w) PROVE Moves
  BY <1>6, <1>3 DEF Reserve, ResetEvent, ResetMarker, Start, StartRejected
<1>7. ASSUME NEW w \in Workers, Drive(w) \/ DriveElse(w) PROVE Moves
  BY <1>7, PairFrame DEF Drive, DriveElse, BeginRun, SkipRun, EndRun, RunRaises
<1>8. ASSUME NEW w \in Workers, Close(w) PROVE Moves
  <2>1. CASE StageResult(w)
    BY <2>1, <1>2 DEF StageResult
  <2>2. CASE ApplyFinish(w)
    <3>1. CASE status[cur[w]] = "running"
      <4>1. /\ cur[w] \in Jobs /\ staged[cur[w]] \in Results
            /\ status' = [status EXCEPT ![cur[w]] = staged[cur[w]]]
            /\ UNCHANGED staged
        BY <2>2, <3>1 DEF ApplyFinish
      <4> QED BY <1>1, <3>1, <4>1
    <3>2. CASE status[cur[w]] # "running"
      BY <2>2, <3>2 DEF ApplyFinish
    <3> QED BY <3>1, <3>2
  <2>3. CASE CloseFailed(w)
    <3>1. CASE status[cur[w]] = "running"
      <4>1. /\ cur[w] \in Jobs /\ "error" \in Results
            /\ staged[cur[w]] \in {NoResult, "error"}
            /\ status' = [status EXCEPT ![cur[w]] = "error"]
            /\ UNCHANGED staged
        BY <2>3, <3>1 DEF CloseFailed
      <4> QED BY <1>1, <3>1, <4>1
    <3>2. CASE status[cur[w]] # "running"
      BY <2>3, <3>2 DEF CloseFailed
    <3> QED BY <3>1, <3>2
  <2> QED BY <1>8, <2>1, <2>2, <2>3 DEF Close, ApplyMark, FinishRunFile,
             NextJob, Release
<1>9. ASSUME NEW w \in Workers, ReconcileElse(w) PROVE Moves
  <2>1. ASSUME NEW j \in Jobs, ReplayFinishFails(w, j) PROVE Moves
    BY <2>1, <1>1 DEF ReplayFinishFails
  <2>2. ASSUME NEW j \in Jobs, StartFails(w, j) PROVE Moves
    BY <2>2, <1>3 DEF StartFails
  <2> QED BY <1>9, <2>1, <2>2 DEF ReconcileElse, CollectIntents,
             ReplayMarkFails, ReconcileRaises
<1>10. ASSUME NEW w \in Workers, CloseElse(w) PROVE Moves
  <2>1. CASE StageFails(w)
    BY <2>1, <1>2 DEF StageFails
  <2>2. CASE ApplyFinishFails(w)
    BY <2>2, <1>1 DEF ApplyFinishFails
  <2>3. CASE CloseFailedFails(w)
    BY <2>3, <1>1 DEF CloseFailedFails
  <2> QED BY <1>10, <2>1, <2>2, <2>3 DEF CloseElse, ApplyMarkFails
<1>11. ASSUME NEW w \in Workers, Crash(w) PROVE Moves
  BY <1>11 DEF Crash
<1>12. ASSUME Cancel \/ \E c \in Kids : KidExit(c) PROVE Moves
  BY <1>12 DEF Cancel, CancelEvent, CancelMarker, CancelMarkerFails,
      CancelKill, CancelKillUnconfirmed, KidExit
<1>13. ASSUME UNCHANGED vars PROVE Moves
  BY <1>13 DEF vars
<1>14. Moves
  BY <1>4, <1>5, <1>6, <1>7, <1>8, <1>9, <1>10, <1>11, <1>12, <1>13
     DEF Next, Proceed, Suffer
<1> QED BY <1>14 DEF Ledger!vars

(* The lifecycle implements the ledger: one open run at a time, an outcome   *)
(* announced once, every run closed once and with its announced outcome.     *)
THEOREM LifecycleImplementsLedger ==
    ASSUME ReplayFaults = FALSE
    PROVE  Spec => LedgerSpec
<1>1. Init => Ledger!Init
  BY DEF Init, Ledger!Init
<1>2. TypeOK /\ Invariant /\ [Next]_vars => [Ledger!Next]_(Ledger!vars)
  BY LedgerStep
<1> QED BY <1>1, <1>2, InvariantHolds, PTL DEF Spec, LedgerSpec, Ledger!Spec
-----------------------------------------------------------------------------
(* The cancel request.  These invariants need no assumption about replays:  *)
(* they do not care whether a row is closed as stale.                       *)

(* A job at hand is reserved, its outcome unknown until it is staged, and    *)
(* only jobs with an outcome are replayed.                                  *)
OpenWork ==
    /\ \A j \in Jobs : status[j] = "none" => staged[j] = NoResult
    /\ \A w \in Workers :
          /\ pc[w] \in Running => status[cur[w]] # "none"
          /\ pc[w] \in {"begin", "run", "fail"} =>
                status[cur[w]] = "running" /\ staged[cur[w]] = NoResult
          /\ pc[w] \in {"apply", "mark"} => staged[cur[w]] # NoResult
          /\ \A j \in todo[w] : staged[j] # NoResult

(* A run whose cancel was recorded carries the record until its outcome is   *)
(* chosen, and no outcome of it says "ok".                                   *)
CancelOK ==
    /\ \A j \in heard : status[j] \notin {"none", "ok"} /\ staged[j] # "ok"
    /\ \A w \in Workers :
          /\ pc[w] = "begin" => cur[w] \notin heard
          /\ pc[w] = "run" /\ cur[w] \in heard => Cancelled(w)
          /\ pc[w] = "stage" /\ cur[w] \in heard /\ staged[cur[w]] = NoResult =>
                result[w] # "ok"

(* A job at hand is open until its outcome is staged.                        *)
LEMMA OpenStep ==
    ASSUME TypeOK, LockOK, WorkerOK, OpenWork, [Next]_vars
    PROVE  OpenWork'
<1> USE JobAssumptions DEF TypeOK, LockOK, WorkerOK, OpenWork, workVars,
    tableVars, childVars, cancelVars, bounds, Goto, Home, Places, Recovering,
    Cleared, Running, Held, Replaying, Pending, JobFinish, Cancelled, Fault,
    AfterNoStart, Retry, Forget, Results, NoResult
<1>1. ASSUME NEW w \in Workers, TryLock(w) PROVE OpenWork'
  BY <1>1 DEF TryLock
<1>2. ASSUME NEW w \in Workers, Reconcile(w) PROVE OpenWork'
  <2>1. CASE CheckActive(w) \/ RecoverRunFile(w)
    BY <2>1 DEF CheckActive, RecoverRunFile
  <2>2. CASE CollectIntents(w)
    BY <2>2 DEF CollectIntents
  <2>3. CASE \E j \in Jobs : ReplayFinish(w, j)
    BY <2>3 DEF ReplayFinish
  <2>4. CASE ReplayMark(w) \/ ReplayDone(w) \/ BootRunFile(w)
    BY <2>4 DEF ReplayMark, ReplayDone, BootRunFile
  <2>5. CASE MarkStale(w)
    BY <2>5 DEF MarkStale
  <2> QED BY <1>2, <2>1, <2>2, <2>3, <2>4, <2>5 DEF Reconcile
<1>3. ASSUME NEW w \in Workers, Reserve(w) PROVE OpenWork'
  BY <1>3 DEF Reserve, ResetEvent, ResetMarker, Start, StartRejected
<1>4. ASSUME NEW w \in Workers, Drive(w) PROVE OpenWork'
  <2>1. CASE BeginRun(w)
    BY <2>1 DEF BeginRun
  <2>2. CASE SkipRun(w)
    BY <2>2 DEF SkipRun
  <2>3. CASE EndRun(w)
    BY <2>3 DEF EndRun
  <2>4. CASE \E p \in Pairs : PairStep(w, p)
    BY <2>4, PairFrame
  <2> QED BY <1>4, <2>1, <2>2, <2>3, <2>4 DEF Drive
<1>5. ASSUME NEW w \in Workers, Close(w) PROVE OpenWork'
  <2>1. CASE StageResult(w)
    BY <2>1 DEF StageResult
  <2>2. CASE ApplyFinish(w)
    BY <2>2 DEF ApplyFinish
  <2>3. CASE ApplyMark(w)
    BY <2>3 DEF ApplyMark
  <2>4. CASE CloseFailed(w)
    BY <2>4 DEF CloseFailed
  <2>5. CASE FinishRunFile(w) \/ NextJob(w) \/ Release(w)
    BY <2>5 DEF FinishRunFile, NextJob, Release
  <2> QED BY <1>5, <2>1, <2>2, <2>3, <2>4, <2>5 DEF Close
<1>6. ASSUME NEW w \in Workers, ReconcileElse(w) PROVE OpenWork'
  BY <1>6 DEF ReconcileElse, CollectIntents, ReplayFinishFails, StartFails,
      ReplayMarkFails, ReconcileRaises
<1>7. ASSUME NEW w \in Workers, DriveElse(w) PROVE OpenWork'
  <2>1. CASE RunRaises(w)
    BY <2>1 DEF RunRaises
  <2>2. CASE \E p \in Pairs : PairElse(w, p)
    BY <2>2, PairFrame
  <2> QED BY <1>7, <2>1, <2>2 DEF DriveElse
<1>8. ASSUME NEW w \in Workers, CloseElse(w) PROVE OpenWork'
  BY <1>8 DEF CloseElse, StageFails, ApplyFinishFails, ApplyMarkFails,
      CloseFailedFails
<1>9. ASSUME NEW w \in Workers, Crash(w) PROVE OpenWork'
  BY <1>9 DEF Crash
<1>10. ASSUME NEW c \in Kids, KidExit(c) PROVE OpenWork'
  BY <1>10 DEF KidExit
<1>11. CASE Cancel
  BY <1>11 DEF Cancel, CancelEvent, CancelMarker, CancelMarkerFails,
      CancelKill, CancelKillUnconfirmed
<1>12. CASE UNCHANGED vars
  BY <1>12 DEF vars
<1> QED BY <1>1, <1>2, <1>3, <1>4, <1>5, <1>6, <1>7, <1>8, <1>9, <1>10, <1>11,
    <1>12 DEF Next, Proceed, Suffer

(* A recorded cancel is read before the outcome is chosen: nobody else may   *)
(* reset the scope, and no later run begins with the job of an earlier one.  *)
LEMMA CancelStep ==
    ASSUME TypeOK, LockOK, WorkerOK, OpenWork, CancelOK, [Next]_vars
    PROVE  CancelOK'
<1> USE JobAssumptions DEF TypeOK, LockOK, WorkerOK, OpenWork, CancelOK, workVars,
    tableVars, childVars, cancelVars, bounds, Goto, Home, Places, Recovering,
    Cleared, Running, Held, Replaying, Pending, JobFinish, Cancelled, Fault,
    AfterNoStart, Retry, Forget, Results, NoResult
<1>1. ASSUME NEW w \in Workers, TryLock(w) PROVE CancelOK'
  BY <1>1 DEF TryLock
<1>2. ASSUME NEW w \in Workers, Reconcile(w) PROVE CancelOK'
  <2>1. CASE CheckActive(w) \/ RecoverRunFile(w)
    BY <2>1 DEF CheckActive, RecoverRunFile
  <2>2. CASE CollectIntents(w)
    BY <2>2 DEF CollectIntents
  <2>3. CASE \E j \in Jobs : ReplayFinish(w, j)
    BY <2>3 DEF ReplayFinish
  <2>4. CASE ReplayMark(w) \/ ReplayDone(w) \/ BootRunFile(w)
    BY <2>4 DEF ReplayMark, ReplayDone, BootRunFile
  <2>5. CASE MarkStale(w)
    BY <2>5 DEF MarkStale
  <2> QED BY <1>2, <2>1, <2>2, <2>3, <2>4, <2>5 DEF Reconcile
<1>3. ASSUME NEW w \in Workers, Reserve(w) PROVE CancelOK'
  BY <1>3 DEF Reserve, ResetEvent, ResetMarker, Start, StartRejected
<1>4. ASSUME NEW w \in Workers, Drive(w) PROVE CancelOK'
  <2>1. CASE BeginRun(w)
    BY <2>1 DEF BeginRun
  <2>2. CASE SkipRun(w)
    BY <2>2 DEF SkipRun
  <2>3. CASE EndRun(w)
    BY <2>3 DEF EndRun
  <2>4. CASE \E p \in Pairs : PairStep(w, p)
    BY <2>4, PairFrame
  <2> QED BY <1>4, <2>1, <2>2, <2>3, <2>4 DEF Drive
<1>5. ASSUME NEW w \in Workers, Close(w) PROVE CancelOK'
  <2>1. CASE StageResult(w)
    BY <2>1 DEF StageResult
  <2>2. CASE ApplyFinish(w)
    BY <2>2 DEF ApplyFinish
  <2>3. CASE ApplyMark(w)
    BY <2>3 DEF ApplyMark
  <2>4. CASE CloseFailed(w)
    BY <2>4 DEF CloseFailed
  <2>5. CASE FinishRunFile(w) \/ NextJob(w) \/ Release(w)
    BY <2>5 DEF FinishRunFile, NextJob, Release
  <2> QED BY <1>5, <2>1, <2>2, <2>3, <2>4, <2>5 DEF Close
<1>6. ASSUME NEW w \in Workers, ReconcileElse(w) PROVE CancelOK'
  BY <1>6 DEF ReconcileElse, CollectIntents, ReplayFinishFails, StartFails,
      ReplayMarkFails, ReconcileRaises
<1>7. ASSUME NEW w \in Workers, DriveElse(w) PROVE CancelOK'
  <2>1. CASE RunRaises(w)
    BY <2>1 DEF RunRaises
  <2>2. CASE \E p \in Pairs : PairElse(w, p)
    BY <2>2, PairFrame
  <2> QED BY <1>7, <2>1, <2>2 DEF DriveElse
<1>8. ASSUME NEW w \in Workers, CloseElse(w) PROVE CancelOK'
  BY <1>8 DEF CloseElse, StageFails, ApplyFinishFails, ApplyMarkFails,
      CloseFailedFails
<1>9. ASSUME NEW w \in Workers, Crash(w) PROVE CancelOK'
  BY <1>9 DEF Crash
<1>10. ASSUME NEW c \in Kids, KidExit(c) PROVE CancelOK'
  BY <1>10 DEF KidExit
<1>11. CASE Cancel
  <2>1. CASE CancelEvent
    <3>1. /\ UNCHANGED <<pc, cur, result, status, staged, marker>> /\ webEvent'
          /\ heard' = heard \cup {cur[w] : w \in Driving \cap {Web}}
      BY <2>1 DEF CancelEvent
    <3>2. heard' \subseteq heard \cup {cur[w] : w \in {v \in {Web} : pc[v] = "run"}}
      BY <3>1 DEF Driving
    <3> QED BY <3>1, <3>2
  <2>2. CASE CancelMarker
    <3>1. /\ UNCHANGED <<pc, cur, result, status, staged>> /\ marker'
          /\ heard' = heard \cup {cur[w] : w \in Driving}
      BY <2>2 DEF CancelMarker
    <3> QED BY <3>1 DEF Driving
  <2> QED BY <1>11, <2>1, <2>2 DEF Cancel, CancelMarkerFails, CancelKill,
             CancelKillUnconfirmed
<1>12. CASE UNCHANGED vars
  BY <1>12 DEF vars
<1> QED BY <1>1, <1>2, <1>3, <1>4, <1>5, <1>6, <1>7, <1>8, <1>9, <1>10, <1>11,
    <1>12 DEF Next, Proceed, Suffer

(* A run that was driving when a cancel was recorded is never closed as      *)
(* "ok": by its worker, by a later tick or by the start-up of the web        *)
(* process, with replays that fail or not.                                   *)
THEOREM CancelsAreHonoured == Spec => []CancelHonoured
<1> DEFINE I == TypeOK /\ LockOK /\ WorkerOK /\ OpenWork /\ CancelOK
<1>1. Init => I
  <2>1. Init => OpenWork /\ CancelOK
    BY JobAssumptions DEF Init, OpenWork, CancelOK, Home, Running
  <2> QED BY <2>1, InitOK DEF Invariant
<1>2. I /\ [Next]_vars => I'
  BY TypeStep, WorkerStep, LockStep, OpenStep, CancelStep
<1>3. I => CancelHonoured
  BY DEF CancelOK, CancelHonoured
<1> QED BY <1>1, <1>2, <1>3, PTL DEF Spec

(* A run file that was ever written shows a job of the table, and a final    *)
(* status in it is that of the row, which nothing reopens.                   *)
RunFileOK == RunFileTruthful /\ (runFile.status # "none" => runFile.job \in Jobs)

LEMMA RunFileStep ==
    ASSUME TypeOK, WorkerOK, RunFileOK, [Next]_vars
    PROVE  RunFileOK'
<1> USE JobAssumptions DEF TypeOK, WorkerOK, RunFileOK, RunFileTruthful, Statuses, workVars,
    tableVars, childVars, cancelVars, bounds, Goto, Home, Places, Recovering,
    Cleared, Running, Held, Replaying, Pending, JobFinish, Cancelled, Fault,
    AfterNoStart, Retry, Forget, Results, NoResult
<1>1. ASSUME NEW w \in Workers, TryLock(w) PROVE RunFileOK'
  BY <1>1 DEF TryLock
<1>2. ASSUME NEW w \in Workers, Reconcile(w) PROVE RunFileOK'
  <2>1. CASE CheckActive(w) \/ RecoverRunFile(w)
    BY <2>1 DEF CheckActive, RecoverRunFile
  <2>2. CASE CollectIntents(w)
    BY <2>2 DEF CollectIntents
  <2>3. CASE \E j \in Jobs : ReplayFinish(w, j)
    BY <2>3 DEF ReplayFinish
  <2>4. CASE ReplayMark(w) \/ ReplayDone(w) \/ BootRunFile(w)
    BY <2>4 DEF ReplayMark, ReplayDone, BootRunFile
  <2>5. CASE MarkStale(w)
    BY <2>5 DEF MarkStale
  <2> QED BY <1>2, <2>1, <2>2, <2>3, <2>4, <2>5 DEF Reconcile
<1>3. ASSUME NEW w \in Workers, Reserve(w) PROVE RunFileOK'
  BY <1>3 DEF Reserve, ResetEvent, ResetMarker, Start, StartRejected
<1>4. ASSUME NEW w \in Workers, Drive(w) PROVE RunFileOK'
  <2>1. CASE BeginRun(w)
    BY <2>1 DEF BeginRun
  <2>2. CASE SkipRun(w)
    BY <2>2 DEF SkipRun
  <2>3. CASE EndRun(w)
    BY <2>3 DEF EndRun
  <2>4. CASE \E p \in Pairs : PairStep(w, p)
    BY <2>4, PairFrame
  <2> QED BY <1>4, <2>1, <2>2, <2>3, <2>4 DEF Drive
<1>5. ASSUME NEW w \in Workers, Close(w) PROVE RunFileOK'
  <2>1. CASE StageResult(w)
    BY <2>1 DEF StageResult
  <2>2. CASE ApplyFinish(w)
    BY <2>2 DEF ApplyFinish
  <2>3. CASE ApplyMark(w)
    BY <2>3 DEF ApplyMark
  <2>4. CASE CloseFailed(w)
    BY <2>4 DEF CloseFailed
  <2>5. CASE FinishRunFile(w) \/ NextJob(w) \/ Release(w)
    BY <2>5 DEF FinishRunFile, NextJob, Release
  <2> QED BY <1>5, <2>1, <2>2, <2>3, <2>4, <2>5 DEF Close
<1>6. ASSUME NEW w \in Workers, ReconcileElse(w) PROVE RunFileOK'
  BY <1>6 DEF ReconcileElse, CollectIntents, ReplayFinishFails, StartFails,
      ReplayMarkFails, ReconcileRaises
<1>7. ASSUME NEW w \in Workers, DriveElse(w) PROVE RunFileOK'
  <2>1. CASE RunRaises(w)
    BY <2>1 DEF RunRaises
  <2>2. CASE \E p \in Pairs : PairElse(w, p)
    BY <2>2, PairFrame
  <2> QED BY <1>7, <2>1, <2>2 DEF DriveElse
<1>8. ASSUME NEW w \in Workers, CloseElse(w) PROVE RunFileOK'
  BY <1>8 DEF CloseElse, StageFails, ApplyFinishFails, ApplyMarkFails,
      CloseFailedFails
<1>9. ASSUME NEW w \in Workers, Crash(w) PROVE RunFileOK'
  BY <1>9 DEF Crash
<1>10. ASSUME NEW c \in Kids, KidExit(c) PROVE RunFileOK'
  BY <1>10 DEF KidExit
<1>11. CASE Cancel
  BY <1>11 DEF Cancel, CancelEvent, CancelMarker, CancelMarkerFails,
      CancelKill, CancelKillUnconfirmed
<1>12. CASE UNCHANGED vars
  BY <1>12 DEF vars
<1> QED BY <1>1, <1>2, <1>3, <1>4, <1>5, <1>6, <1>7, <1>8, <1>9, <1>10, <1>11,
    <1>12 DEF Next, Proceed, Suffer

(* A final status in current-run.json is the status of that job in the       *)
(* table, whichever process wrote the file and whoever was killed.           *)
THEOREM RunFileIsTruthful == Spec => []RunFileTruthful
<1> DEFINE I == TypeOK /\ WorkerOK /\ RunFileOK
<1>1. Init => I
  <2>1. Init => RunFileOK
    BY DEF Init, RunFileOK, RunFileTruthful, Results
  <2> QED BY <2>1, InitOK DEF Invariant
<1>2. I /\ [Next]_vars => I'
  BY TypeStep, WorkerStep, RunFileStep
<1>3. I => RunFileTruthful
  BY DEF RunFileOK
<1> QED BY <1>1, <1>2, <1>3, PTL DEF Spec
=============================================================================
