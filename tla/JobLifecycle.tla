---------------------------- MODULE JobLifecycle ----------------------------
(***************************************************************************)
(* The life of a run in the scope "backup": the web process, the scheduler *)
(* tick and the command line compete for one non-blocking file lock; the   *)
(* holder reconciles what earlier holders left behind, reserves a row in   *)
(* the job table, drives rclone child processes, stores the outcome of the *)
(* external program before it closes the row, and releases the lock.       *)
(*                                                                         *)
(* Persistent: the job table, the staged outcomes, the run file, the       *)
(* cancel marker and the process markers.  Lost with a process: its lock,  *)
(* its pair threads and its cancel event.  Child processes run in sessions *)
(* of their own and may survive the process that started them.             *)
(***************************************************************************)
EXTENDS Integers, FiniteSets

CONSTANTS
    Workers,      \* operating-system processes that run jobs of the scope
    Web,          \* the worker that serves HTTP; the only one that cancels
    Ticker,       \* the worker the systemd timer starts again and again
    Nobody,       \* the lock is free
    Jobs,         \* job ids, each reserved at most once
    NoJob,        \* a worker has no job at hand
    Pairs,        \* data paths of a job, one child process for each
    Attempts,     \* attempts of job_finish_external before it gives up
    MaxCrashes,   \* bound: processes killed
    MaxFaults,    \* bound: database, file and kill operations that fail
    ReplayFaults  \* may the replay fail between lock and stale marking?

ASSUME JobAssumptions ==
    /\ Web \in Workers /\ Ticker \in Workers
    /\ Nobody \notin Workers
    /\ NoJob \notin Jobs
    /\ Attempts \in Nat \ {0} /\ MaxCrashes \in Nat /\ MaxFaults \in Nat
    /\ ReplayFaults \in BOOLEAN

Results == {"ok", "error", "cancelled"}
NoResult == "none"
Statuses == Results \cup {"none", "running", "stale"}

(* A child process is named by the job and the pair it was started for. *)
Kids == Jobs \X Pairs
Kid(j, p) == <<j, p>>

VARIABLES
    lock,      \* holder of backup.lock, freed by the kernel with its process
    pc,        \* where each worker is
    cur,       \* the job a worker works on
    result,    \* outcome of the external run, in the worker's memory
    tries,     \* failed attempts of job_finish_external
    todo,      \* outcomes still to be replayed by the recovery of a worker
    replayed,  \* jobs the start-up of the web process has closed
    status,    \* jobs.status
    staged,    \* job_terminal_intents.status
    applied,   \* jobs whose intent carries applied_at
    runFile,   \* current-run.json
    marker,    \* the cancel marker file of the scope exists
    webEvent,  \* the cancel event inside the web process is set
    thread,    \* progress of the pair thread that drives a child
    alive,     \* children that exist
    marked,    \* children with a process marker on disk
    canceller, \* where the HTTP handler of a cancel request is
    heard,     \* history: runs that were driving when a cancel was recorded
    ours,      \* history: jobs a worker has reserved under its present lock
    crashes, faults

workVars   == <<pc, cur, result, tries, todo>>
tableVars  == <<status, staged, applied>>
childVars  == <<thread, alive, marked>>
cancelVars == <<marker, webEvent, canceller, heard>>
bounds     == <<crashes, faults>>
vars == <<lock, workVars, replayed, tableVars, runFile, cancelVars, childVars,
          ours, bounds>>

(* The worker's own places, in the order the handlers visit them. *)
Recovering == {"locked", "runtime", "collect", "replay", "replaymark", "stale"}
Running    == {"begin", "run", "stage", "apply", "mark", "fail", "runfile"}
Cleared    == {"reset", "unlink", "start", "next"} \cup Running
Places     == {"boot", "bootfile", "idle", "release"} \cup Recovering \cup Cleared

Home(w) == IF w = Web THEN "boot" ELSE "idle"

Init ==
    /\ lock = Nobody
    /\ pc = [w \in Workers |-> Home(w)]
    /\ cur = [w \in Workers |-> NoJob]
    /\ result = [w \in Workers |-> NoResult]
    /\ tries = [w \in Workers |-> 0]
    /\ todo = [w \in Workers |-> {}]
    /\ replayed = {}
    /\ status = [j \in Jobs |-> "none"]
    /\ staged = [j \in Jobs |-> NoResult]
    /\ applied = {}
    /\ runFile = [job |-> NoJob, status |-> "none"]
    /\ marker = FALSE /\ webEvent = FALSE
    /\ thread = [c \in Kids |-> "pending"]
    /\ alive = {} /\ marked = {}
    /\ canceller = "idle"
    /\ heard = {}
    /\ ours = [w \in Workers |-> {}]
    /\ crashes = 0 /\ faults = 0

-----------------------------------------------------------------------------
(* Helpers.                                                                *)

Goto(w, place) == pc' = [pc EXCEPT ![w] = place]

(* One more operation of the environment fails. *)
Fault == faults < MaxFaults /\ faults' = faults + 1 /\ UNCHANGED crashes

(* is_cancelled: the event of the own process or the marker on disk. *)
Cancelled(w) == marker \/ (w = Web /\ webEvent)

(* active_processes: a marker counts while its process is the same one. *)
Active == alive \cap marked

Pending == {j \in Jobs : staged[j] # NoResult /\ j \notin applied}

HasWork == \E j \in Jobs : status[j] = "none"

(* job_finish: compare-and-set from running, silent on a closed row. *)
JobFinish(j, s) ==
    status' = [status EXCEPT ![j] = IF @ = "running" THEN s ELSE @]

-----------------------------------------------------------------------------
(* The lock and what its holder does before it may reserve a job.          *)

(* Mutant: the lock is taken although somebody holds it. *)
TryLockHeld(w) ==
    /\ pc[w] = "idle"
    /\ lock' = w
    /\ Goto(w, "locked")
    /\ ours' = [ours EXCEPT ![w] = {}]
    /\ UNCHANGED <<cur, result, tries, todo, replayed, tableVars, runFile,
                   cancelVars, childVars, bounds>>

TryLock(w) ==
    /\ pc[w] = "idle"
    /\ lock = Nobody
    /\ lock' = w
    /\ Goto(w, "locked")
    /\ ours' = [ours EXCEPT ![w] = {}]
    /\ UNCHANGED <<cur, result, tries, todo, replayed, tableVars, runFile,
                   cancelVars, childVars, bounds>>

(* Mutant: living registered children are not looked at. *)
CheckActiveIgnored(w) ==
    /\ pc[w] = "locked"
    /\ marked' = Active
    /\ Goto(w, "runtime")
    /\ UNCHANGED <<lock, cur, result, tries, todo, replayed, tableVars, runFile,
                   cancelVars, thread, alive, ours, bounds>>

(* A living registered child closes the scope; dead markers are removed. *)
CheckActive(w) ==
    /\ pc[w] = "locked"
    /\ marked' = Active
    /\ Goto(w, IF Active = {} THEN "runtime" ELSE "release")
    /\ UNCHANGED <<lock, cur, result, tries, todo, replayed, tableVars, runFile,
                   cancelVars, thread, alive, ours, bounds>>

(* Mutant: the open intents are not replayed before jobs become stale. *)
RecoverRunFileNoReplay(w) ==
    /\ pc[w] = "runtime"
    /\ Goto(w, "stale")
    /\ IF runFile.status = "running"
       THEN /\ runFile' = [job |-> runFile.job, status |-> "stale"]
            /\ marked' = {c \in marked : c[1] # runFile.job}
            /\ marker' = FALSE
       ELSE UNCHANGED <<runFile, marked, marker>>
    /\ UNCHANGED <<lock, cur, result, tries, todo, replayed, tableVars, webEvent,
                   canceller, heard, thread, alive, ours, bounds>>

(* recover_stale_run_details(force=True): the run file becomes stale, the  *)
(* markers of that run and the cancel marker of the scope are deleted.     *)
RecoverRunFile(w) ==
    /\ pc[w] = "runtime"
    /\ Goto(w, "collect")
    /\ IF runFile.status = "running"
       THEN /\ runFile' = [job |-> runFile.job, status |-> "stale"]
            /\ marked' = {c \in marked : c[1] # runFile.job}
            /\ marker' = FALSE
       ELSE UNCHANGED <<runFile, marked, marker>>
    /\ UNCHANGED <<lock, cur, result, tries, todo, replayed, tableVars, webEvent,
                   canceller, heard, thread, alive, ours, bounds>>

(* job_terminal_recover_pending reads the open intents of every scope.  The *)
(* start-up of the web process calls it before it takes any lock, and a     *)
(* process that reconciles another scope calls it without this scope's lock.*)
CollectIntents(w) ==
    /\ pc[w] \in {"collect", "boot", "idle"}
    /\ todo' = [todo EXCEPT ![w] = Pending]
    /\ Goto(w, "replay")
    /\ UNCHANGED <<lock, cur, result, tries, replayed, tableVars, runFile,
                   cancelVars, childVars, ours, bounds>>

(* job_terminal_apply up to the compare-and-set; a row that was closed with *)
(* another status makes the replay of this intent fail.                     *)
ReplayFinish(w, j) ==
    /\ pc[w] = "replay"
    /\ j \in todo[w]
    /\ IF status[j] \in {"running", staged[j]}
       THEN /\ JobFinish(j, staged[j])
            /\ cur' = [cur EXCEPT ![w] = j]
            /\ Goto(w, "replaymark")
            /\ UNCHANGED todo
       ELSE /\ todo' = [todo EXCEPT ![w] = @ \ {j}]
            /\ UNCHANGED <<status, cur, pc>>
    /\ UNCHANGED <<lock, result, tries, replayed, staged, applied, runFile,
                   cancelVars, childVars, ours, bounds>>

ReplayMark(w) ==
    /\ pc[w] = "replaymark"
    /\ applied' = applied \cup {cur[w]}
    /\ todo' = [todo EXCEPT ![w] = @ \ {cur[w]}]
    /\ replayed' = IF w = Web /\ lock # w THEN replayed \cup {cur[w]} ELSE replayed
    /\ cur' = [cur EXCEPT ![w] = NoJob]
    /\ Goto(w, "replay")
    /\ UNCHANGED <<lock, result, tries, status, staged, runFile, cancelVars,
                   childVars, ours, bounds>>

(* A replay that raises is counted and skipped; the transaction may have    *)
(* been committed before the error was reported.                            *)
ReplayFinishFails(w, j) ==
    /\ pc[w] = "replay"
    /\ j \in todo[w]
    /\ ReplayFaults \/ lock # w
    /\ Fault
    /\ JobFinish(j, staged[j]) \/ UNCHANGED status
    /\ todo' = [todo EXCEPT ![w] = @ \ {j}]
    /\ UNCHANGED <<lock, pc, cur, result, tries, replayed, staged, applied,
                   runFile, cancelVars, childVars, ours>>

ReplayMarkFails(w) ==
    /\ pc[w] = "replaymark"
    /\ Fault
    /\ todo' = [todo EXCEPT ![w] = @ \ {cur[w]}]
    /\ cur' = [cur EXCEPT ![w] = NoJob]
    /\ Goto(w, "replay")
    /\ UNCHANGED <<lock, result, tries, replayed, tableVars, runFile, cancelVars,
                   childVars, ours>>

ReplayDone(w) ==
    /\ pc[w] = "replay"
    /\ todo[w] = {}
    /\ Goto(w, IF lock = w THEN "stale" ELSE IF w = Web THEN "bootfile" ELSE "idle")
    /\ UNCHANGED <<lock, cur, result, tries, todo, replayed, tableVars, runFile,
                   cancelVars, childVars, ours, bounds>>

(* Start-up of the web process: a run file that still shows one of the jobs *)
(* just closed takes over the status of that job.                           *)
BootRunFile(w) ==
    /\ pc[w] = "bootfile"
    /\ runFile' = IF runFile.status = "running" /\ runFile.job \in replayed
                  THEN [job |-> runFile.job, status |-> status[runFile.job]]
                  ELSE runFile
    /\ replayed' = {}
    /\ Goto(w, "idle")
    /\ UNCHANGED <<lock, cur, result, tries, todo, tableVars, cancelVars,
                   childVars, ours, bounds>>

(* Mutant: rows without a worker stay running. *)
MarkStaleSkipped(w) ==
    /\ pc[w] = "stale"
    /\ \E place \in IF HasWork THEN {"reset", "release"} ELSE {"release"} :
          Goto(w, place)
    /\ UNCHANGED <<lock, cur, result, tries, todo, replayed, tableVars, runFile,
                   cancelVars, childVars, ours, bounds>>

(* jobs_mark_all_running_stale, then on to a job or, when the caller only   *)
(* reconciles or finds nothing due under the lock, out again.               *)
MarkStale(w) ==
    /\ pc[w] = "stale"
    /\ status' = [j \in Jobs |-> IF status[j] = "running" THEN "stale" ELSE status[j]]
    /\ \E place \in IF HasWork THEN {"reset", "release"} ELSE {"release"} :
          Goto(w, place)
    /\ UNCHANGED <<lock, cur, result, tries, todo, replayed, staged, applied,
                   runFile, cancelVars, childVars, ours, bounds>>

(* Mutant: the failed reconciliation keeps the lock. *)
ReconcileRaisesLocked(w) ==
    /\ pc[w] \in {"locked", "runtime", "collect", "stale"}
    /\ Fault
    /\ Goto(w, "idle")
    /\ UNCHANGED <<lock, cur, result, tries, todo, replayed, tableVars, runFile,
                   cancelVars, childVars, ours>>

(* An exception inside the reconciliation leaves the lock's with block. *)
ReconcileRaises(w) ==
    /\ pc[w] \in {"locked", "runtime", "collect", "stale"}
    /\ Fault
    /\ Goto(w, "release")
    /\ UNCHANGED <<lock, cur, result, tries, todo, replayed, tableVars, runFile,
                   cancelVars, childVars, ours>>

(* reset_cancel clears the event first and removes the marker second. *)
ResetEvent(w) ==
    /\ pc[w] = "reset"
    /\ webEvent' = (webEvent /\ w # Web)
    /\ Goto(w, "unlink")
    /\ UNCHANGED <<lock, cur, result, tries, todo, replayed, tableVars, runFile,
                   marker, canceller, heard, childVars, ours, bounds>>

ResetMarker(w) ==
    /\ pc[w] = "unlink"
    /\ marker' = FALSE
    /\ Goto(w, "start")
    /\ UNCHANGED <<lock, cur, result, tries, todo, replayed, tableVars, runFile,
                   webEvent, canceller, heard, childVars, ours, bounds>>

-----------------------------------------------------------------------------
(* Reserving a job.                                                        *)

NoneRunning == \A j \in Jobs : status[j] # "running"

(* Mutant: the running row of the scope is not looked at. *)
StartUnchecked(w, j) ==
    /\ pc[w] = "start"
    /\ status[j] = "none"
    /\ status' = [status EXCEPT ![j] = "running"]
    /\ cur' = [cur EXCEPT ![w] = j]
    /\ ours' = [ours EXCEPT ![w] = @ \cup {j}]
    /\ Goto(w, "begin")
    /\ UNCHANGED <<lock, result, tries, todo, replayed, staged, applied, runFile,
                   cancelVars, childVars, bounds>>

Start(w, j) ==
    /\ pc[w] = "start"
    /\ NoneRunning
    /\ status[j] = "none"
    /\ status' = [status EXCEPT ![j] = "running"]
    /\ cur' = [cur EXCEPT ![w] = j]
    /\ ours' = [ours EXCEPT ![w] = @ \cup {j}]
    /\ Goto(w, "begin")
    /\ UNCHANGED <<lock, result, tries, todo, replayed, staged, applied, runFile,
                   cancelVars, childVars, bounds>>

(* JobAlreadyRunningError or a database error: a batch of the web process   *)
(* goes on with its next definition, every other caller gives up.           *)
AfterNoStart(w) == IF w = Web THEN {"next", "release"} ELSE {"release"}

StartRejected(w) ==
    /\ pc[w] = "start"
    /\ ~NoneRunning
    /\ \E place \in AfterNoStart(w) : Goto(w, place)
    /\ UNCHANGED <<lock, cur, result, tries, todo, replayed, tableVars, runFile,
                   cancelVars, childVars, ours, bounds>>

StartFails(w, j) ==
    /\ pc[w] = "start"
    /\ NoneRunning
    /\ status[j] = "none"
    /\ Fault
    /\ status' = [status EXCEPT ![j] = "running"] \/ UNCHANGED status
    /\ \E place \in AfterNoStart(w) : Goto(w, place)
    /\ UNCHANGED <<lock, cur, result, tries, todo, replayed, staged, applied,
                   runFile, cancelVars, childVars, ours>>

-----------------------------------------------------------------------------
(* run_job and the pair threads.                                           *)

(* Mutant: begin_run(reset_cancel_state=True) although a request may be there. *)
BeginRunResets(w) ==
    /\ pc[w] = "begin"
    /\ runFile' = [job |-> cur[w], status |-> "running"]
    /\ heard' = IF Cancelled(w) THEN heard \cup {cur[w]} ELSE heard
    /\ marker' = FALSE
    /\ webEvent' = (webEvent /\ w # Web)
    /\ Goto(w, "run")
    /\ UNCHANGED <<lock, cur, result, tries, todo, replayed, tableVars,
                   canceller, childVars, ours, bounds>>

BeginRun(w) ==
    /\ pc[w] = "begin"
    /\ runFile' = [job |-> cur[w], status |-> "running"]
    /\ heard' = IF Cancelled(w) THEN heard \cup {cur[w]} ELSE heard
    /\ Goto(w, "run")
    /\ UNCHANGED <<lock, cur, result, tries, todo, replayed, tableVars, marker,
                   webEvent, canceller, childVars, ours, bounds>>

(* run_job returns before begin_run: backups disabled, or no usable pair. *)
SkipRun(w) ==
    /\ pc[w] = "begin"
    /\ \E r \in IF w = Web /\ Cancelled(w) THEN {"cancelled"} ELSE {"ok", "error"} :
          result' = [result EXCEPT ![w] = r]
    /\ Goto(w, "stage")
    /\ UNCHANGED <<lock, cur, tries, todo, replayed, tableVars, runFile,
                   cancelVars, childVars, ours, bounds>>

Thread(w, p, from) == pc[w] = "run" /\ thread[Kid(cur[w], p)] = from
Advance(w, p, to) == thread' = [thread EXCEPT ![Kid(cur[w], p)] = to]

RunUnchanged == UNCHANGED <<lock, workVars, replayed, tableVars, runFile,
                            cancelVars, ours>>

(* The last look at the cancel state before Popen. *)
CheckPair(w, p) ==
    /\ Thread(w, p, "pending")
    /\ Advance(w, p, IF Cancelled(w) THEN "bad" ELSE "ready")
    /\ UNCHANGED <<alive, marked, bounds>> /\ RunUnchanged

Spawn(w, p) ==
    /\ Thread(w, p, "ready")
    /\ alive' = alive \cup {Kid(cur[w], p)}
    /\ Advance(w, p, "spawned")
    /\ UNCHANGED <<marked, bounds>> /\ RunUnchanged

Register(w, p) ==
    /\ Thread(w, p, "spawned")
    /\ marked' = marked \cup {Kid(cur[w], p)}
    /\ Advance(w, p, "watched")
    /\ UNCHANGED <<alive, bounds>> /\ RunUnchanged

(* The marker cannot be written: the child is killed, confirmed or not. *)
RegisterFails(w, p) ==
    /\ Thread(w, p, "spawned")
    /\ Fault
    /\ alive' \in {alive, alive \ {Kid(cur[w], p)}}
    /\ Advance(w, p, "bad")
    /\ UNCHANGED marked /\ RunUnchanged

(* The poll loop finds the child gone and removes its marker. *)
Reap(w, p) ==
    /\ Thread(w, p, "watched")
    /\ Kid(cur[w], p) \notin alive
    /\ marked' = marked \ {Kid(cur[w], p)}
    /\ \E outcome \in {"good", "bad"} : Advance(w, p, outcome)
    /\ UNCHANGED <<alive, bounds>> /\ RunUnchanged

(* _terminate_proc, confirmed: the child is reaped and unregistered. *)
Terminate(w, p) ==
    /\ alive' = alive \ {Kid(cur[w], p)}
    /\ marked' = marked \ {Kid(cur[w], p)}
    /\ Advance(w, p, "bad")

StopOnCancel(w, p) ==
    /\ Thread(w, p, "watched")
    /\ Kid(cur[w], p) \in alive
    /\ Cancelled(w)
    /\ Terminate(w, p)
    /\ UNCHANGED bounds /\ RunUnchanged

(* Stall watchdog or absolute run-time limit. *)
StopOnWatchdog(w, p) ==
    /\ Thread(w, p, "watched")
    /\ Kid(cur[w], p) \in alive
    /\ Terminate(w, p)
    /\ UNCHANGED bounds /\ RunUnchanged

(* ProcessTerminationError: even SIGKILL was not confirmed, the marker of   *)
(* the living child stays and the pair has failed.                          *)
StopUnconfirmed(w, p) ==
    /\ Thread(w, p, "watched")
    /\ Kid(cur[w], p) \in alive
    /\ Fault
    /\ Advance(w, p, "bad")
    /\ UNCHANGED <<alive, marked>> /\ RunUnchanged

KidExit(c) ==
    /\ c \in alive
    /\ alive' = alive \ {c}
    /\ UNCHANGED <<lock, workVars, replayed, tableVars, runFile, cancelVars,
                   thread, marked, ours, bounds>>

ThreadsDone(w) == \A p \in Pairs : thread[Kid(cur[w], p)] \in {"good", "bad"}

(* Every thread is joined; the summary and _finish_status read the cancel   *)
(* state a last time.                                                       *)
EndRun(w) ==
    /\ pc[w] = "run"
    /\ ThreadsDone(w)
    /\ result' = [result EXCEPT ![w] =
                    IF Cancelled(w) THEN "cancelled"
                    ELSE IF \A p \in Pairs : thread[Kid(cur[w], p)] = "good"
                         THEN "ok" ELSE "error"]
    /\ Goto(w, "stage")
    /\ UNCHANGED <<lock, cur, tries, todo, replayed, tableVars, runFile,
                   cancelVars, childVars, ours, bounds>>

(* An exception before an outcome exists: bad settings, an unwritable run   *)
(* file, a worker thread that cannot be started.                            *)
RunRaises(w) ==
    /\ pc[w] = "begin" \/ (pc[w] = "run" /\ ThreadsDone(w))
    /\ Fault
    /\ Goto(w, "fail")
    /\ UNCHANGED <<lock, cur, result, tries, todo, replayed, tableVars, runFile,
                   cancelVars, childVars, ours>>

-----------------------------------------------------------------------------
(* job_finish_external: stage the outcome, close the row, mark it applied.  *)

StageResult(w) ==
    /\ pc[w] = "stage"
    /\ staged' = [staged EXCEPT ![cur[w]] = IF @ = NoResult THEN result[w] ELSE @]
    /\ Goto(w, "apply")
    /\ UNCHANGED <<lock, cur, result, tries, todo, replayed, status, applied,
                   runFile, cancelVars, childVars, ours, bounds>>

ApplyFinish(w) ==
    /\ pc[w] = "apply"
    /\ status[cur[w]] \in {"running", staged[cur[w]]}
    /\ JobFinish(cur[w], staged[cur[w]])
    /\ Goto(w, "mark")
    /\ UNCHANGED <<lock, cur, result, tries, todo, replayed, staged, applied,
                   runFile, cancelVars, childVars, ours, bounds>>

ApplyMark(w) ==
    /\ pc[w] = "mark"
    /\ applied' = applied \cup {cur[w]}
    /\ Goto(w, "runfile")
    /\ UNCHANGED <<lock, cur, result, tries, todo, replayed, status, staged,
                   runFile, cancelVars, childVars, ours, bounds>>

(* OperationalError: begin again with the staging, or give up and leave the *)
(* intent to a later recovery.  Only the web worker still looks at the run  *)
(* file then.                                                               *)
Retry(w) ==
    /\ Fault
    /\ tries' = [tries EXCEPT ![w] = @ + 1]
    /\ Goto(w, IF tries[w] + 1 < Attempts THEN "stage"
               ELSE IF w = Web THEN "runfile" ELSE "next")

StageFails(w) ==
    /\ pc[w] = "stage"
    /\ Retry(w)
    /\ \/ staged' = [staged EXCEPT ![cur[w]] = IF @ = NoResult THEN result[w] ELSE @]
       \/ UNCHANGED staged
    /\ UNCHANGED <<lock, cur, result, todo, replayed, status, applied, runFile,
                   cancelVars, childVars, ours>>

ApplyFinishFails(w) ==
    /\ pc[w] = "apply"
    /\ Retry(w)
    /\ JobFinish(cur[w], staged[cur[w]]) \/ UNCHANGED status
    /\ UNCHANGED <<lock, cur, result, todo, replayed, staged, applied, runFile,
                   cancelVars, childVars, ours>>

ApplyMarkFails(w) ==
    /\ pc[w] = "mark"
    /\ Retry(w)
    /\ applied' \in {applied, applied \cup {cur[w]}}
    /\ UNCHANGED <<lock, cur, result, todo, replayed, status, staged, runFile,
                   cancelVars, childVars, ours>>

(* The handlers' except branch without an external outcome. *)
CloseFailed(w) ==
    /\ pc[w] = "fail"
    /\ JobFinish(cur[w], "error")
    /\ Goto(w, "runfile")
    /\ UNCHANGED <<lock, cur, result, tries, todo, replayed, staged, applied,
                   runFile, cancelVars, childVars, ours, bounds>>

CloseFailedFails(w) ==
    /\ pc[w] = "fail"
    /\ Fault
    /\ JobFinish(cur[w], "error") \/ UNCHANGED status
    /\ Goto(w, IF w = Web THEN "runfile" ELSE "release")
    /\ UNCHANGED <<lock, cur, result, tries, todo, replayed, staged, applied,
                   runFile, cancelVars, childVars, ours>>

(* Mutant: the run file takes the outcome at hand, whatever it shows. *)
FinishRunFileUnchecked(w) ==
    /\ pc[w] = "runfile"
    /\ runFile' = [job |-> cur[w],
                   status |-> IF result[w] = NoResult THEN "error" ELSE result[w]]
    /\ Goto(w, "next")
    /\ UNCHANGED <<lock, cur, result, tries, todo, replayed, tableVars, cancelVars,
                   childVars, ours, bounds>>

(* _finish_runtime_for_job: only for a closed row and only its own run. *)
FinishRunFile(w) ==
    /\ pc[w] = "runfile"
    /\ runFile' = IF /\ status[cur[w]] # "running"
                     /\ runFile.status = "running"
                     /\ runFile.job = cur[w]
                  THEN [job |-> runFile.job, status |-> status[cur[w]]]
                  ELSE runFile
    /\ Goto(w, "next")
    /\ UNCHANGED <<lock, cur, result, tries, todo, replayed, tableVars, cancelVars,
                   childVars, ours, bounds>>

Forget(w) ==
    /\ cur' = [cur EXCEPT ![w] = NoJob]
    /\ result' = [result EXCEPT ![w] = NoResult]
    /\ tries' = [tries EXCEPT ![w] = 0]

(* The next definition of a batch runs under the same lock and after no     *)
(* further reconciliation, unless the batch was cancelled.                  *)
NextJob(w) ==
    /\ pc[w] = "next"
    /\ ~Cancelled(w)
    /\ HasWork
    /\ Forget(w)
    /\ Goto(w, "start")
    /\ UNCHANGED <<lock, todo, replayed, tableVars, runFile, cancelVars, childVars,
                   ours, bounds>>

Release(w) ==
    /\ pc[w] \in {"next", "release"}
    /\ lock' = Nobody
    /\ Forget(w)
    /\ Goto(w, "idle")
    /\ UNCHANGED <<todo, replayed, tableVars, runFile, cancelVars, childVars,
                   ours, bounds>>

-----------------------------------------------------------------------------
(* The cancel request of the web process, concurrent with everything.      *)

Driving == {w \in Workers : pc[w] = "run"}

CancelEvent ==
    /\ canceller = "idle"
    /\ pc[Web] # "boot"
    /\ webEvent' = TRUE
    /\ heard' = heard \cup {cur[w] : w \in Driving \cap {Web}}
    /\ canceller' = "marker"
    /\ UNCHANGED <<lock, workVars, replayed, tableVars, runFile, marker, childVars,
                   ours, bounds>>

CancelMarker ==
    /\ canceller = "marker"
    /\ marker' = TRUE
    /\ heard' = heard \cup {cur[w] : w \in Driving}
    /\ canceller' = "kill"
    /\ UNCHANGED <<lock, workVars, replayed, tableVars, runFile, webEvent,
                   childVars, ours, bounds>>

CancelMarkerFails ==
    /\ canceller = "marker"
    /\ Fault
    /\ canceller' = "kill"
    /\ UNCHANGED <<lock, workVars, replayed, tableVars, runFile, marker, webEvent,
                   heard, childVars, ours>>

(* terminate_active_processes: every registered living child is killed, and *)
(* only a confirmed exit removes its marker.                                *)
CancelKill ==
    /\ canceller = "kill"
    /\ alive' = alive \ Active
    /\ marked' = {}
    /\ canceller' = "idle"
    /\ UNCHANGED <<lock, workVars, replayed, tableVars, runFile, marker, webEvent,
                   heard, thread, ours, bounds>>

(* Mutant: the markers go although the exit of a child was not confirmed. *)
CancelKillForgets ==
    /\ canceller = "kill"
    /\ Active # {}
    /\ Fault
    /\ \E left \in SUBSET Active \ {{}} : alive' = alive \ (Active \ left)
    /\ marked' = {}
    /\ canceller' = "idle"
    /\ UNCHANGED <<lock, workVars, replayed, tableVars, runFile, marker, webEvent,
                   heard, thread, ours>>

CancelKillUnconfirmed ==
    /\ canceller = "kill"
    /\ Active # {}
    /\ Fault
    /\ \E left \in SUBSET Active \ {{}} :
          /\ alive' = alive \ (Active \ left)
          /\ marked' = left
    /\ canceller' = "idle"
    /\ UNCHANGED <<lock, workVars, replayed, tableVars, runFile, marker, webEvent,
                   heard, thread, ours>>

-----------------------------------------------------------------------------
(* A process is killed.  The kernel frees its lock, its threads and its     *)
(* event are gone; any part of its children may live on.                    *)
Crash(w) ==
    /\ pc[w] # Home(w)
    /\ crashes < MaxCrashes
    /\ crashes' = crashes + 1
    /\ lock' = IF lock = w THEN Nobody ELSE lock
    /\ Forget(w)
    /\ Goto(w, Home(w))
    /\ todo' = [todo EXCEPT ![w] = {}]
    /\ LET orphans == IF pc[w] = "run" THEN {Kid(cur[w], p) : p \in Pairs} ELSE {}
       IN  /\ \E dead \in SUBSET (alive \cap orphans) : alive' = alive \ dead
           /\ thread' = [c \in Kids |-> IF c \in orphans THEN "lost" ELSE thread[c]]
    /\ IF w = Web
       THEN webEvent' = FALSE /\ canceller' = "idle" /\ replayed' = {}
       ELSE UNCHANGED <<webEvent, canceller, replayed>>
    /\ UNCHANGED <<tableVars, runFile, marker, heard, marked, ours, faults>>

-----------------------------------------------------------------------------
(* What a worker does by itself, in the order of the handlers. *)
Reconcile(w) ==
    \/ CheckActive(w) \/ RecoverRunFile(w)
    \/ (pc[w] \in {"collect", "boot"} /\ CollectIntents(w))
    \/ (\E j \in Jobs : ReplayFinish(w, j))
    \/ ReplayMark(w) \/ ReplayDone(w) \/ BootRunFile(w) \/ MarkStale(w)

Reserve(w) ==
    \/ ResetEvent(w) \/ ResetMarker(w)
    \/ (\E j \in Jobs : Start(w, j)) \/ StartRejected(w)

PairStep(w, p) ==
    CheckPair(w, p) \/ Spawn(w, p) \/ Register(w, p) \/ Reap(w, p) \/ StopOnCancel(w, p)

Drive(w) ==
    BeginRun(w) \/ SkipRun(w) \/ EndRun(w) \/ \E p \in Pairs : PairStep(w, p)

Close(w) ==
    \/ StageResult(w) \/ ApplyFinish(w) \/ ApplyMark(w)
    \/ CloseFailed(w) \/ FinishRunFile(w) \/ NextJob(w) \/ Release(w)

Proceed(w) == Reconcile(w) \/ Reserve(w) \/ Drive(w) \/ Close(w)

(* What may happen to a worker, or be asked of it, at any time. *)
ReconcileElse(w) ==
    \/ (pc[w] = "idle" /\ w # Web /\ CollectIntents(w))
    \/ (\E j \in Jobs : ReplayFinishFails(w, j) \/ StartFails(w, j))
    \/ ReplayMarkFails(w) \/ ReconcileRaises(w)

PairElse(w, p) ==
    RegisterFails(w, p) \/ StopOnWatchdog(w, p) \/ StopUnconfirmed(w, p)

DriveElse(w) == RunRaises(w) \/ \E p \in Pairs : PairElse(w, p)

CloseElse(w) ==
    \/ StageFails(w) \/ ApplyFinishFails(w) \/ ApplyMarkFails(w)
    \/ CloseFailedFails(w)

Suffer(w) == ReconcileElse(w) \/ DriveElse(w) \/ CloseElse(w) \/ Crash(w)

Cancel ==
    CancelEvent \/ CancelMarker \/ CancelMarkerFails \/ CancelKill \/ CancelKillUnconfirmed

Next ==
    \/ \E w \in Workers : TryLock(w) \/ Proceed(w) \/ Suffer(w)
    \/ \E c \in Kids : KidExit(c)
    \/ Cancel

Fairness ==
    /\ \A w \in Workers : WF_vars(Proceed(w))
    /\ SF_vars(TryLock(Ticker))
    /\ \A c \in Kids : WF_vars(KidExit(c))

Spec == Init /\ [][Next]_vars
FairSpec == Spec /\ Fairness
-----------------------------------------------------------------------------
(* What the lifecycle must guarantee.                                      *)

TypeOK ==
    /\ lock \in Workers \cup {Nobody}
    /\ pc \in [Workers -> Places]
    /\ cur \in [Workers -> Jobs \cup {NoJob}]
    /\ result \in [Workers -> Results \cup {NoResult}]
    /\ tries \in [Workers -> 0..Attempts]
    /\ todo \in [Workers -> SUBSET Jobs]
    /\ replayed \subseteq Jobs
    /\ status \in [Jobs -> Statuses]
    /\ staged \in [Jobs -> Results \cup {NoResult}]
    /\ applied \subseteq Jobs
    /\ runFile \in [job : Jobs \cup {NoJob}, status : Statuses]
    /\ marker \in BOOLEAN /\ webEvent \in BOOLEAN
    /\ thread \in [Kids -> {"pending", "ready", "spawned", "watched",
                            "good", "bad", "lost"}]
    /\ alive \subseteq Kids /\ marked \subseteq Kids
    /\ canceller \in {"idle", "marker", "kill"}
    /\ heard \subseteq Jobs
    /\ ours \in [Workers -> SUBSET Jobs]
    /\ crashes \in 0..MaxCrashes /\ faults \in 0..MaxFaults

(* Children that some record still accounts for: a marker on disk, or the   *)
(* thread of a worker that has not died.                                    *)
Attended ==
    {c \in alive : \/ c \in marked
                   \/ \E w \in Workers : /\ pc[w] = "run" /\ cur[w] = c[1]
                                         /\ thread[c] \in {"spawned", "watched"}}

(* Between the reconciliation and the release of the lock no attended child *)
(* of an earlier holder is alive, whatever crashed before: nobody reserves  *)
(* or drives a job next to somebody else's rclone process                   *)
(* (reconcile_locked_scope refuses the scope while a process is registered).*)
ScopeExclusive ==
    \A w \in Workers : pc[w] \in Cleared => \A c \in Attended : c[1] \in ours[w]

(* An outcome that reached the disk is never replaced by "stale": the       *)
(* recovery replays open intents before it closes what is left over.        *)
FinishedWorkKept ==
    \A j \in Jobs : status[j] = "stale" => staged[j] = NoResult

(* A run that was driving when a cancel request was recorded -- in the event *)
(* of its own process or in the marker file -- is never closed as "ok",      *)
(* through resets, crashes and recoveries by other processes.                *)
CancelHonoured == \A j \in heard : status[j] # "ok"

(* A final status in current-run.json is the status of that job in the       *)
(* table; only "stale" may differ, since the run file is closed before the   *)
(* open intents are replayed.                                                *)
RunFileTruthful ==
    runFile.status \in Results => status[runFile.job] = runFile.status

(* The reconciliation never closes a job whose worker is still at work.      *)
WorkersKeepTheirJob ==
    [][\A j \in Jobs : status[j] = "running" /\ status'[j] = "stale" =>
          \A w \in Workers : pc[w] \in Running => cur[w] # j]_vars

(* The marker of a living child is never deleted while the child lives on:   *)
(* it would be invisible to every later reconciliation and cancel.           *)
LivingKidsStayVisible == [][Active \cap alive' \subseteq marked']_vars

(* No second start next to a process that still runs (OPTIMIERUNGEN.md:15).  *)
NoDoubleStart == \A c, d \in alive : c[1] = d[1]

(* The table and the intents are the ledger of JobLedger. *)
Ledger == INSTANCE JobLedger WITH announced <- staged
LedgerSpec == Ledger!Spec

(* Every reserved job is closed, by its worker or by a later tick, and every *)
(* staged outcome is eventually marked as applied (job_finish_external,      *)
(* reconcile_locked_scope, job_terminal_recover_pending).                    *)
RunsEnd ==
    \A j \in Jobs : /\ status[j] = "running" ~> status[j] # "running"
                    /\ staged[j] # NoResult ~> j \in applied
-----------------------------------------------------------------------------
(* The inductive invariant behind FinishedWorkKept, ScopeExclusive and the   *)
(* refinement of JobLedger (proved in JobLifecycleProofs).                   *)

(* Places that are only visited while holding the lock; the replay of open   *)
(* intents is visited with and without it.                                   *)
Held == {"locked", "runtime", "collect", "stale", "release"} \cup Cleared
Replaying == {"replay", "replaymark"}

LockOK ==
    \A w \in Workers : /\ lock = w => pc[w] \in Held \cup Replaying
                       /\ pc[w] \in Held => lock = w

(* A worker's registers fit its place. *)
WorkerOK ==
    \A w \in Workers :
       /\ pc[w] \in Running \cup {"replaymark"} => cur[w] \in Jobs
       /\ pc[w] \in Running => cur[w] \in ours[w]
       /\ pc[w] \in {"stage", "apply", "mark"} => result[w] \in Results
       /\ pc[w] \notin {"runfile", "next", "release"} => tries[w] < Attempts

(* What the table and the intents say about one job. *)
JobOK ==
    /\ \A j \in Jobs :
          /\ status[j] = "none" => staged[j] = NoResult
          /\ status[j] = "stale" => staged[j] = NoResult
          /\ j \in applied => staged[j] # NoResult /\ status[j] = staged[j]
    /\ \A i, j \in Jobs : status[i] = "running" /\ status[j] = "running" => i = j

(* Where a worker is tells what it has already stored about its job. *)
StoredOK ==
    \A w \in Workers :
       /\ pc[w] \in {"begin", "run", "fail"} =>
             status[cur[w]] = "running" /\ staged[cur[w]] = NoResult
       /\ pc[w] = "stage" =>
             \/ status[cur[w]] = "running"
             \/ staged[cur[w]] # NoResult /\ status[cur[w]] = staged[cur[w]]
       /\ pc[w] = "apply" =>
             /\ staged[cur[w]] # NoResult
             /\ status[cur[w]] \in {"running", staged[cur[w]]}
       /\ pc[w] \in {"mark", "replaymark"} =>
             staged[cur[w]] # NoResult /\ status[cur[w]] = staged[cur[w]]

(* The lock holder leaves no open intent behind before it marks jobs stale. *)
ReplayOK ==
    \A w \in Workers :
       /\ \A j \in todo[w] : staged[j] # NoResult
       /\ pc[w] \in Replaying /\ lock = w =>
             \A j \in Jobs : status[j] = "running" /\ staged[j] # NoResult => j \in todo[w]
       /\ pc[w] = "stale" =>
             \A j \in Jobs : status[j] = "running" => staged[j] = NoResult

(* Past the check of registered processes the scope belongs to its holder, *)
(* who has reserved nothing before the reconciliation is over.             *)
Checked == {"runtime", "collect", "stale"} \cup Cleared
ScopeOK ==
    \A w \in Workers :
       /\ pc[w] \in Checked \/ (pc[w] \in Replaying /\ lock = w) =>
             \A c \in Attended : c[1] \in ours[w]
       /\ pc[w] \in Recovering /\ lock = w => ours[w] = {}

Invariant == LockOK /\ WorkerOK /\ JobOK /\ StoredOK /\ ReplayOK /\ ScopeOK

(* What is carried through every step: the types and the relations above.   *)
IndInv == TypeOK /\ Invariant
=============================================================================
