--------------------------- MODULE DefinitionBatch ---------------------------
(***************************************************************************)
(* The durable batch of job definitions the web process runs on request:   *)
(* the handler takes the backup scope, reserves the first job, stores the  *)
(* batch and starts a thread that drives one definition after the other;   *)
(* the start-up of the web process resumes what a killed thread left over. *)
(*                                                                         *)
(* A run (JobLifecycle) is one step here, and so is the reconciliation     *)
(* under the scope lock.  Persistent: the batches, their items, the jobs,  *)
(* the staged outcomes and the cancel marker.  Everything else dies with   *)
(* the web process.                                                        *)
(***************************************************************************)
EXTENDS Integers, Sequences, FiniteSets

CONSTANTS
    NumBatches,  \* bound: batches requested
    Last,        \* definitions of a batch
    MaxCrashes,  \* bound: kills of the web process
    MaxFaults,   \* bound: database operations and thread starts that fail
    Contended    \* do other holders of the backup scope exist?

ASSUME BatchAssumptions ==
    /\ NumBatches \in Nat \ {0} /\ Last \in Nat \ {0}
    /\ MaxCrashes \in Nat /\ MaxFaults \in Nat /\ Contended \in BOOLEAN

Batches == 1 .. NumBatches    \* in the order of created_at
Items   == 1 .. Last

Ended   == {"done", "failed", "cancelled"}
Results == {"ok", "error", "cancelled"}

(* Who left a living child behind: nobody, the thread of a batch, or a     *)
(* stranger: a killed process or another holder of the scope.              *)
Nobody   == 0
Stranger == -1
LeftBy   == {Nobody, Stranger} \cup Batches

VARIABLES
    lock,      \* holder of the web lock and the file lock: free, web, other
    pc,        \* where the web process is with a batch
    boot,      \* it is still in its start-up
    batch,     \* the batch at hand
    pos,       \* the position the thread is at
    seen,      \* the items as the thread read them when it began
    outcome,   \* state or result about to be written
    queue,     \* batches the start-up has still to look at
    keep,      \* the batch at hand was read with cancel_requested set
    event,     \* the cancel event of the web process
    marker,    \* the cancel marker of the scope
    canceller, \* where the cancel handler is
    state,     \* job_batches.state
    flag,      \* job_batches.cancel_requested
    item,      \* job_batch_items.state
    job,       \* jobs.status of the job reserved for an item
    intent,    \* staged outcome that is not applied yet
    orphan,    \* who left a registered child that is still alive, see LeftBy
    drives,    \* history: times the definition of an item was driven
    late,      \* history: drives begun after the cancel was recorded
    parked,    \* history: batches the start-up passed over
    crashes, faults

control == <<lock, pc, boot, batch, pos, seen, outcome, queue, keep>>
signals == <<event, marker, canceller>>
tables  == <<state, flag, item, job, intent>>
history == <<drives, late, parked>>
bounds  == <<crashes, faults>>
vars == <<control, signals, tables, orphan, history, bounds>>

Init ==
    /\ lock = "free" /\ pc = "boot" /\ boot = TRUE
    /\ batch = 1 /\ pos = 1 /\ seen = [i \in Items |-> "none"]
    /\ outcome = "none" /\ queue = <<>> /\ keep = FALSE
    /\ event = FALSE /\ marker = FALSE /\ canceller = "idle"
    /\ state = [b \in Batches |-> "absent"]
    /\ flag = [b \in Batches |-> FALSE]
    /\ item = [b \in Batches |-> [i \in Items |-> "none"]]
    /\ job = [b \in Batches |-> [i \in Items |-> "none"]]
    /\ intent = [b \in Batches |-> [i \in Items |-> "none"]]
    /\ orphan = Nobody
    /\ drives = [b \in Batches |-> [i \in Items |-> 0]]
    /\ late = [b \in Batches |-> 0]
    /\ parked = {}
    /\ crashes = 0 /\ faults = 0

-----------------------------------------------------------------------------
(* Helpers.                                                                *)

Goto(place) == pc' = place

Fault == faults < MaxFaults /\ faults' = faults + 1 /\ UNCHANGED crashes

(* Both locks are given back and the handler, start-up or thread is over. *)
Leave == lock' = "free" /\ pc' = "idle" /\ boot' = FALSE

Cancelled == event \/ marker

JobRunning == \E b \in Batches, i \in Items : job[b][i] = "running"

(* job_finish: compare-and-set from running. *)
Finished(j, b, i, s) == [j EXCEPT ![b][i] = IF @ = "running" THEN s ELSE @]

(* job_terminal_recover_pending: a job closed otherwise keeps its intent. *)
Applicable(b, i) == intent[b][i] # "none" /\ job[b][i] \in {"running", intent[b][i]}
Replayed == [b \in Batches |-> [i \in Items |->
                IF Applicable(b, i) THEN intent[b][i] ELSE job[b][i]]]
StillOpen == [b \in Batches |-> [i \in Items |->
                IF Applicable(b, i) THEN "none" ELSE intent[b][i]]]

(* reconcile_locked_scope without a living child: replay, then stale; the   *)
(* run file, if it still shows a run, takes the cancel marker with it.      *)
Reconcile ==
    /\ job' = [b \in Batches |-> [i \in Items |->
                  IF Replayed[b][i] = "running" THEN "stale" ELSE Replayed[b][i]]]
    /\ intent' = StillOpen

Unfinished(items) == \E i \in Items : items[i] \in {"queued", "running"}

(* job_batch_item_finish, one transaction. *)
ItemFinish(b, i, s) ==
    /\ item' = [item EXCEPT ![b][i] = IF @ \in {"queued", "running"} THEN s ELSE @]
    /\ state' = IF Unfinished(item'[b]) \/ state[b] # "running" THEN state
                ELSE [state EXCEPT ![b] = IF flag[b] THEN "cancelled" ELSE "done"]

(* job_batches_pending, in the order of created_at. *)
Pending == {b \in Batches : state[b] = "running"}
OldestFirst(s) == \A j, k \in DOMAIN s : j < k => s[j] < s[k]

-----------------------------------------------------------------------------
(* The request that starts a batch.                                        *)

(* The next unused batch; a busy scope is answered with 409. *)
Request ==
    /\ pc = "idle" /\ lock = "free"
    /\ \E b \in Batches :
          /\ state[b] = "absent" /\ \A c \in 1 .. (b - 1) : state[c] # "absent"
          /\ batch' = b
    /\ lock' = "web" /\ keep' = FALSE
    /\ Goto("settle")
    /\ UNCHANGED <<boot, pos, seen, outcome, queue, signals, tables, orphan,
                   history, bounds>>

(* job_start of the first definition under the held lock. *)
Reserve ==
    /\ pc = "reserve"
    /\ IF JobRunning
       THEN Leave /\ UNCHANGED job
       ELSE /\ job' = [job EXCEPT ![batch][1] = "running"]
            /\ Goto("create")
            /\ UNCHANGED <<lock, boot>>
    /\ UNCHANGED <<batch, pos, seen, outcome, queue, keep, signals, state, flag,
                   item, intent, orphan, history, bounds>>

(* The reservation raises, before or after its commit: 500. *)
ReserveFails ==
    /\ pc = "reserve" /\ Fault
    /\ \E s \in {"none", "running"} : job' = [job EXCEPT ![batch][1] = s]
    /\ state' = [state EXCEPT ![batch] = "refused"]
    /\ Leave
    /\ UNCHANGED <<batch, pos, seen, outcome, queue, keep, signals, flag, item,
                   intent, orphan, drives, late, parked>>

Created ==
    /\ state' = [state EXCEPT ![batch] = "running"]
    /\ item' = [item EXCEPT ![batch] =
                   [i \in Items |-> IF i = 1 THEN "running" ELSE "queued"]]

(* job_batch_create: the batch, its first item running with the first job. *)
Create ==
    /\ pc = "create"
    /\ Created
    /\ Goto("spawn")
    /\ UNCHANGED <<lock, boot, batch, pos, seen, outcome, queue, keep, signals,
                   flag, job, intent, orphan, history, bounds>>

(* _abort_reserved_backup_job: the first job is closed, best effort. *)
Abort ==
    /\ job' \in {Finished(job, batch, 1, "error"), job}
    /\ Leave

(* job_batch_create raises, before or after its commit: 500. *)
CreateFails ==
    /\ pc = "create" /\ Fault
    /\ \/ Created
       \/ state' = [state EXCEPT ![batch] = "refused"] /\ UNCHANGED item
    /\ Abort
    /\ UNCHANGED <<batch, pos, seen, outcome, queue, keep, signals, flag, intent,
                   orphan, drives, late, parked>>

Spawn ==
    /\ pc = "spawn"
    /\ boot' = FALSE
    /\ Goto("load")
    /\ UNCHANGED <<lock, batch, pos, seen, outcome, queue, keep, signals, tables,
                   orphan, history, bounds>>

(* The thread cannot be started: the request aborts, the start-up gives up. *)
SpawnFails ==
    /\ pc = "spawn" /\ Fault
    /\ IF boot THEN Leave /\ UNCHANGED job ELSE Abort
    /\ UNCHANGED <<batch, pos, seen, outcome, queue, keep, signals, state, flag,
                   item, intent, orphan, drives, late, parked>>

-----------------------------------------------------------------------------
(* The start-up of the web process.                                        *)

(* Staged outcomes are replayed without a lock, then the scope is          *)
(* reconciled if its lock is free.                                         *)
BootReplay ==
    /\ pc = "boot"
    /\ job' = Replayed /\ intent' = StillOpen
    /\ Goto("bootlock")
    /\ UNCHANGED <<lock, boot, batch, pos, seen, outcome, queue, keep, signals,
                   state, flag, item, orphan, history, bounds>>

(* A replay that fails is counted and left for later. *)
BootReplayFails ==
    /\ pc = "boot" /\ Fault
    /\ Goto("bootlock")
    /\ UNCHANGED <<lock, boot, batch, pos, seen, outcome, queue, keep, signals,
                   tables, orphan, history>>

BootReconcile ==
    /\ pc = "bootlock"
    /\ IF lock = "free" /\ orphan = Nobody
       THEN Reconcile /\ marker' \in {marker, FALSE}
       ELSE UNCHANGED <<job, intent, marker>>
    /\ \E s \in [1 .. Cardinality(Pending) -> Pending] : OldestFirst(s) /\ queue' = s
    /\ Goto("resume")
    /\ UNCHANGED <<lock, boot, batch, pos, seen, outcome, keep, event, canceller,
                   state, flag, item, orphan, history, bounds>>

(* Mutant: an interrupted item is put back into the queue. *)
RecoveredRequeued(b) == [i \in Items |->
    IF item[b][i] = "running" /\ job[b][i] # "running"
    THEN IF job[b][i] = "ok" THEN "done" ELSE "queued"
    ELSE item[b][i]]

(* Mutant: only an error makes an interrupted item fail. *)
RecoveredDone(b) == [i \in Items |->
    IF item[b][i] = "running" /\ job[b][i] # "running"
    THEN IF job[b][i] # "error" THEN "done" ELSE "failed"
    ELSE item[b][i]]

(* job_batch_recover: items whose job is over are closed, none is restarted. *)
Recovered(b) == [i \in Items |->
    IF item[b][i] = "running" /\ job[b][i] # "running"
    THEN IF job[b][i] = "ok" THEN "done" ELSE "failed"
    ELSE item[b][i]]

Resume ==
    /\ pc = "resume"
    /\ queue # <<>>
    /\ LET b == Head(queue) IN
          /\ batch' = b
          /\ item' = [item EXCEPT ![b] = Recovered(b)]
          /\ keep' = flag[b]
          /\ IF Unfinished(Recovered(b))
             THEN Goto("acquire") /\ UNCHANGED <<state, queue>>
             ELSE /\ state' = [state EXCEPT ![b] = "done"]
                  /\ queue' = Tail(queue)
                  /\ UNCHANGED pc
    /\ UNCHANGED <<lock, boot, pos, seen, outcome, signals, flag, job, intent,
                   orphan, history, bounds>>

ResumeEnds ==
    /\ pc = "resume" /\ queue = <<>>
    /\ boot' = FALSE
    /\ Goto("idle")
    /\ UNCHANGED <<lock, batch, pos, seen, outcome, queue, keep, signals, tables,
                   orphan, history, bounds>>

(* The next batch is looked at; this one waits for another start-up. *)
PassOver ==
    /\ parked' = parked \cup {batch}
    /\ queue' = Tail(queue)
    /\ Goto("resume")

Acquire ==
    /\ pc = "acquire"
    /\ IF lock = "free"
       THEN lock' = "web" /\ Goto("settle") /\ UNCHANGED <<queue, parked>>
       ELSE PassOver /\ UNCHANGED lock
    /\ UNCHANGED <<boot, batch, pos, seen, outcome, keep, signals, tables, orphan,
                   drives, late, bounds>>

(* Mutant: a living child does not refuse the scope. *)
SettleUnchecked ==
    /\ pc = "settle"
    /\ Reconcile
    /\ event' = (keep /\ event)
    /\ marker' \in IF keep THEN {marker, FALSE} ELSE {FALSE}
    /\ Goto(IF boot THEN "spawn" ELSE "reserve")
    /\ queue' = <<>>
    /\ UNCHANGED <<lock, boot, batch, pos, seen, outcome, keep, canceller, state,
                   flag, item, orphan, history, bounds>>

(* _acquire_definition_batch_scope behind the lock: a living child refuses  *)
(* the scope; otherwise reconcile, and reset the cancel state unless the    *)
(* batch at hand was cancelled.  The start-up resumes one batch only.       *)
Settle ==
    /\ pc = "settle" /\ orphan = Nobody
    /\ Reconcile
    /\ event' = (keep /\ event)
    /\ marker' \in IF keep THEN {marker, FALSE} ELSE {FALSE}
    /\ Goto(IF boot THEN "spawn" ELSE "reserve")
    /\ parked' = IF boot THEN parked \cup {Tail(queue)[k] : k \in 1 .. Len(queue) - 1}
                 ELSE parked
    /\ queue' = <<>>
    /\ UNCHANGED <<lock, boot, batch, pos, seen, outcome, keep, canceller, state,
                   flag, item, orphan, drives, late, bounds>>

SettleRefused ==
    /\ pc = "settle" /\ orphan # Nobody
    /\ lock' = "free"
    /\ IF boot THEN PassOver ELSE Goto("idle") /\ UNCHANGED <<queue, parked>>
    /\ UNCHANGED <<boot, batch, pos, seen, outcome, keep, signals, tables, orphan,
                   drives, late, bounds>>

(* The reconciliation raises: 500 without a batch, or a start-up that fails *)
(* and is tried again in a new process.                                     *)
SettleFails ==
    /\ pc = "settle" /\ ~boot /\ Fault
    /\ Leave
    /\ UNCHANGED <<batch, pos, seen, outcome, queue, keep, signals, tables, orphan,
                   history>>

StartupFails ==
    /\ boot /\ pc \in {"bootlock", "resume", "settle"} /\ Fault
    /\ lock' = IF pc = "settle" THEN "free" ELSE lock
    /\ event' = FALSE
    /\ Goto("boot")
    /\ UNCHANGED <<boot, batch, pos, seen, outcome, queue, keep, marker, canceller,
                   tables, orphan, history>>

-----------------------------------------------------------------------------
(* The thread.                                                             *)

Load ==
    /\ pc = "load"
    /\ seen' = item[batch] /\ pos' = 1
    /\ Goto("item")
    /\ UNCHANGED <<lock, boot, batch, outcome, queue, keep, signals, tables,
                   orphan, history, bounds>>

(* Mutant: the cancel stored with the batch is not read. *)
NextItemSignalOnly ==
    /\ pc = "item"
    /\ pos \in Items
    /\ IF seen[pos] \in Ended
       THEN pos' = pos + 1 /\ UNCHANGED <<pc, outcome>>
       ELSE /\ UNCHANGED pos
            /\ IF Cancelled
               THEN outcome' = "cancelled" /\ Goto("finish")
               ELSE /\ Goto(IF seen[pos] = "running" THEN "claim" ELSE "start")
                    /\ UNCHANGED outcome
    /\ UNCHANGED <<lock, boot, batch, seen, queue, keep, signals, tables, orphan,
                   history, bounds>>

(* Mutant: the items of a cancelled batch are passed over, not closed. *)
NextItemSkips ==
    /\ pc = "item"
    /\ pos \in Items
    /\ IF seen[pos] \in Ended \/ flag[batch] \/ Cancelled
       THEN pos' = pos + 1 /\ UNCHANGED pc
       ELSE UNCHANGED pos /\ Goto(IF seen[pos] = "running" THEN "claim" ELSE "start")
    /\ UNCHANGED <<lock, boot, batch, seen, outcome, queue, keep, signals, tables,
                   orphan, history, bounds>>

(* The next item: closed ones are skipped, a cancelled batch starts none, a *)
(* running one already has its job.                                         *)
NextItem ==
    /\ pc = "item"
    /\ pos \in Items
    /\ IF seen[pos] \in Ended
       THEN pos' = pos + 1 /\ UNCHANGED <<pc, outcome>>
       ELSE /\ UNCHANGED pos
            /\ IF flag[batch] \/ Cancelled
               THEN outcome' = "cancelled" /\ Goto("finish")
               ELSE /\ Goto(IF seen[pos] = "running" THEN "claim" ELSE "start")
                    /\ UNCHANGED outcome
    /\ UNCHANGED <<lock, boot, batch, seen, queue, keep, signals, tables, orphan,
                   history, bounds>>

(* The finally block gives both locks back. *)
ThreadEnds ==
    /\ pc = "item" /\ pos \notin Items
    /\ Leave
    /\ UNCHANGED <<batch, pos, seen, outcome, queue, keep, signals, tables,
                   orphan, history, bounds>>

(* No job for this item: it is closed as failed and the next one is tried. *)
GiveUp ==
    /\ outcome' = "failed"
    /\ Goto("finish")

(* job_start with exclusive_scope: another running row raises. *)
Start ==
    /\ pc = "start"
    /\ IF JobRunning
       THEN GiveUp /\ UNCHANGED job
       ELSE /\ job' = [job EXCEPT ![batch][pos] = "running"]
            /\ Goto("link")
            /\ UNCHANGED outcome
    /\ UNCHANGED <<lock, boot, batch, pos, seen, queue, keep, signals, state,
                   flag, item, intent, orphan, drives, late, parked,
                   bounds>>

StartFails ==
    /\ pc = "start" /\ Fault
    /\ \/ UNCHANGED job
       \/ ~JobRunning /\ job' = [job EXCEPT ![batch][pos] = "running"]
    /\ GiveUp
    /\ UNCHANGED <<lock, boot, batch, pos, seen, queue, keep, signals, state,
                   flag, item, intent, orphan, drives, late, parked>>

(* job_batch_item_start: compare-and-set from queued. *)
Link ==
    /\ pc = "link"
    /\ IF item[batch][pos] = "queued"
       THEN /\ item' = [item EXCEPT ![batch][pos] = "running"]
            /\ Goto("claim")
            /\ UNCHANGED <<job, pos>>
       ELSE /\ job' = Finished(job, batch, pos, "error")
            /\ pos' = pos + 1
            /\ Goto("item")
            /\ UNCHANGED item
    /\ UNCHANGED <<lock, boot, batch, seen, outcome, queue, keep, signals, state,
                   flag, intent, orphan, history, bounds>>

LinkFails ==
    /\ pc = "link" /\ Fault
    /\ \E s \in {item[batch][pos], "running"} : item' = [item EXCEPT ![batch][pos] = s]
    /\ GiveUp
    /\ UNCHANGED <<lock, boot, batch, pos, seen, queue, keep, signals, state,
                   flag, job, intent, orphan, drives, late, parked>>

(* _run_backup_thread drives a job only while its row is running. *)
Claim ==
    /\ pc = "claim"
    /\ IF job[batch][pos] = "running"
       THEN /\ drives' = [drives EXCEPT ![batch][pos] = @ + 1]
            /\ late' = IF flag[batch] THEN [late EXCEPT ![batch] = @ + 1] ELSE late
            /\ Goto("drive")
       ELSE Goto("read") /\ UNCHANGED <<drives, late>>
    /\ UNCHANGED <<lock, boot, batch, pos, seen, outcome, queue, keep, signals,
                   tables, orphan, parked, bounds>>

(* The row cannot be read: the job is closed as an error without a run. *)
ClaimFails ==
    /\ pc = "claim" /\ Fault
    /\ job' = Finished(job, batch, pos, "error")
    /\ Goto("read")
    /\ UNCHANGED <<lock, boot, batch, pos, seen, outcome, queue, keep, signals,
                   state, flag, item, intent, orphan, history>>

(* The run ends; _finish_status lets a cancel win.  A child whose end could *)
(* not be confirmed after SIGKILL fails its pair, stays registered and may  *)
(* live on; nothing looks for it before the next definition.                *)
Drive ==
    /\ pc = "drive"
    /\ outcome' \in IF Cancelled THEN {"cancelled"} ELSE {"ok", "error"}
    /\ orphan' \in IF outcome' = "ok" THEN {orphan} ELSE {orphan, batch}
    /\ Goto("close")
    /\ UNCHANGED <<lock, boot, batch, pos, seen, queue, keep, signals, tables,
                   history, bounds>>

(* job_finish_external. *)
Close ==
    /\ pc = "close"
    /\ job' = Finished(job, batch, pos, outcome)
    /\ Goto("read")
    /\ UNCHANGED <<lock, boot, batch, pos, seen, outcome, queue, keep, signals,
                   state, flag, item, intent, orphan, history, bounds>>

(* Its three attempts fail: the outcome is staged or not, and if staged it  *)
(* may have been applied without being marked.                              *)
CloseFails ==
    /\ pc = "close" /\ Fault
    /\ \/ UNCHANGED <<job, intent>>
       \/ /\ intent' = [intent EXCEPT ![batch][pos] = outcome]
          /\ job' = Finished(job, batch, pos, outcome) \/ UNCHANGED job
    /\ Goto("read")
    /\ UNCHANGED <<lock, boot, batch, pos, seen, outcome, queue, keep, signals,
                   state, flag, item, orphan, history>>

(* Mutant: the status of the job is stored as the state of the item. *)
ReadJobRaw ==
    /\ pc = "read"
    /\ IF job[batch][pos] = "running"
       THEN Goto("pending") /\ UNCHANGED outcome
       ELSE outcome' = job[batch][pos] /\ Goto("finish")
    /\ UNCHANGED <<lock, boot, batch, pos, seen, queue, keep, signals, tables,
                   orphan, history, bounds>>

(* The row is read back; a running one may have a staged outcome. *)
ReadJob ==
    /\ pc = "read"
    /\ IF job[batch][pos] = "running"
       THEN Goto("pending") /\ UNCHANGED outcome
       ELSE /\ outcome' = CASE job[batch][pos] = "ok" -> "done"
                            [] job[batch][pos] = "cancelled" -> "cancelled"
                            [] OTHER -> "failed"
            /\ Goto("finish")
    /\ UNCHANGED <<lock, boot, batch, pos, seen, queue, keep, signals, tables,
                   orphan, history, bounds>>

(* job_terminal_pending: with a staged outcome the batch pauses. *)
Pause ==
    /\ pc = "pending"
    /\ intent[batch][pos] # "none"
    /\ Leave
    /\ UNCHANGED <<batch, pos, seen, outcome, queue, keep, signals, tables,
                   orphan, history, bounds>>

NoOutcome ==
    /\ pc = "pending"
    /\ intent[batch][pos] = "none"
    /\ outcome' = "failed"
    /\ Goto("finish")
    /\ UNCHANGED <<lock, boot, batch, pos, seen, queue, keep, signals, tables,
                   orphan, history, bounds>>

FinishItem ==
    /\ pc = "finish"
    /\ ItemFinish(batch, pos, outcome)
    /\ pos' = pos + 1
    /\ Goto("item")
    /\ UNCHANGED <<lock, boot, batch, seen, outcome, queue, keep, signals, flag,
                   job, intent, orphan, history, bounds>>

(* An operation of the thread raises, before or after its commit: the       *)
(* finally block gives the locks back and the batch stays as it is.         *)
ThreadRaises ==
    /\ pc \in {"load", "item", "read", "pending", "finish"}
    /\ Fault
    /\ \/ UNCHANGED <<item, state>>
       \/ pc = "finish" /\ ItemFinish(batch, pos, outcome)
    /\ Leave
    /\ UNCHANGED <<batch, pos, seen, outcome, queue, keep, signals, flag, job,
                   intent, orphan, history>>

-----------------------------------------------------------------------------
(* Cancel requests, other processes, and the end of the web process.       *)

(* job_batch_request_cancel first; the signal only if something is running. *)
CancelRecord ==
    /\ canceller = "idle" /\ ~boot
    /\ flag' = [b \in Batches |-> flag[b] \/ state[b] = "running"]
    /\ canceller' \in
          IF flag' # flag \/ JobRunning \/ orphan # Nobody \/ pc = "drive" THEN {"signal"}
          ELSE IF lock = "other" THEN {"signal", "idle"} ELSE {"idle"}
    /\ UNCHANGED <<control, event, marker, state, item, job, intent, orphan,
                   history, bounds>>

CancelSignal ==
    /\ canceller = "signal"
    /\ event' = TRUE /\ marker' = TRUE /\ canceller' = "idle"
    /\ UNCHANGED <<control, tables, orphan, history, bounds>>

(* A process that reconciles another scope replays intents of this one. *)
ReplayedElsewhere(b, i) ==
    /\ Applicable(b, i)
    /\ job' = [job EXCEPT ![b][i] = intent[b][i]]
    /\ intent' = [intent EXCEPT ![b][i] = "none"]
    /\ UNCHANGED <<control, signals, state, flag, item, orphan, history, bounds>>

OtherTakes ==
    /\ Contended /\ lock = "free"
    /\ lock' = "other"
    /\ UNCHANGED <<pc, boot, batch, pos, seen, outcome, queue, keep, signals,
                   tables, orphan, history, bounds>>

(* Another holder reconciles and, before a run of its own, resets the       *)
(* cancel state: the marker, and the event when it runs in the web process. *)
OtherReconciles ==
    /\ lock = "other" /\ orphan = Nobody
    /\ Reconcile
    /\ \/ UNCHANGED <<event, marker>>
       \/ marker' = FALSE /\ event' \in {event, FALSE}
    /\ UNCHANGED <<control, canceller, state, flag, item, orphan, history, bounds>>

(* Its run may leave a living child, too.                                   *)
OtherReleases ==
    /\ lock = "other"
    /\ lock' = "free"
    /\ orphan' \in {orphan, Stranger}
    /\ UNCHANGED <<pc, boot, batch, pos, seen, outcome, queue, keep, signals,
                   tables, history, bounds>>

ChildExits ==
    /\ orphan # Nobody /\ orphan' = Nobody
    /\ UNCHANGED <<control, signals, tables, history, bounds>>

Crash ==
    /\ crashes < MaxCrashes /\ crashes' = crashes + 1
    /\ lock' = IF lock = "web" THEN "free" ELSE lock
    /\ pc' = "boot" /\ boot' = TRUE
    /\ batch' = 1 /\ pos' = 1 /\ seen' = [i \in Items |-> "none"]
    /\ outcome' = "none" /\ queue' = <<>> /\ keep' = FALSE
    /\ event' = FALSE /\ canceller' = "idle"
    /\ orphan' \in IF orphan # Nobody THEN {Stranger}
                   ELSE IF pc = "drive" THEN {Nobody, Stranger} ELSE {Nobody}
    /\ UNCHANGED <<marker, tables, history, faults>>

-----------------------------------------------------------------------------
(* The specification.                                                      *)

Startup == BootReplay \/ BootReconcile \/ Resume \/ ResumeEnds \/ Acquire
Setup   == Settle \/ SettleRefused \/ Reserve \/ Create \/ Spawn
Thread  == \/ Load \/ NextItem \/ ThreadEnds \/ Start \/ Link \/ Claim \/ Drive
           \/ Close \/ ReadJob \/ Pause \/ NoOutcome \/ FinishItem
Faults  == \/ BootReplayFails \/ SettleFails \/ StartupFails \/ ReserveFails
           \/ CreateFails \/ SpawnFails \/ StartFails
           \/ LinkFails \/ ClaimFails \/ CloseFails \/ ThreadRaises
Others  == \/ \E b \in Batches, i \in Items : ReplayedElsewhere(b, i)
           \/ OtherTakes \/ OtherReconciles \/ OtherReleases \/ ChildExits

Next == \/ Request \/ Startup \/ Setup \/ Thread \/ Faults
        \/ CancelRecord \/ CancelSignal \/ Others \/ Crash

Spec == Init /\ [][Next]_vars

(* The web process goes on while it lives; other holders leave the scope. *)
FairSpec == Spec /\ WF_vars(Startup \/ Setup \/ Thread) /\ WF_vars(OtherReleases)

-----------------------------------------------------------------------------
(* Properties.                                                             *)

Places == {"boot", "bootlock", "resume", "acquire", "settle", "reserve", "create",
           "spawn", "idle", "load", "item", "start", "link", "claim", "drive",
           "close", "read", "pending", "finish"}

(* Types of the variables of a batch (db.py job_batches, job_batch_items, *)
(* jobs, job_terminal_intents) and of the thread's registers.             *)
TypeOK ==
    /\ lock \in {"free", "web", "other"} /\ pc \in Places /\ boot \in BOOLEAN
    /\ batch \in Batches /\ pos \in 1 .. (Last + 1)
    /\ seen \in [Items -> Ended \cup {"none", "queued", "running"}]
    /\ outcome \in Results \cup Ended \cup {"none"}
    /\ queue \in Seq(Batches) /\ keep \in BOOLEAN
    /\ event \in BOOLEAN /\ marker \in BOOLEAN /\ canceller \in {"idle", "signal"}
    /\ state \in [Batches -> {"absent", "refused", "running", "done", "cancelled"}]
    /\ flag \in [Batches -> BOOLEAN]
    /\ item \in [Batches -> [Items -> Ended \cup {"none", "queued", "running"}]]
    /\ job \in [Batches -> [Items -> Results \cup {"none", "running", "stale"}]]
    /\ intent \in [Batches -> [Items -> Results \cup {"none"}]]
    /\ orphan \in LeftBy
    /\ drives \in [Batches -> [Items -> Nat]] /\ late \in [Batches -> Nat]
    /\ parked \subseteq Batches
    /\ crashes \in 0 .. MaxCrashes /\ faults \in 0 .. MaxFaults

(* The definition of an item is driven at most once, through kills of the *)
(* web process, retries of the database and resumed threads               *)
(* (job_batch_recover, job_batch_item_start, _run_backup_thread).         *)
ItemOnce == \A b \in Batches, i \in Items : drives[b][i] <= 1

(* After job_batch_request_cancel has recorded the cancel of a batch at     *)
(* most one more definition begins, the one already past its check, even if *)
(* the web process restarts and another holder resets the cancel state.     *)
CancelStops == \A b \in Batches : late[b] <= 1

(* A batch never reports more than happened: a done item was driven and its *)
(* job ended ok, an ended batch has no open item, and a batch without a     *)
(* recorded cancel is never cancelled (job_batch_item_finish,               *)
(* job_batch_recover).                                                      *)
ItemsTellTheTruth ==
    \A b \in Batches :
        /\ \A i \in Items :
              item[b][i] = "done" => job[b][i] = "ok" /\ drives[b][i] = 1
        /\ state[b] \in {"done", "cancelled"} => ~Unfinished(item[b])
        /\ state[b] = "cancelled" => flag[b]

(* Definitions run one after the other: while one is driven the web process *)
(* holds the scope, no other row of the batches is running and every item   *)
(* before it is closed.  No child of a killed process, of another holder or *)
(* of an earlier batch lives beside it (_acquire_definition_batch_scope);   *)
(* one that an earlier definition of this batch left behind may, since the  *)
(* thread takes the scope once and goes on when a SIGKILL is unconfirmed.   *)
DrivesAlone ==
    pc = "drive" =>
        /\ lock = "web" /\ orphan \in {Nobody, batch}
        /\ \A b \in Batches, i \in Items :
              job[b][i] = "running" => b = batch /\ i = pos
        /\ \A i \in 1 .. (pos - 1) : item[batch][i] \in Ended

(* The tables are the ledger of BatchLedger: a refused request stores no   *)
(* batch, and of a job the ledger knows only whether it ended ok.           *)
Told == [b \in Batches |-> IF state[b] = "refused" THEN "absent" ELSE state[b]]
EndedOk == [b \in Batches |-> [i \in Items |-> job[b][i] = "ok"]]
Ledger == INSTANCE BatchLedger WITH state <- Told, good <- EndedOk
BatchLedgerSpec == Ledger!Spec

(* While nothing is killed and nothing fails a job shown as running has a   *)
(* holder of the scope: the request takes the lease before it reserves the  *)
(* first job and the thread gives it back (HeldFileLock, jobs/locks.py 22). *)
RunningHasItsLock == crashes + faults = 0 => (JobRunning => lock # "free")

(* As long as no operation fails, a stored batch ends after any kill, or a  *)
(* start-up has passed it over because the scope was taken or another batch *)
(* was first (resume_pending_definition_batches).                           *)
BatchesEnd ==
    \A b \in Batches :
        state[b] = "running" ~> (state[b] # "running" \/ b \in parked \/ faults > 0)
=============================================================================
