# Sicherpfad Server in TLA+

TLA+ models of the backup server in `src/app` (FastAPI web process, systemd
scheduler tick, command line), the TLC configurations that check them on small
instances, and theorems about them checked by TLAPS.

## 1. The system

### Processes and shared state

Three kinds of processes share one host: the **web process** (`app/main.py`,
`app/routes/*`), the **scheduler tick** a systemd timer starts every minute
(`app/jobs/scheduler_cli.py`) and the **command line**
(`app/jobs/backup_cli.py`, `app/cli.py`).  They share

* an SQLite database (`app/db.py`): jobs, pair results, staged terminal
  outcomes, persisted batches, push outbox, WebAuthn ceremonies, audit;
* a state directory (`app/jobs/runtime_state.py`): `current-run.json`, one
  cancel marker per scope, one marker per registered child process;
* one advisory file lock per scope, `backup` and `pbs` (`app/jobs/locks.py`);
* a YAML configuration with its own lock and revision (`app/config_store.py`);
* staging and snapshot directories of the recovery functions.

Every sync runs as an `rclone` child process in a session of its own.

### Inventory

| component | state it keeps | operations | what is hard | what makes it correct |
|---|---|---|---|---|
| run lifecycle (`job_lifecycle`, `locks`, `runtime_state`, `backup_cli`, `scheduler_cli`, `api_jobs`, `rclone_sync._run_rclone_command`, `db.job_*`) | lock, job rows, terminal intents, run file, markers | lock, reconcile, reserve, drive, cancel, close, recover | kills at any line, children that outlive their parent, lost acknowledgements, cancel against start | one holder, no outcome lost, no cancelled run reported as ok, every run ends |
| definition batches (`api_jobs._queue_enabled_job_definitions`, `_run_definition_batch_thread`, `resume_pending_definition_batches`, `db.job_batch_*`) | batch rows, item rows | create, start item, finish item, cancel, recover, resume | restart between item and job, cancel in the database against cancel marker | every item ends, no item runs twice, a cancelled batch starts nothing |
| pair runner (`rclone_sync.run_job`, `_sync_pair`, `run_quick`, `pair_planner`) | pending, running, results of one run; history of each pair | plan, submit, precheck, guard, first resync, sync, collect, cancel | parallel pairs with overlapping paths, a kill in the first resync, a child that survives SIGKILL | overlapping pairs never run together, a pair resyncs once by itself, every run ends |
| push outbox (`db.push_*`, `push_notifications`) | outbox rows, device rows, claims | enqueue, claim, renew, finish, prune, revoke | expired leases, late answers, retries against terminal rows | nobody finishes a row it does not own, a terminal row stays terminal |
| scheduler decisions (`scheduler`, `scheduler_cli`, `scheduler_control`, `overdue`) | last attempt and success of each item, pause, debounce of the alarm | due, catch-up, back-off, start under the lock, alarm, pause, resume | a second look under the lock, a killed tick, a clock set back, a pause deleted by its own expiry check | a slot starts at most once, every slot is answered, the alarm keeps its rhythm |
| configuration store (`config_store`, `file_lock`, `cli`, `routes/api_config`) | YAML file, the copy and revision of each process, snapshots | load, save by revision, rotate the session version, restore a snapshot | copies of several processes, a lock that times out, pages made from an old revision | one register for all, ended sessions stay ended |
| protection (`protection`) | baselines, quarantines | measure, judge, quarantine, acknowledge | overlapping paths, a guard read long before the start | nothing destructive starts on a quarantined path |
| recovery points and staging (`selective_restore`, `recovery_snapshots`, `recovery_lifecycle`, `restore_*`) | staging trees, manifests, leases | capture, publish, restore, clean up | crash between copy and publication | a published point is complete, cleaning removes nothing in use |
| PBS jobs (`pbs_backup`) | PBS rows of the job table | backup, prune | the same lifecycle under its own lock | as the run lifecycle |
| progress stream (`api_jobs._ProgressBroadcaster`) | subscribers, producer task | subscribe, publish, unsubscribe, stop | slow subscribers, producer that ends while somebody joins | bounded queues, no producer without a subscriber |
| authentication (`auth`, `webauthn_service`, `routes/api_webauthn`, `auth_contract`) | session version, passkey and its counter, tickets, challenges, exchange codes, lock-out counters | login, register, authenticate, exchange, change, log out | slow proofs against changes of the account, one-time records used twice | no grant from an outdated proof, single use |
| device vault (`device_vault`, `routes/api_vault`, `handover_rescue`, iOS queue) | receipts, part files, shared blobs, copies in the target | create, append, complete, verify, rescue, remove, import | lost answers, restarts, several uploads of one content | no acknowledged chunk and no shared content is lost, ready means restorable |
| web and iOS user interfaces, diagnostics, installation scripts | none that others depend on | display, forms | -- | -- |

## 2. The modules

| module | what it is | state and actions against the code |
|---|---|---|
| `JobLedger` | abstract specification: what the job table promises to its readers | `status` is `jobs.status`, `announced` the outcome staged in `job_terminal_intents` |
| `JobLifecycle` | the scope `backup` from the file lock to its release, three kinds of processes, their children and the cancel request | below |
| `MCJobLifecycle` | symmetry of jobs and pairs for TLC | -- |
| `JobLifecycleProofs` | the theorems about `JobLifecycle` | -- |
| `BatchLedger` | abstract specification: what the batch tables promise to their readers | `state`, `flag` and `item` are the columns of `job_batches` and `job_batch_items`; `drives`, `late` and `good` say what happened to the definitions |
| `DefinitionBatch` | the durable batch of job definitions above the lifecycle | below |
| `OutboxLedger` | abstract specification: what the outbox promises of a stored message | `life` is `push_outbox.status` with pending and sending as one, `taken` counts what APNs accepted |
| `PushOutbox` | registrations, stored messages, claims, delivery, revocation | below |
| `PairRunner` | the data paths of one run after the other: planner, executor loop, guard, first resync | below |
| `SchedulerDue` | one tick after the other: alarm, pause, evaluation, start of jobs, PBS targets and the restore drill | below |
| `ConfigStore` | the configuration file and the copies of the processes | below |
| `AccountGrants` | sessions, passkeys, one-time records and devices of the account | below |
| `RecoveryStore` | full points, staged restores, scratch directories, their records and the start of the server | below |
| `VaultUpload` | uploads of a phone, their shared blobs and target copies | below |
| `DefinitionBatchProofs`, `PushOutboxProofs`, `SchedulerDueProofs`, `RecoveryStoreProofs` | the theorems about the component each is named after | section 4 |
| `TransferProofs` | the theorems about `PairRunner` and `VaultUpload` | section 4 |
| `ConfigAccountProofs` | the theorems about `ConfigStore` and `AccountGrants` | section 4 |
| `ComponentProofs` | that they hold where the components stand together (`MCComponents`) | section 4 |
| `MCDefinitionBatch` | the state constraint of its run | -- |
| `MCPairRunner`, `MCSchedulerDue`, `MCVaultUpload` | data of the instances: paths, schedules, contents | -- |
| `MCComponents`, `MCProgress` | several components in one run, for their safety and for their progress | below |

Every definition that stands for code is listed with its source lines in
`PROJECT.json` under `map`.  Definitions whose comment starts with "Mutant:" are
deliberately wrong variants of the definition that follows; `PROJECT.json` says
which property notices each of them.

### JobLifecycle

A worker's place `pc` follows the handlers: `idle` -> `locked`
(`try_file_lock`) -> `runtime` -> `collect`/`replay`/`replaymark` -> `stale`
(`reconcile_locked_scope`) -> `reset`/`unlink` (`reset_cancel`) -> `start`
(`job_start`) -> `begin` (`begin_run`) -> `run` (pair threads, `Spawn`,
`Register`, `Reap`, `StopOnCancel`, `StopOnWatchdog`) -> `stage`, `apply`,
`mark` (`job_finish_external`) -> `runfile` (`finish_run`) -> `next` ->
`release`.  The web process starts in `boot`, where `main._lifespan` replays
staged outcomes before it takes any lock.  A process that reconciles another
scope replays this scope's outcomes without its lock; this is `CollectIntents`
at `idle`.

Every database call is a step; the failing variant of a step (`...Fails`) lets
the transaction commit or not, so a lost acknowledgement is included.  `Crash`
can take a process at any place: its lock is freed, its memory is gone, and any
subset of its children lives on in the sessions `Popen` gave them.  The cancel
request is its own sequence (event, marker, kill) beside everything else.  The
PBS scope runs the same handlers under its own lock and needs no module of its
own.

What is abstracted: a job's result is one of ok, error, cancelled; the retries
of one pair after a non-zero exit are one child; the two halves of
`recover_stale_run_details` and of the run-file rewrite at start-up are one step
each (section 6); progress, logs, notifications and audit rows are left
out.

### DefinitionBatch

One request handler or start-up or thread works in the web process at a time,
since it holds the scope; `pc` says where.  `settle` is the reconciliation and
`reserve`, `create`, `spawn` are the rest of `_queue_enabled_job_definitions`;
`load`, `item`, `start`, `link`, `claim`, `drive`, `close`, `read`, `pending`,
`finish` are the loop of `_run_definition_batch_thread` with `_run_backup_thread`
inside; `boot`, `bootlock`, `resume`, `acquire` are `_lifespan` and
`resume_pending_definition_batches`.  A run is one step here (`Drive`), with the
staged outcome kept apart from the row (`intent`), so that a replay by another
process (`ReplayedElsewhere`) can come between.  Another holder of the scope
takes, reconciles and releases it.  A run that does not end well may leave its
registered child alive, when the `SIGKILL` of `_terminate_proc` cannot be
confirmed: `orphan` says who left one.  A new holder that finds a living child
does not work, but the thread of a batch takes the scope once and drives the
next definition beside the child of the last one.

### PushOutbox

Time is a clock of ticks.  Every database call is one transaction and one step,
and the waits between them (for the fence, for the network) are states in which
leases may run out.  A dispatcher goes `claim` -> `next` (renewal of all
remaining claims) -> `prepare` -> `fenced` -> `check` -> `post` -> `finish` (->
`remove` for a token APNs rejects).  The fence is `delivery_guard`: an RLock and
a file lock together, free for whoever comes first.  The owner of a claim is an
id used for one call of `dispatch_pending_pushes`; a crash therefore leaves rows
that belong to nobody alive.

### PairRunner

`runPhase` and `loopAt` are `run_job` and its executor loop (`top`, `fill`,
`wait`, `verdict`), `pairStage` the worker of each pair in `_sync_pair`:
`precheck`, `guard` (`active_quarantine`), `judge` (the measurement),
`spawn`, `drive`, `resync`/`redrive` (the first resync and the run after it) and
`record`.  Three stores outlive a run: the history of a pair, its baseline and
the quarantines.  The planner is modelled as it computes, on the components of
the two endpoints (`Under`, `PathsOverlap`, `PairsConflict`).  A quick sync is a
run of one pair with a shorter worker.  A child whose end could not be confirmed
goes from `pairKids` (a worker waits for it) to `stuck`; `StartRun` may come while
one is alive, as the next definition of a batch or a tick does, and only the
recovery after a kill waits for its end.

### SchedulerDue

`tickAt` follows `scheduler_cli.main`: `idle` -> `send` (alarm noted, not yet
sent) -> `pause`/`drop` -> `due` (first evaluation) -> one place per item, where
it is passed by, found no longer due, started and finished under the lock.
`Evaluate` is `_evaluate_due` with the catch-up of missed slots, the grace of a
first start, the back-off of a failure and the rule for a wall time that comes
twice.  A run by hand, a pause set, resumed and expired, and the kill of the
tick go on beside it.  An alarm is noted first and sent afterwards, and may be
lost in between: the tick is killed, or `notify` swallows a failure of the outbox
or of the configuration (`SendAlarm`); `alarmsLost` counts these.

### ConfigStore

A client goes `get` -> `page` for the page of an operator and `put` -> `lock` ->
`wait` (for the file lock, with a timeout) -> `write` -> `written` for a save;
`getOpen` and `putOpen` lie between the look at the modification time and the
content.  Threads of one process share its copy under `rlock`.

### AccountGrants

A flow is one request that first proves something in a generation of the account
and later decides under `account_generation_guard`.  Tickets, challenges and
exchange codes are one-time records in the database.  `key.gen` tells a passkey
from the one that was deleted and registered anew.  `BumpVersion` is
`bump_session_version` with its revocation of devices before it.

### RecoveryStore

`recAt` follows the thread of a recovery: `workspace`, `inventory`, `copy`,
`again`, `publish`, `prune` for a capture, `budget`/`announce`, `mkdir`,
`measure`, `copy` for a restore, then `failed`, the outcome, `saveReady` or
`saveError`, and `release`.  `server` goes through the steps of `_lifespan` after
a kill: replay of outcomes, reconciliation (refused while a child lives),
deletion of what was interrupted, and the single write of the records.
Outsiders write the target at any time of a capture.

### VaultUpload

A receipt (`status`, bytes, endpoints), the part file chunk by chunk, the
content-addressed blobs all uploads share, and what lies in the target.  A step
under `_LOCK` is one step, or one that the death of the process cuts short
(`AppendCut`, `RemoveCut`); `create_upload` is two, since it looks for the blob
without the lock.  `worker` is the completion in its background thread, whose
last place is the audit row: when that fails, a receipt already saved as ready
becomes an error (`AuditReady`).  The phone appends from what it was told
(`told`) and repeats its requests; a removal cut short leaves it with what is out
of date, until an answer reaches it (`cut`).  Identical uploads that would share
one place in the target are given one each.

### MCComponents and MCProgress

The components beside the lifecycle share no variable in the models, so one TLC
run can look at several of them: `moving` is chosen in the initial state, and
only that component takes steps.  Each behaviour is a behaviour of exactly one
component; nothing is claimed about two of them at a time, and the invariants of
those that do not move hold as in their initial states.

## 3. The runs

| run | instance | what it shows |
|---|---|---|
| `job_safety` | web process and tick, two jobs, one pair, one kill, one failing operation, cancel at any time | one holder at a time and no attended child of an earlier one (`ScopeExclusive`); a staged outcome is never replaced by stale (`FinishedWorkKept`); a run that was driving when a cancel was recorded is never closed as ok (`CancelHonoured`); the reconciliation spares jobs at work; no marker of a living child is deleted; the tables implement `JobLedger`; the inductive invariant of the proofs (`IndInv`) holds |
| `job_liveness` | one job, one kill, two failing operations with two attempts, so that the attempts run out | every reserved run is closed; the run file never shows an outcome the table does not have |
| `batch` | two batches of two definitions beside another holder of the scope, one kill or one failing operation | the tables implement `BatchLedger` (`BatchLedgerSpec`): every definition is driven at most once and in its turn, closed once, and done only if its job ended ok; a definition is driven beside no other run, and beside no child but one that an earlier definition of the same batch left (`DrivesAlone`); after a recorded cancel at most the definition already past its check begins; a stored batch ends, or a start-up has passed it over |
| `push` | two dispatchers, one device, one message, one kill, one stall beyond a lease, one lost reply | nothing is under way to a revoked device; the table implements `OutboxLedger` (`OutboxLedgerSpec`): a row is never reopened, is sent only if APNs took it, is never taken after its device was revoked, and is taken twice only after a kill, a stall or a lost reply; every stored message is sent, given up or deleted |
| `components` | **run**: four pairs, three of them overlapping, two runs, a kill or a child that survives `SIGKILL`, or a shrinking source; **due**: job, PBS target, drill, a pause, a run by hand or a lost alarm; **store**: a web client and a command in two processes, two writes; **grant**: two flows, two ceremonies, one change; **recovery**: two jobs, two files, one kill or one failing save; **vault**: an upload of two chunks and an imported file of one content, one crash, one removal | types; the attended children of overlapping pairs are serialised, one automatic resync per pair (`FirstResyncOnce`), nothing destructive starts over a quarantine; the file and its copies are one register, the session version grows; no session rests on an old password, records and counters are used once, what a ceremony yields is of the account it was begun in; a point is one moment of its target, ready is whole, staged data stays in its budget, no directory goes under a living child; the chunks a phone was told of are kept (`AcknowledgedKept`) |
| `progress` | the same **run** once; one job every two minutes with a clock set back, two of a kill, a run by hand and a lost alarm, or a pause; two uploads of one content, one removal, a crash or a change of the data path | a run ends; a slot starts once and is answered; the alarm keeps its rhythm; ready uploads have a whole copy, a removal takes no data of another upload, an accepted completion ends |

Runs that are expected to find a violation, each for one statement of the
repository that the code does not keep (`PROJECT.json`, `findings`):

| run | property | what the code does |
|---|---|---|
| `job_replay_fault` | `FinishedWorkKept` | the replay of one outcome fails once; the stale marking follows all the same and closes a finished run |
| `job_orphan` | `NoDoubleStart` | a process is killed between `Popen` and the process marker, and the next tick starts a second child |
| `running_unlocked` | `RunningHasItsLock` | a cancel between the reservation of the first job and the first look of the thread closes the item and leaves its job running after both locks are released, without any kill or failure |
| `quarantine_ack` | `ReleaseHolds` | an acknowledgement leaves the baseline, so the next run quarantines the released source again |
| `old_device` | `NoOldDevice` | a device registers between the revocation of all devices and the new session version |
| `vault_shared` | `SharedBlobsRemain` | a creation has seen the blob, a removal deletes it, and the new receipt says its file is uploaded |

### Bounds and why they are enough

* *Processes.*  The web process and the tick cover all roles: the command line
  differs from the tick only in that it drives one job.  The proofs hold for any
  number.
* *Jobs.*  Two: the unique-running rule, the batch loop and the leftovers of an
  earlier job are relations between two jobs.  One pair: pairs are independent
  children in this model.
* *Kills and failures.*  One kill and one failing operation at every point, also
  the second after the first; two failures with two attempts exhaust the retry
  of `job_finish_external` (its source uses three; what counts is that it can
  run out and that it can succeed after a lost acknowledgement).
* *Batches.*  Two batches of two: the queue order, the item before and the item
  after are there.  A kill or a failing operation, not both: `BatchesEnd` excuses
  a batch after a failure, so the constraint takes no behaviour from it that it
  would have to answer for; the refinement is proved without the constraint.
* *Outbox.*  Lease 2, retention 3 and registration 3 ticks with a horizon of 5
  let each of them run out while another is valid.  `MaxAttempts` 2 lets a retry
  both be granted and refused.  One row at a time; what a second row adds is the
  renewal of the claims behind it, which is in the module.
* *Runs of pairs.*  Four pairs cover a path above another, one apart, and a quick
  sync into the target of a two-way pair; selections of two keep one waiting
  while another runs.  Two runs let the first leave a history, a quarantine or a
  baseline for the second.
* *Scheduler.*  In `progress`, `MaxClock` 4 with slots at 0, 2 and 4, where 4 has the wall time
  of 2: a slot before, a slot that is missed, and its double.
* *Configuration, account.*  Two clients in two processes, two writes; two flows
  at a time, two ceremonies, one change of the account: each hazard is a race of
  two.
* *Recovery.*  Two jobs (one leaves, one meets what is left), two files (a mixed
  state needs two), a budget that one large or two small restores fill.
* *Vault.*  Two uploads of one content; two chunks in `components`, where
  `AcknowledgedKept` needs a part file that was begun and is not whole; one chunk
  in `progress`.
* `OneTrouble` leaves out behaviours with two kinds of trouble at once: in
  `batch` a kill or a failing operation, and beside a failing operation no child
  that is left behind; in `components` (`Small`) a kill or a failing save, a
  shrinking source or a killed run and stuck children, one of a pause, a run by
  hand and a lost alarm.  In `progress` the guards `FewTroubles` (two kills, runs
  by hand or lost alarms, or one pause) and `CrashOrEdit` (a crash of the server
  or a changed data path) say the same; being guards of requests and failures,
  they leave the fair steps alone.  `DevicesAlone` keeps devices from registering
  next to a ceremony.  They cut states off
  and ask for nothing the code guarantees.  Flows and files are interchangeable
  (symmetry), and the run that uses symmetry has no liveness property.  The
  proofs know none of these constraints.
* Deadlock is not checked where the bounds end the system by design (all but the
  lifecycle, where every state has a successor).

### Fairness and why the code justifies it

* `JobLifecycle`: weak fairness of a worker's own steps (a thread of a live
  process goes on), strong fairness of the tick taking the lock (the systemd
  timer starts it every minute and holders come and go), weak fairness of a
  child's exit (rclone ends, and the watchdog ends it otherwise).  Nothing is
  assumed about requests, kills and failures, and the web process need never
  take the lock again.
* `DefinitionBatch`: weak fairness of the steps of the live web process and of
  the release by another holder.
* `PushOutbox`: time passes; `_run_push_dispatcher` calls the dispatcher every
  30 seconds (`StartDispatch(Loop)`); a POST ends by its timeout; a waiter for
  the file lock is served (strong fairness of `EnterFence`).  Background threads
  and the tick need never run.
* `PairRunner` in `progress`: some thread of the live process goes on, and a
  child ends, by itself or by its watchdog; nothing makes one particular pair go
  on, and a killed run need not be recovered.
* `SchedulerDue`: the timer starts a tick every minute and its steps go on, a run
  by hand ends, time passes.
* `VaultUpload`: a background task starts and its steps go on; the phone repeats
  its completion request (`VaultTransfer.swift` does so every 15 polls).

## 4. What is proved

Every theorem holds for every value of the constants that satisfies the named
assumption of its module: any number of processes, jobs, pairs, dispatchers,
messages, files or uploads, and any number of kills and faults.  Each proof
module states its inductive invariant at the top, as a conjunction of named
parts; the step lemmas below it go action by action.  The invariants were found
and checked with TLC on the instances of section 3 before they were proved.

| module | theorem | property |
|---|---|---|
| `JobLifecycleProofs` | `TypeCorrect`, `MutualExclusion` | types and registers; one process in the section of the file lock |
| | `ScopeStaysExclusive` | `ScopeExclusive` |
| | `WorkersAreSpared`, `LivingKidsAreKept` | `WorkersKeepTheirJob`, `LivingKidsStayVisible` |
| | `CancelsAreHonoured`, `RunFileIsTruthful` | `CancelHonoured`, `RunFileTruthful` |
| | with `ReplayFaults = FALSE`: `InductiveInvariant`, `OutcomesAreKept`, `LifecycleImplementsLedger` | `IndInv`, `FinishedWorkKept`, `LedgerSpec` |
| `DefinitionBatchProofs` | `BatchTypesHold`, `ItemsAreDrivenOnce`, `CancelsStopTheBatch`, `ItemsAreTruthful`, `DrivesAreAlone` | `TypeOK`, `ItemOnce`, `CancelStops`, `ItemsTellTheTruth`, `DrivesAlone` |
| | `BatchImplementsLedger` | `BatchLedgerSpec` |
| `PushOutboxProofs` | `OutboxTypesHold`, `RevokedDevicesStaySilent`, `MessagesAreDeliveredOnce` | `TypeOK`, `RevokedStaysSilent`, `DeliveredOnce` |
| | `OutboxImplementsLedger` | `OutboxLedgerSpec` |
| `TransferProofs` | `RunTypesHold`, `OverlapsAreSerialised`, `QuarantinesHold`, `FirstResyncIsOnce` | `RunTypeOK`, `OverlapSerialised`, `QuarantineHolds`, `FirstResyncOnce` |
| | `VaultTypesHold`, `AcknowledgedIsKept`, `ReadyStaysRestorable`, `SharedDataIsKept` | `VaultTypeOK`, `AcknowledgedKept`, `ReadyIsRestorable`, `SharedDataKept` |
| `ConfigAccountProofs` | `StoreTypesHold`, `VersionsGrow`, `StoreIsOneRegister` | `StoreTypeOK`, `VersionGrows`, `OneRegister` |
| | `GrantTypesHold`, `OldPasswordsAreOut`, `RecordsAreUsedOnce`, `GrantsRestOnTheLiving` | `GrantTypeOK`, `NoOldPassword`, `UsedOnce`, `YieldsAreLive` |
| `SchedulerDueProofs` | `SchedulerTypesHold`, `AlarmsKeepTheirRhythm` | `DueTypeOK`, `AlarmRhythm` |
| | for a calendar as below: `SlotsStartOnce` | `StartedOnce` |
| `RecoveryStoreProofs` | `RecoveryTypesHold`, `PointsAreOneMoment`, `ReadyRestoresAreWhole`, `ChildrenKeepTheirPlace`, `StagedDataFitsTheBudget` | `RecTypeOK`, `PointIsOneMoment`, `ReadyIsWhole`, `ChildKeepsItsPlace`, `DiskWithinBudget` |
| `ComponentProofs` | `ComponentTypesHold`, `ComponentsKeepTheirPromises` | `TypesOK`; every other property of the run `components` |

`ReplayFaults = FALSE` says that no replay fails between the lock and the stale
marking.  It is needed: `job_replay_fault` is the counterexample without it.

`SlotsStartOnce` takes three facts about the calendar, which hold of every
cron schedule under a clock that is set back once at a time: the occurrences of
one wall time are adjacent (`SlotsAdjacent`), between two wall times that come
twice lies another slot (`RepeatsApart`), and the second occurrence lies within
the grace of a first start (`RepeatsWithinGrace`).  TLC finds a double start when
any one of them is dropped; `MCSchedulerDue` assumes them, so TLC also checks that
the instance satisfies them.  The third is a real limit of the code, see
section 6.  No other theorem has a hypothesis of its own.

### The arguments

* **Lifecycle.**  `FinishedWorkKept` is not inductive: `MarkStale` closes every
  running row, and nothing in the property says that none of them has a staged
  outcome.  `ReplayOK` does: the collection under the lock takes every open
  intent of a running row, the replay removes one only after its row is closed,
  and no new intent can appear meanwhile, because an intent is written only by a
  worker that holds the lock (`LockOK`) and whose job is at hand (`WorkerOK`,
  `StoredOK`).  `JobOK` adds that one row at most is running, which keeps the
  rows of different workers apart.  `ScopeOK` carries the check of registered
  children through the recovery: only the holder spawns, and a child loses its
  attention, never gains it, when its process dies (`CrashAttends`).  The
  refinement maps `announced` to `staged`; `StageResult` is `Announce`, the
  compare-and-set steps are the two closings, every other step stutters.  The
  cancel and the run file have invariants of their own beside it, since they
  hold also when a replay fails.
* **Batches.**  Whoever works on a batch holds the scope, and no child lives but
  one the batch itself left (`ScopeOK`): the reconciliation looked for children,
  and from then on only its own runs can leave one; what was driven has left the queue and every
  item called done has a job that ended ok (`RecordsOK`).  The hard part is
  `ThreadOK`: the thread reads its items once and works from that list, so what
  it read must still be true from where it stands, and only rows it has passed
  may still show a run; a job it finds running was therefore never driven.
  For the refinement items are begun in their order, so one of a batch at most is
  under way (`FrontOK`), and the batches a start-up still has to look at are not
  over (`QueueOK`).  `Told` hides a batch that was refused; the two halves of
  `Link`, `Claim` and the closings are `Begin`, `Drive` and `Close`, a
  resumption is `Close` of the one item that was under way or nothing, and a job
  that ends ok anywhere, also by a replay of another process, is `Succeed`.
* **Outbox.**  Behind the fence nobody has a row of a revoked device at hand
  (`SilenceOK`).  `BudgetOK` counts, for each row, the times APNs took it, one
  more while the table would still let it be sent, and one more while somebody
  is about to send it on a claim that ran out (`Ghost`); the sum is paid for by
  the message itself, the kills, the stalls and the lost replies.  The refinement
  needs one fact more: an answer "ok" that is not stored yet is APNs' answer for
  the row at hand (`TruthOK`).  A transaction of the table is `Close` or `Store`,
  a revocation `Revoke`; the POST, or the kill in it, is `Take`, which the sum
  above pays for, and everything between stutters.
* **Runs.**  What is in flight conflicts with nothing in flight and a pair is
  taken once (`LoopOK`), and a child somebody waits for belongs to a pair in
  flight that drives it (`ChildrenOK`); nothing is said of one that is stuck.  A pair in flight that passed the guard lies under no
  quarantine (`GuardOK`): one is recorded only by the guard of a pair in flight,
  whose paths no other one overlaps.  What was given its resync is known to the
  history or to the run that gave it (`ResyncOK`).
* **Scheduler.**  `AlarmInvariant`: the alarms noted and sent lie behind the clock
  and were due when they were noted; within one outage the last one noted lies
  behind the last one sent by a repeat period for each that was noted since
  (`Noted`), sent, lost to a kill or swallowed by `notify`.
  `StartInvariant` says of each slot that was started what keeps it from being
  due again (`SlotsOK`): it is the slot of the last attempt, or all its occurrences
  lie behind that attempt, and while the attempt fails the last success is older
  than the slot.  `LineOK` adds that a failing slot was the next in line after that
  success, so a retry returns to it and to no earlier one; `TimesOK` keeps attempt
  and success behind the clock, and `TurnsAlone` has one item of a scope at a time
  run.  The latest occurrence before a time exists by well-founded induction on
  the natural numbers.
* **Configuration.**  A copy with the modification time of the file has its
  content (`CopiesOK`); who writes holds the file lock, and the file is still the
  one its page showed (`WriterOK`); nothing anybody read is newer than the file
  (`VersionsOK`).
* **Account.**  A request knows the password of the generation it proved it in
  (`PasswordOK`); one record or one request at a time holds a ceremony
  (`HeldOnce`), which has led to nothing yet and says truly where it began and
  what proved it (`HoldersOK`); no counter beyond that of the key was accepted
  from it (`CountersOK`).
* **Recovery.**  Versions of a file only grow.  At the last copy there is a
  moment (`Witness`) between what was copied and the target as it is then; the
  second inventory must find every file as in the first, which was before the
  copy, so nothing lies between and the copy is that moment.  `CurrentOK`,
  `RestoreOK` and `FreshOK` relate row, staged outcome, record and directory
  through kills and late outcomes; `PlaceOK` says that a child belongs to the
  holder of the lock and that removals and the clean-up of the start run only
  while there is none.  `DiskWithinBudget` compares two sums over finite sets:
  what the retained records count fits the limit, since the sum is checked under
  the lock before a record is counted (`SumOK`), and every directory belongs to
  such a record and is no larger than it counts (`HeldOK`, `StageOK`); that a sum
  grows with its set and with its summands is proved by induction over subsets.
* **Vault.**  A creation that has looked for the blob has no receipt yet, a
  receipt that does not exist was never spoken of, and a completion at work has
  its receipt to itself.  A receipt whose removal was cut short is exempt until the
  phone is answered again (`cut`).  `ReconciledIs` says what the reconciliation leaves:
  what the receipt and the part file agree on, chunk by chunk.
* **Together.**  A step of `MCComponents` is a step of one component and a stutter
  of the others, so each of its behaviours is one of each component, and its
  theorems carry over to the system of the run.

## 5. What is only model-checked

Every safety invariant, action property and refinement of a passing run is a
theorem.  What is left to TLC:

* The liveness properties `RunsEnd`, `BatchesEnd`, `OutboxDrains`, `RunEnds`,
  `SlotAnswered` and `CompletionEnds`: fairness and ENABLED are outside the
  prover.  Induction over data is nearly so, since the library's induction
  theorems cannot be instantiated.  The sum behind `DiskWithinBudget` (`Total`) is
  the one such definition the theorems need: `SubsetInduction` derives an induction
  over the subsets of a finite set from the least number of a set of naturals,
  `SumsExist` and `SumsAgree` show that the recursive function exists and is
  unique, and `TotalIs`, `TotalTake` and `TotalMonotone` follow.
* The violations: a counterexample needs no proof.

## 6. What is not modelled

`PROJECT.json` lists every component with its status and reason.  In short:

* the progress stream, the restore drill's comparison of files, the PBS command,
  maintenance, diagnostics, validation, user interfaces and installation: they
  keep no state the modelled parts depend on, or repeat the lifecycle;
* of the lifecycle and the batches: the configuration snapshot stored with a
  batch, audit rows, progress, the watchdog times;
* of a run: the capture of a full point inside `_sync_pair`
  (`rclone_sync.py:1686`), dry runs, how paths are measured;
* of the outbox: the deletion of rows after 30 days, the payloads;
* of the configuration: `set()` and `save()`, which nobody calls, the checks of
  the content, filter files;
* of the account: the counters that slow down failed logins, cryptography;
* of recovery: browsing and comparing points, the limits of one capture;
* of the vault: confinement of paths, listing, the encryption of the emergency
  file.

Behaviour met while modelling that no property states, since no document, test
or comment promises the opposite:

* `api_jobs.py:693`, `:827`, `:735`, `:1007` -- a job row committed before the
  next operation fails blocks the rest of the batch; a stored batch whose request
  is answered with 500 is driven after the next restart; an item is closed as
  failed when its job's outcome is replayed between two looks; a cancel that
  comes before the row exists does not survive a kill;
* `rclone_sync.py:329`, `api_jobs.py:646` -- after a `SIGKILL` that cannot be
  confirmed the thread of the batch drives the next definition beside the living
  child, on overlapping paths too; `DrivesAlone` and `OverlapSerialised` exempt
  exactly this child;
* `overdue.py:150`, `notifications.py:44` -- an alarm noted and then lost, to a
  kill or to a swallowed failure of the outbox, is due again only after the repeat
  period (`AlarmRhythm` counts it);
* `device_vault.py:1076`, `:826` -- a removal cut short leaves a receipt that still
  receives without the chunks the phone was told of; a verified upload whose
  audit row fails is shown as failed;
* `runtime_state.py:171` -- the start-up rewrites the run file in two steps, which
  the model takes as one;
* `push_notifications.py:540`, `db.py:2896`, `:2903` -- `BadDeviceToken` deletes a
  registration renewed meanwhile; a lapsed claim comes back whatever its
  attempts; a row that expires during its POST is marked failed;
* `scheduler.py:150`, `:228` -- where the grace of a first start is shorter than
  the hour that is repeated, a job that never succeeded and failed in the first
  occurrence of a slot is started again in the second: the failure holds back a
  retry only within the grace (`RepeatsWithinGrace` excludes it);
* `scheduler_control.py:29`, `db.py:2492` -- a tick that saw an expired pause
  deletes a new one; a run by hand makes a PBS target forget its own attempt;
* `restore_workspace.py:75`, `recovery_snapshots.py:508`,
  `selective_restore.py:368`, `api_recovery.py:353` -- a scratch directory without
  a receipt stays; the start looks for a name that no capture has; a removal
  killed midway leaves a ready record; one outcome that cannot be applied answers
  every later recovery with 503;
* `device_vault.py:539`, `:1012` -- after a change of the data path a queued
  upload is refused its completion; a download saves a removed receipt again.

## 7. Plan

The most important behaviour came first: what happens to a run.

1. `JobLedger`, `JobLifecycle`, `JobLifecycleProofs` -- done.
2. `DefinitionBatch`, `PushOutbox` -- done.
3. `PairRunner`, `SchedulerDue`, `ConfigStore`, `AccountGrants`,
   `RecoveryStore`, `VaultUpload`, checked together -- done.
4. Proofs of every safety property of the runs, in `JobLifecycleProofs`,
   `DefinitionBatchProofs`, `PushOutboxProofs`, `TransferProofs`,
   `ConfigAccountProofs`, `SchedulerDueProofs`, `RecoveryStoreProofs`,
   `ComponentProofs` -- done.
5. Abstract specifications beside `JobLedger`: `BatchLedger` and `OutboxLedger`,
   with their refinements checked and proved -- done.
6. Left for a model of its own: the progress stream, the lock-out counters of
   failed logins, the capture of a full point inside a run.
